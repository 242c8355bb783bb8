\* Two operators, three warnings and other messages, a log queue of two messages.
SPECIFICATION FairSpec
CONSTANTS
  s1 = s1  s2 = s2
  Sessions = {s1, s2}
  QueueSize = 2
  SendBuffer = 1
  MaxWarnings = 3
INVARIANTS TypeOK WarningsAccountedFor ShownIndicesStand
PROPERTIES CommandsAnswered
