\* Two voters and three calls of one client.
SPECIFICATION Spec
CONSTANTS
  v1 = v1  v2 = v2
  None = None
  Voters = {v1, v2}
  MaxCalls = 3
INVARIANTS TypeOK PendingHasOperation NameMatchesVoter
PROPERTIES ResponseFulfils ImplementsCall
CHECK_DEADLOCK FALSE
