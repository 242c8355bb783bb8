\* Three threads; the default file, another good one and one the constructor
\* throws on.
SPECIFICATION FairSpec
CONSTANTS
  t1 = t1  t2 = t2  t3 = t3
  Threads = {t1, t2, t3}
  default = default  other = other  broken = broken
  Files = {default, other, broken}
  Complete = {default, other}
  DEFAULT_CONFIG_FILE = default
  None = None
INVARIANTS TypeOK ReturnsInitialized
PROPERTIES InstanceStays CallsEnd
CHECK_DEADLOCK FALSE
