\* Two endpoints, two clients, two keys, one restart.
SPECIFICATION Spec
CONSTANTS
  e1 = e1  e2 = e2  i1 = i1  i2 = i2  key1 = key1  key2 = key2
  None = None
  Torn = Torn
  Endpoints = {e1, e2}
  Ids = {i1, i2}
  Keys = {key1, key2}
  Requests <- MCRequests
  Uids <- MCUids
  INVALID_VOTER_ID = 255
  voter_data <- MCVoterData
  MaxStreams = 2
  MaxBoots = 2
INVARIANTS TypeOK ReadHasStream ConnectedHasVerifier
PROPERTY VerifierStays
CHECK_DEADLOCK FALSE
