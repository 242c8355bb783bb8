\* Key files after a save that was cut short.
SPECIFICATION Spec
CONSTANTS
  e1 = e1  e2 = e2  i1 = i1  i2 = i2  key1 = key1  key2 = key2
  None = None
  Torn = Torn
  Endpoints = {e1, e2}
  Ids = {i1, i2}
  trusted_clients = {i2}
  Keys = {key1, key2}
  MaxStreams = 2
  MaxBoots = 2
INVARIANT AllKeyFilesLoaded
CHECK_DEADLOCK FALSE
