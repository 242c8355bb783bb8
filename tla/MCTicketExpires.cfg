\* A ticket that outlived its own window, in one run of the service.
SPECIFICATION HSpec
CONSTANTS
  k1 = k1  k2 = k2  d1 = d1
  v1 = v1  v2 = v2  stranger = stranger
  None = None
  Uids = {v1, v2, stranger}
  Roll = {v1, v2}
  Kiosks = {k1, k2}
  Trusted = {d1}
  CheckinRequests <- MCCheckinRequests
  TicketRequests <- MCTicketRequests
  PinColumn <- MCPinColumn
  HALF = 10
  REQUEST_FRESHNESS_INTERVAL = 1
  TIMEOUT_INTERVAL = 3
  Epoch = 2
  MaxTime = 6
  MaxTickets = 2
  MaxBoots = 1
INVARIANT TicketExpires
CHECK_DEADLOCK FALSE
