\* One kiosk, two trusted devices, one voter, two tickets, one restart.
SPECIFICATION FairSystem
CONSTANTS
  k1 = k1  k2 = k2  d1 = d1  d2 = d2  v1 = v1
  None = None
  Uids = {v1}
  Roll = {v1}
  Kiosks = {k1}
  Trusted = {d1, d2}
  CheckinRequests <- MCCheckinRequests
  TicketRequests <- MCTicketRequests
  PinColumn <- MCPinColumn
  Pins = {7}
  HALF = 10
  REQUEST_FRESHNESS_INTERVAL = 0
  TIMEOUT_INTERVAL = 1
  cleanup_threshold = 0
  SLEEP = 1
  Epoch = 2
  MaxTime = 3
  MaxTickets = 2
  MaxBoots = 2
INVARIANTS SystemTypeOK AdmittedOnce ShownTicketsKnown RecentFaultsKept
PROPERTIES KiosksNotBlamed OldRecordsGo KioskCallsEnd
CHECK_DEADLOCK FALSE
