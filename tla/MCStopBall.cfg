SPECIFICATION FairSpecStop
CONSTANTS
  MaxGeneration = 2
  MaxRequests = 2
  MaxFaults = 1
INVARIANTS
  CancelledByItsRequest
  WithdrawnIsNeverAcknowledged
PROPERTIES
  RequestsAreFollowedUp
CHECK_DEADLOCK FALSE
