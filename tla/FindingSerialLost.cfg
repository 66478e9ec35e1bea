SPECIFICATION Spec
CONSTANTS
  MaxSerial = 3
  MaxRequests = 0
  Threaded = TRUE
INVARIANTS SerialIsPending
CHECK_DEADLOCK FALSE
