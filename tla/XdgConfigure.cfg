SPECIFICATION FairSpec
CONSTANTS
  MaxSerial = 3
  MaxRequests = 2
  Threaded = FALSE
INVARIANTS TypeOK AgreeWhenQuiet WindowSizeKept
PROPERTIES ConfigureAcked
CHECK_DEADLOCK FALSE
