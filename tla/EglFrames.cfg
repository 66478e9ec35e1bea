SPECIFICATION FairEglSpec
CONSTANTS
  MaxFrames = 5
INVARIANTS EglTypeOK WaitIsAnswered
PROPERTIES TimeoutEnds
CHECK_DEADLOCK FALSE
