SPECIFICATION TextSpec
CONSTANTS
  Surfaces = {s1, s2}
  None = None
  MaxEvents = 3
  MaxInputs = 2
INVARIANTS TextTypeOK AgreeWhenQuiet NoneIsLate
CHECK_DEADLOCK FALSE
SYMMETRY TargetSymmetry
