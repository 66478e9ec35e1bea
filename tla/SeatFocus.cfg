SPECIFICATION Spec
CONSTANTS
  Clients = {c1, c2}
  Twice = {c2}
  Many = {c1}
  Views = {v1, v2}
  MaxButtons = 1
  None = None
INVARIANTS TypeOK KeyboardTold PointerTold
SYMMETRY ViewSymmetry
