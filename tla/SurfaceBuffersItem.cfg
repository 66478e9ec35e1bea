SPECIFICATION Spec
CONSTANTS
  Null = Null
  Surfaces = {s1}
  Views = {v1}
  Items = {v1}
  Windows = {w1,w2}
  Buffers = {b1,b2}
  Lockable = {v1}
  Discardable = {}
  Hideable = {v1}
  Movable = {v1}
  UploadsShm = FALSE
  Unmaps = TRUE
SYMMETRY Symmetry
INVARIANTS TypeOK ReferencedIsLent ReleaseIsOwed PaintedIsCurrent
PROPERTIES OwnershipKept
