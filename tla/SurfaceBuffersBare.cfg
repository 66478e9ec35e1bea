SPECIFICATION Spec
CONSTANTS
  Null = Null
  Surfaces = {s1,s2}
  Views = {v1,v2}
  Items = {}
  Windows = {}
  Buffers = {b1,b2}
  Lockable = {}
  Discardable = {v2}
  Hideable = {}
  Movable = {v1,v2}
  UploadsShm = TRUE
  Unmaps = FALSE
SYMMETRY Symmetry
INVARIANTS ViewLists ShownIsLatest LentWillBeReleased
