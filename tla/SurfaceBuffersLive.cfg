SPECIFICATION FairSpec
CONSTANTS
  Null = Null
  Surfaces = {s1}
  Views = {v1}
  Items = {v1}
  Windows = {w1}
  Buffers = {b1,b2}
  Lockable = {v1}
  Discardable = {}
  Hideable = {}
  Movable = {v1}
  UploadsShm = FALSE
  Unmaps = TRUE
PROPERTIES SupersededReturned LatestIsShown
