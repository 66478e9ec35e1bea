SPECIFICATION FairSpec
CONSTANTS
  Null = Null
  Surfaces = {s1}
  Views = {v1, v2}
  Outputs = {o1, o2}
  Callbacks = {c1, c2}
  MaxQueued = 1
  LateOutputs = {o2}
INVARIANTS TypeOK TablesAgree MarkedInOrder
PROPERTIES Answered
