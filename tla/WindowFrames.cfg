SPECIFICATION FairSpec
CONSTANTS
  Null = Null
  Sizes = {z1, z2}
INVARIANTS TypeOK WaitsForSomething HiddenIsUnmapped
PROPERTIES UpdateDelivered
