SPECIFICATION FairSpec
CONSTANTS
  Null = Null
  Buffers = {b1, b2, b3}
  Sizes = {z1, z2}
  MAX_BUFFERS = 2
  MaxNested = 1
INVARIANTS TypeOK PaintsOwnBuffer UsedAreKept KeepsContent
PROPERTIES StallEnds
