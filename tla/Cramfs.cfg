SPECIFICATION Spec
CONSTANTS
  Trees <- MCTrees
  NameLen <- MCNameLen
  BlockSize = 64
  NameBits = 2
  SizeBits = 7
  OffBits = 6
  MaxDepth = 3
INVARIANTS RoundTrip NoOverlap
CHECK_DEADLOCK FALSE
