\* Every operation, with room made in each of the three ways.
CONSTANTS
  Byte = {0, 1}
  Blank = 0
  Chunk <- MCChunk
  kCheapPrepend = 1
  kInitialSize = 2
  ExtraSize = 2
  IntSize = {1, 2}
  Requirement <- MCRequirement
  MaxChunk = 3
  MaxReadable = 4
SPECIFICATION Spec
INVARIANTS TypeOK GrowthBounded
PROPERTY ImplementsByteQueue
