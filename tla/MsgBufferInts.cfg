\* readInt64 after the check its comment asks for.
CONSTANTS
  Byte = {0}
  Blank = 0
  Chunk <- MCZeros
  kCheapPrepend = 8
  kInitialSize = 8
  ExtraSize = 8
  IntSize = {4, 8}
  Requirement <- MCDocumented
  MaxChunk = 1
  MaxReadable = 8
SPECIFICATION Spec
INVARIANT NeverAborts
