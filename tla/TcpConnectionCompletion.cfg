\* A refused write: completion is reported for bytes never written.
CONSTANTS
  s1 = s1  s2 = s2  s3 = s3  s4 = s4
  Call <- MCCall
  Size <- MCSize
  ByList <- MCByList
  ByOther <- MCByOther
  SizeMax = 7
SPECIFICATION Spec
INVARIANT CompletionIsTrue
CHECK_DEADLOCK FALSE
