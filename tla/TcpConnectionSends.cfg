\* Any write may be refused, or none: order, closing, the watching of EPOLLOUT,
\* and until a refusal every byte and every report of completion.
CONSTANTS
  s1 = s1  s2 = s2  s3 = s3  s4 = s4
  Call <- MCCall
  Size <- MCSize
  ByList <- MCByList
  ByOther <- MCByOther
  SizeMax = 7
SPECIFICATION FairSpec
INVARIANTS TypeOK PendingIsWatched WireInOrder NothingLost
PROPERTIES ImplementsChannel SentOrClosed
CHECK_DEADLOCK FALSE
