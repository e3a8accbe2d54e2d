CONSTANTS
    Size = 2
    Fd <- MCFd
    MaxForeign = 1
SPECIFICATION FairSpec
INVARIANT GetLoopIsTrue
INVARIANT EpollIsItsOwn
PROPERTY DestructorEnds
CHECK_DEADLOCK FALSE
