\* See README, known defects.  Run it with -continue to see them all.
CONSTANTS
    Size = 2
    Fd <- MCFd
    MaxForeign = 1
SPECIFICATION FairSpec
INVARIANTS QuitOnLiveLoop ForeignStaysOpen
PROPERTY DestructorAlwaysEnds
CHECK_DEADLOCK FALSE
