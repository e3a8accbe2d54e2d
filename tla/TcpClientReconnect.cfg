\* See README, known defects.  Run it with -continue to see them all.
CONSTANTS
    k1 = k1  k2 = k2
    Client <- MCClients
    Fd <- MCFd
    Attempts = 2
SPECIFICATION FairSpec
INVARIANTS NoDescriptorLeaks ConnectedIsOpen
PROPERTY EveryAttemptEnds
CHECK_DEADLOCK FALSE
