CONSTANTS
    k1 = k1  k2 = k2
    Client <- MCClients
    Fd <- MCFd
    Attempts = 1
SPECIFICATION FairSpec
INVARIANTS ConnectedIsTrue DescriptorsAgree
PROPERTIES AttemptEnds
CHECK_DEADLOCK FALSE
