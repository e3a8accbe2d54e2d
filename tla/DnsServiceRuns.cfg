CONSTANTS
    good = good  bad = bad  a = a  b = b
    NoHost = NoHost
    Host <- MCHosts
    Caller <- MCOne
    Answers <- MCAnswers
    Retry = 2
    MaxStarts = 3
    MaxVersion = 3
SPECIFICATION DnsFairSpec
INVARIANTS OneWorker
PROPERTIES TableMovesForward StopEnds FollowsRecord
CHECK_DEADLOCK FALSE
