\* Two threads call start and stop: see README, known defects.
CONSTANTS
    good = good  bad = bad  a = a  b = b
    NoHost = NoHost
    Host <- MCHosts
    Caller <- MCTwo
    Answers <- MCAnswers
    Retry = 1
    MaxStarts = 2
    MaxVersion = 1
SPECIFICATION DnsSpec
INVARIANT NeverTerminated
CHECK_DEADLOCK FALSE
