\* Callbacks close any connection, stop the server and start it, other threads and
\* a client open descriptors, and accept fails at any time.
CONSTANTS
  c1 = c1  c2 = c2  c3 = c3  k1 = k1
  Conn <- MCTwo
  Client <- MCClient
  Fd <- MCFd
  KeepsReference = TRUE
  ClientsClose = FALSE
  MaxOthers = 1
  Restarts = TRUE
SPECIFICATION FairSpec
CONSTRAINT MCBound
INVARIANTS DescriptorsAgree DeliveredToOwner
PROPERTIES NobodyIsForgotten
CHECK_DEADLOCK FALSE
