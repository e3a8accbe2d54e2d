\* A TcpClient of the same loop closes, and the application keeps no reference.
\* Run it with -continue to see both.
CONSTANTS
  c1 = c1  c2 = c2  c3 = c3  k1 = k1
  Conn <- MCTwo
  Client <- MCClient
  Fd <- MCFd
  KeepsReference = FALSE
  ClientsClose = TRUE
  MaxOthers = 0
  Restarts = FALSE
SPECIFICATION Spec
INVARIANTS EveryConnectionIsRegistered NotUsedAfterDestroyed
CHECK_DEADLOCK FALSE
