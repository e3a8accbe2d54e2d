\* new_connection_cb_ stops the server and an accept error puts the acceptor back
\* into the loop; a start of a server that the loop still has is not watched.
\* Run it with -continue to see both.
CONSTANTS
  c1 = c1  c2 = c2  c3 = c3  k1 = k1
  Conn <- MCTwo
  Client <- MCNobody
  Fd <- MCFd
  KeepsReference = TRUE
  ClientsClose = FALSE
  MaxOthers = 1
  Restarts = TRUE
SPECIFICATION Spec
INVARIANTS StoppedLeavesLoop StartedIsWatched
CHECK_DEADLOCK FALSE
