\* A socket is connected or started again after a close; a server is stopped.
CONSTANTS
  d1 = d1  d2 = d2  d3 = d3  d4 = d4  e1 = e1
  Datagram <- MCDatagram
  Empty <- MCNone
  Lists <- MCLists
  Roles = {"client", "server"}
  MaxConnects = 2
  MaxCopies = 5
SPECIFICATION Spec
INVARIANTS OpenIsServed ClosedLeavesLoop
CHECK_DEADLOCK FALSE
