\* Every callback sends, one datagram is empty, sendto may fail.
CONSTANTS
  d1 = d1  d2 = d2  d3 = d3  d4 = d4  e1 = e1
  Datagram <- MCDatagramE
  Empty <- MCEmpty
  Lists <- MCLists
  Roles = {"client", "server"}
  MaxConnects = 2
  MaxCopies = 5
SPECIFICATION FairSpec
INVARIANTS SentOnceInOrder DescriptorFollowsLoop
PROPERTIES ImplementsChannel Drains
CHECK_DEADLOCK FALSE
