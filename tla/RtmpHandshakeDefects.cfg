\* A client that waits for nothing more after S2 hangs.  Between our client and our
\* server the client goes on as a server, C2 and S2 are keyed by their own end,
\* and handshake returns 0 long before it is done.
\* Run it with -continue to see them all.
CONSTANTS
  Setups <- MCDefects
  Form <- MCAllForms
  kPacketSize = 3
SPECIFICATION RtmpFairSpec
INVARIANTS ClientStaysClient ZeroMeansDone KeyedByPeer
PROPERTY ServerFinishes
CHECK_DEADLOCK FALSE
