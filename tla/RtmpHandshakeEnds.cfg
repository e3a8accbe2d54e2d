\* Our server, our client, or both, with the other implementation.
CONSTANTS
  Setups <- MCSetups
  Form <- MCAllForms
  kPacketSize = 3
SPECIFICATION RtmpFairSpec
INVARIANTS ServerSendsInOrder DoneMeansExchanged
PROPERTIES HandshakeEnds
CHECK_DEADLOCK FALSE
