SPECIFICATION FairSpec
CONSTANTS
  DataTimeout = 2
  ReceivePoll = 1
  MinBackoff = 1
  MaxBackoff = 2
  StableSession = 2
  MaxU32 = 3
  Batches <- QuietBatches
  InboxCap = 1
  SessionCap = 2
  Patience = {1}
PROPERTIES
  HandshakeEnds
CHECK_DEADLOCK FALSE
