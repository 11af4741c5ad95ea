SPECIFICATION Spec
CONSTANTS
  DataTimeout = 2
  ReceivePoll = 1
  MinBackoff = 1
  MaxBackoff = 2
  StableSession = 2
  MaxU32 = 3
  Batches <- QuietBatches
  InboxCap = 2
  SessionCap = 3
  Patience = {3}
PROPERTIES
  StaleOnlyWithoutData
CHECK_DEADLOCK FALSE
