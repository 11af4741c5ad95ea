SPECIFICATION FairSpec
CONSTANTS
  DataTimeout = 3
  ReceivePoll = 2
  MinBackoff = 1
  MaxBackoff = 3
  StableSession = 2
  MaxU32 = 3
  Batches <- MixedBatches
  InboxCap = 2
  SessionCap = 3
  Patience = {0, 3}
INVARIANTS
  TypeOK
  SilenceNoticed
  NothingLost
  PollMeetsDeadline
PROPERTIES
  ImplementsReconnect
  SilentSessionsEnd
  ComesBack
CHECK_DEADLOCK FALSE
