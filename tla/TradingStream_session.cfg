SPECIFICATION FairSpec
CONSTANTS
  DataTimeout = 3
  ReceivePoll = 4
  MinBackoff = 1
  MaxBackoff = 4
  StableSession = 2
  MaxU32 = 3
  InboxCap = 1
  SessionCap = 3
  MaxHold = 2
INVARIANTS
  NothingLost
PROPERTIES
  ImplementsReconnect
  QuietSessionForgiven
  ComesBack
CHECK_DEADLOCK FALSE
