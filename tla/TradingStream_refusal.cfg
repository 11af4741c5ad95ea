SPECIFICATION Spec
CONSTANTS
  DataTimeout = 0
  ReceivePoll = 1
  MinBackoff = 1
  MaxBackoff = 2
  StableSession = 2
  MaxU32 = 3
  InboxCap = 1
  SessionCap = 2
  MaxHold = 1
INVARIANTS
  EndsOnlyOnRefusal
CHECK_DEADLOCK FALSE
