SPECIFICATION Spec
CONSTANTS
  Uses <- MCUses
  Targets = {"storage", "api", "broker-api"}
  RedirectLimit = 2
  Retries = 1
  MaxLog = 3
  MaxFaults = 2
  Durations = {0, 1, 2, 3}
  DefaultMinBackoff = 1
  DefaultMaxBackoff = 2
  DefaultStable = 2
  Channels = {1, 2, 3}
  Subscribable = {1, 2}
  Symbols = {1, 2, 3, 4}
  KeySize <- MCKeySize
  SymbolSize <- MCSymbolSize
  Overhead = 4
  MaxFrame = 13
INVARIANTS
  NothingLeavesHome
  FacadeIsTransparent
  RunsSoundly
  EverySymbolOnce
  FramesFit
  OpensForSomething
PROPERTIES
  CallsEnd
  ImplementsLogReader
  CatchesUp
CHECK_DEADLOCK FALSE
