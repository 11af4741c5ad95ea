SPECIFICATION Spec
CONSTANTS
  Walkers = {"transfers"}
  PageSize = 2
  NoCap = NoCap
  Caps = {NoCap}
  MaxU32 = 9
  Servers <- OneByOneServer
  Before = 2
  Newest = 3
INVARIANTS
  TransfersAreWhole
CHECK_DEADLOCK FALSE
