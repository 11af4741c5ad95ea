SPECIFICATION Spec
CONSTANTS
  Walkers = {"orders", "transfers", "activities", "tokens"}
  PageSize = 2
  NoCap = NoCap
  Caps = {NoCap, 0, 1, 3}
  MaxU32 = 3
  Servers <- MCServers
  Before = 4
  Newest = 4
INVARIANTS
  TypeOK
  NothingWasted
  NoGaps
  Complete
  NoDuplicates
  BoundedRequests
CHECK_DEADLOCK FALSE
