SPECIFICATION FairSpec
CONSTANTS
  c1 = c1
  Calls = {c1}
  Requests <- MCRequests
  Statuses <- MCStatuses
  StatusCodes <- DefaultCodes
  MaxU32 = 4
  Wait = 1
  MaxWait = 3
  DefaultCap = 3
  RetryAfters <- LongHeader
  Durations <- MCDurations
  HasTimeout = TRUE
INVARIANTS
  AtMostOnce
  ActingRoutesOnce
  RefusedMeansNothingDone
  RetryPolicyKept
  
PROPERTIES
  ImplementsEffectOnce
  EveryCallReturns
CHECK_DEADLOCK FALSE
