SPECIFICATION Spec
CONSTANTS
  Lists <- MCLists
  MaxEdits = 2
INVARIANTS
  LastBuilderWins
  AcceptedAsBuilt
  ChecksHold
CHECK_DEADLOCK FALSE
