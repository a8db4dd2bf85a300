SPECIFICATION FairSystemSpec
CONSTANTS
  Loop = {loop}
  First = {first}
  Workers = {w1}
  Cap = 1
  Window = 2
  UsesCIK = TRUE
  MaxItems = 2
  MaxFailures = 0
  MaxCrashes = 1
INVARIANTS SystemTypeOK AlertsBounded
PROPERTY EventuallyHandled
CHECK_DEADLOCK FALSE
