SPECIFICATION FairSpec
CONSTANTS
  Loop = {loop}
  First = {first}
  Window = 2
  UsesCIK = TRUE
  MaxItems = 3
  MaxFailures = 1
  MaxCrashes = 1
PROPERTIES EventuallySent
INVARIANTS InOrder AtMostThree OneView
CHECK_DEADLOCK FALSE
