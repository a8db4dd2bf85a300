SPECIFICATION FairSpec
CONSTANTS
  MaxRetries = 3
  BaseDelay = 4
  MaxDelay = 12
  Multiplier = 2
INVARIANTS HonestResult AtMostOneLate
PROPERTIES BackoffGrows Returns
CHECK_DEADLOCK FALSE
