SPECIFICATION Spec
CONSTANTS
  MaxRetries = 3
  BaseDelay = 4
  MaxDelay = 12
  Multiplier = 2
INVARIANT ThreeAttempts
CHECK_DEADLOCK FALSE
