SPECIFICATION Spec
CONSTANTS
  KeyLengths = {32}
  MaxOutages = 0
INVARIANT AlertsStorable
