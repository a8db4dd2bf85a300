SPECIFICATION FairSpec
CONSTANTS
  KeyLengths = {29, 32}
  MaxOutages = 2
INVARIANT SetUpBeforeUse
PROPERTY RunsAgain
