SPECIFICATION FairSpec
CONSTANTS
  Tracked = {sec}
  Untracked = {first}
  Filers = {sec, first}
  Workers = {w1}
  Cap = 1
  MaxBatch = 2
  MaxEvents = 2
  None = None
INVARIANTS
  ExactlyOnce
  IngestedLag
  FinalMetrics
PROPERTIES
  ContractSpec
  DrainedUnenriched
  EventuallyResolved
  ShutdownCompletes
