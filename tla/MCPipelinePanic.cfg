SPECIFICATION Spec
CONSTANTS
  Tracked = {news, sec}
  Untracked = {first}
  Filers = {sec, first}
  Workers = {w1}
  Cap = 1
  MaxBatch = 1
  MaxEvents = 1
  None = None
INVARIANT GracefulShutdown
