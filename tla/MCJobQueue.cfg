\* Two workers, three rows, one key and unkeyed jobs; one worker fault,
\* one operator retry, no handler outlives its lock.
SPECIFICATION Spec
CONSTANTS
  Job = {j1, j2, j3}
  Key = {k1}
  Worker = {w1, w2}
  Slot = {s1}
  Client = {c1}
  NoJob = NoJob
  NoKey = NoKey
  MaxAttempts = 2
  MaxFaults = 1
  MaxSlow = 0
  MaxRetries = 1
SYMMETRY Symmetry
CHECK_DEADLOCK FALSE
INVARIANTS
  TypeOK
  ExclusiveExecution
  AttemptBudget
  CoveredChangeNotLost
PROPERTIES
  SettledIsFinal
