\* A change committed after its enqueue was deduplicated against a row that was claimed meanwhile.
SPECIFICATION Spec
CONSTANTS
  Job = {j1, j2}
  Key = {k1}
  Worker = {w1, w2}
  Slot = {s1}
  Client = {c1}
  NoJob = NoJob
  NoKey = NoKey
  MaxAttempts = 2
  MaxFaults = 0
  MaxSlow = 0
  MaxRetries = 0
CHECK_DEADLOCK FALSE
INVARIANTS
  MidRunChangeNotLost
