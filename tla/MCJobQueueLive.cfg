\* Unkeyed jobs: crashes, shutdowns and one handler that outlives its lock.
SPECIFICATION FairSpec
CONSTANTS
  Job = {j1, j2}
  Key = {}
  Worker = {w1, w2}
  Slot = {s1}
  Client = {c1}
  NoJob = NoJob
  NoKey = NoKey
  MaxAttempts = 2
  MaxFaults = 1
  MaxSlow = 1
  MaxRetries = 0
CHECK_DEADLOCK FALSE
PROPERTIES
  EveryJobSettles
