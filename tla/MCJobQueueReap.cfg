\* One worker dies with two runs of one key: the single UPDATE of the reaper can never succeed.
SPECIFICATION FairSpec
CONSTANTS
  Job = {j1, j2}
  Key = {k1}
  Worker = {w1}
  Slot = {s1, s2}
  Client = {c1}
  NoJob = NoJob
  NoKey = NoKey
  MaxAttempts = 1
  MaxFaults = 1
  MaxSlow = 0
  MaxRetries = 0
CHECK_DEADLOCK FALSE
PROPERTIES
  LostJobsComeBack
