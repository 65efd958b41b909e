SPECIFICATION Spec
CONSTANTS
  Customers = {1, 2}
  Workers = {w1, w2}
  Texts <- MCTexts
  Batch = 2
  Page = 2
  MaxTries = 2
  MaxCrash = 1
  CrashKinds = {"dispatch"}
  MaxFail = 1
  MaxNights = 1
  MaxChanges = 1
INVARIANT LineSentOnce
SYMMETRY AnyWorker
CHECK_DEADLOCK FALSE
