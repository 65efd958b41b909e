\* One order, two attempts of the customer and a payment started by staff.
SPECIFICATION FairSpec
CONSTANTS
  Payment = {"first", "second", "staff"}
  Board = {}
  Caller = {"orphan", "cancel"}
  NoPayment = NoPayment
  MaxAmount = 2
  MaxRefunds = 2
  Starts = {"pending"}
  ListModes = {FALSE}
  Attempt <- TwoAttempts
  Totals = {0, 2}
  MaxTries = 1
CHECK_DEADLOCK FALSE
INVARIANTS
  HeldWithinTotal
  OrphanCovered
PROPERTIES
  PromiseKept
  PendingEnds
