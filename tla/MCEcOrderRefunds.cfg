\* One payment and its refunds by job, staff, cancellation and dashboard.
SPECIFICATION FairSpec
CONSTANTS
  Payment = {"first"}
  Board = {"board"}
  Caller = {"orphan", "cancel", "desk"}
  NoPayment = NoPayment
  MaxAmount = 2
  MaxRefunds = 2
  Starts = {"succeeded"}
  ListModes = {TRUE, FALSE}
  Attempt <- OneAttempt
  Totals = {0, 2}
  MaxTries = 2
CHECK_DEADLOCK FALSE
INVARIANTS
  TypeOK
  OrphanGivenBack
  CancelledIsRepaid
  CountedOnce
PROPERTIES
  OrphanEnds
