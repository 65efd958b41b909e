\* By hand: a refund in the amount of a charge without its list, and again by its
\* own row.
SPECIFICATION Spec
CONSTANTS
  Payment = {"first"}
  Board = {"board"}
  Caller = {"orphan", "cancel", "desk"}
  NoPayment = NoPayment
  MaxAmount = 2
  MaxRefunds = 2
  Starts = {"succeeded"}
  ListModes = {FALSE}
  Attempt <- OneAttempt
  Totals = {0, 2}
  MaxTries = 2
CHECK_DEADLOCK FALSE
INVARIANTS
  NeverOverReturned
