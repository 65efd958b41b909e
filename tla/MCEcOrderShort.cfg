\* A refund that failed still counts for the order.
SPECIFICATION Spec
CONSTANTS
  Payment = {"first"}
  Board = {"board"}
  Caller = {"orphan", "cancel"}
  NoPayment = NoPayment
  MaxAmount = 2
  MaxRefunds = 2
  Starts = {"succeeded"}
  ListModes = {TRUE}
  Attempt <- OneAttempt
  Totals = {0, 2}
  MaxTries = 1
CHECK_DEADLOCK FALSE
PROPERTIES
  RepaidOnCancel
