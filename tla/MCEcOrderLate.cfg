\* A declined payment is made good after another one paid the order.
SPECIFICATION FairSpec
CONSTANTS
  Payment = {"first", "second"}
  Board = {}
  Caller = {"orphan", "cancel"}
  NoPayment = NoPayment
  MaxAmount = 2
  MaxRefunds = 2
  Starts = {"pending"}
  ListModes = {FALSE}
  Attempt <- TwoAttempts
  Totals = {0, 2}
  MaxTries = 1
CHECK_DEADLOCK FALSE
PROPERTIES
  DuplicateIsRefunded
