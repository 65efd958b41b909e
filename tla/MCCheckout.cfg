SPECIFICATION Spec
CONSTANTS
  t1 = t1
  t2 = t2
  s1 = s1
  s2 = s2
  Sale <- MCSale
  Session <- MCSession
  NoSession = NoSession
  NoSale = NoSale
  q1 = q1
  Request <- MCRequest
  Price <- MCPrice
  Offered <- MCOffered
  Granted = 1
  YenPerPoint = 1
  NeedRegister = FALSE
  MaxRefunds = 2
  MaxEarly = 1
  MaxFailures = 1
  MaxExpiries = 1
  MaxMoves = 1
INVARIANTS TypeOK SaleNotOverstated CashBooked BalanceIsLedger PointsReversedOnce
CONSTRAINT SalesOrSessions
CHECK_DEADLOCK FALSE
