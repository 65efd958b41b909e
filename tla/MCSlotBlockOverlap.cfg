SPECIFICATION Spec
CONSTANTS
  b1 = b1
  b2 = b2
  p = p
  q = q
  early = early
  late = late
  h1 = h1
  h2 = h2
  w1 = w1
  w2 = w2
  Booking = {b1, b2}
  Staff = {p, q}
  Time = {early, late}
  HalfHour = {h1, h2}
  Span <- Halves
  Own <- OwnCells
  Worker = {w1, w2}
  MaxTries = 3
  MaxUpsets = 2
INVARIANTS ConvergentAlways
CHECK_DEADLOCK FALSE
