SPECIFICATION FairSpec
CONSTANTS
  b1 = b1
  b2 = b2
  p = p
  q = q
  early = early
  late = late
  h1 = h1
  h2 = h2
  w1 = w1
  w2 = w2
  Booking = {b1, b2}
  Staff = {p, q}
  Time = {early, late}
  HalfHour = {h1, h2}
  Span <- Halves
  Own <- OwnCells
  Worker = {w1}
  MaxTries = 1
  MaxUpsets = 2
PROPERTIES EndsHeldAgain
CHECK_DEADLOCK FALSE
