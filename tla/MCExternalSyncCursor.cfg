SPECIFICATION Spec
CONSTANTS
  b1 = b1
  b2 = b2
  w1 = w1
  w2 = w2
  s1 = s1
  s2 = s2
  Booking = {b1, b2}
  Mailed = {b2}
  Delta = {w1}
  Full = {}
  Slot = {s1, s2}
  UnknownSlot = {s2}
  Appt = {1, 2, 3, 4}
  Policies = {"manual", "internal_wins", "external_wins"}
  MaxSeq = 2
  MaxUpsets = 1
INVARIANT CursorCovers
