\* As MCBooking.cfg, with bookings of one customer: the row of the customer is locked too.
SPECIFICATION Spec
CONSTANTS
  Appt = {a1, a2}
  Client = {c1, c2}
  Staff = {1, 2}
  Unit = {1}
  Customer = {k1}
  NoUnit = NoUnit
  NoCustomer = NoCustomer
  Tick = {1, 2}
  Slot <- Slots
  occupied <- Buffered
  maxConcurrent <- OneAtATime
  Limits <- Unlimited
  Offers <- SameStaff
  Initial = {"tentative"}
  Targets = {"cancelled"}
CHECK_DEADLOCK FALSE
INVARIANTS
  NoCircle
