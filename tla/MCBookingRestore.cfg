\* No customers: a new booking and one restored to its lane are both written before either is
\* judged, and each waits for the other.
SPECIFICATION Spec
CONSTANTS
  Appt = {a1, a2}
  Client = {c1, c2}
  Staff = {1, 2}
  Unit = {1}
  Customer = {}
  NoUnit = NoUnit
  NoCustomer = NoCustomer
  Tick = {1, 2}
  Slot <- Slots
  occupied <- Buffered
  maxConcurrent <- OneAtATime
  Limits <- Unlimited
  Offers <- SameStaff
  Initial = {"tentative"}
  Targets = {"cancelled", "confirmed"}
CHECK_DEADLOCK FALSE
INVARIANTS
  NoCircle
