\* Two transactions on two bookings: every interleaving of planning, checking, writing,
\* editing, cancelling and restoring, with a seat limit or an online capacity of one.
SPECIFICATION Spec
CONSTANTS
  Appt = {a1, a2}
  Client = {c1, c2}
  Staff = {1, 2}
  Unit = {1}
  Customer = {}
  NoUnit = NoUnit
  NoCustomer = NoCustomer
  Tick = {1, 2}
  Slot <- Slots
  occupied <- Buffered
  maxConcurrent <- TwoForTheFirst
  Limits <- OneSeatOrOneOnline
  Offers <- Mixed
  Initial = {"tentative"}
  Targets = {"cancelled", "confirmed"}
SYMMETRY Symmetry
CHECK_DEADLOCK FALSE
INVARIANTS
  TypeOK
  NoDoubleBooking
  UnitsHeld
  SeatLimitHolds
  OnlineCapacityHolds
  PlanStaysFree
  NoCheckedCircle
