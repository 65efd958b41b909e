\* Two staff, two units: both plans take the first free unit before either locks it.
SPECIFICATION Spec
CONSTANTS
  Appt = {a1, a2}
  Client = {c1, c2}
  Staff = {1, 2}
  Unit = {1, 2}
  Customer = {}
  NoUnit = NoUnit
  NoCustomer = NoCustomer
  Tick = {1, 2}
  Slot <- Slots
  occupied <- Buffered
  maxConcurrent <- OneAtATime
  Limits <- Unlimited
  Offers <- WithUnits
  Initial = {"tentative"}
  Targets = {"cancelled", "confirmed"}
CHECK_DEADLOCK FALSE
INVARIANTS
  PlannedUnitStaysFree
