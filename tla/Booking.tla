------------------------------ MODULE Booking ------------------------------
(***************************************************************************)
(* Bookings of one shop: modules/appointments/service.ts with the checks   *)
(* of availability.ts, booking-rules.ts and seat-limit.ts and the          *)
(* exclusion constraints of migrations 0005 and 0179 (ADR 0003: advisory   *)
(* locks, overlap check, EXCLUDE constraint).                              *)
(*                                                                         *)
(* A client is a connection with one READ COMMITTED transaction at a time. *)
(* One action is one statement of it, or a run of statements nothing can   *)
(* come between: taking a lock, reading the committed rows, writing, and   *)
(* committing.  Locks (row locks and pg_advisory_xact_lock) are held until *)
(* the transaction ends.  Time of day is a set of ticks, so that a half    *)
(* open range [start, end) is the set of the ticks it covers.              *)
(***************************************************************************)
EXTENDS Integers, FiniteSets

CONSTANTS
  Appt,           \* identities of rows of "appointments"
  Client,         \* database connections (API requests, jobs)
  Staff,          \* staff ids; their order is the order of .sort()
  Unit,           \* units of one resource type; their order is sort_order
  Customer,       \* rows of "customers" that a booking can name
  NoUnit, NoCustomer,
  Tick,           \* instants of the day
  Slot,           \* treatment ranges [start_at, end_at): sets of ticks
  occupied,       \* slot -> its range with the buffers of the menus
  maxConcurrent,  \* staff -> bookings taken at the same time
  Limits,         \* bound: the limits the shop may have set
  Offers,         \* bound: what clients ask for
  Initial,        \* bound: the statuses new bookings get
  Targets         \* bound: the statuses that transitions ask for

Channels == {"staff", "online", "import"}

(* What is asked of resolvePlan(): the candidate staff (one when nominated, *)
(* all who can do the menus otherwise), the time, and whether the menus     *)
(* need a unit.                                                             *)
Asks == [channel: Channels, staff: (SUBSET Staff) \ {{}}, slot: Slot, need: BOOLEAN]

Status == {"tentative", "confirmed", "checked_in", "in_service",
           "completed", "cancelled", "no_show"}

ASSUME ConstantsAssumption ==
  /\ Staff \subseteq Nat
  /\ Unit \subseteq Nat
  /\ NoUnit \notin Unit
  /\ NoCustomer \notin Customer
  /\ Slot \subseteq SUBSET Tick
  /\ occupied \in [Slot -> SUBSET Tick]
  /\ \A s \in Slot : s \subseteq occupied[s]
  /\ maxConcurrent \in [Staff -> Nat \ {0}]
  /\ Limits \subseteq [seats: Nat, capacity: Nat]
  /\ Offers \subseteq Asks
  /\ Initial \subseteq {"tentative", "confirmed"}
  /\ Targets \subseteq Status
  /\ IsFiniteSet(Appt)

VARIABLES
  limits, \* the shop's settings: seats.limit (0: no alert) and online capacity
  appt,   \* the committed rows of "appointments" with their resource claims
  pc,     \* how far the transaction of each client has come
  req,    \* what it was asked to do
  draft,  \* the row version it is going to write, or has written
  wants,  \* the locks it takes before its next step
  locks   \* the locks it holds

vars == <<limits, appt, pc, req, draft, wants, locks>>

-----------------------------------------------------------------------------
(* Rows.                                                                    *)

Active == Status \ {"cancelled", "no_show"}
Editable == {"tentative", "confirmed", "checked_in"}

Transitions ==
  [tentative  |-> {"confirmed", "cancelled"},
   confirmed  |-> {"checked_in", "in_service", "completed", "cancelled", "no_show"},
   checked_in |-> {"in_service", "completed", "cancelled", "no_show"},
   in_service |-> {"completed", "checked_in"},
   completed  |-> {"in_service"},
   cancelled  |-> {"confirmed"},
   no_show    |-> {"confirmed"}]

(* A booking with its appointment_resources row, if it needs one.  "passed" *)
(* is history: the checks made under their locks by the write that gave the *)
(* row its staff and time; a restored row has passed none.                  *)
Rows == [status: Status, staff: Staff, lane: Nat, slot: Slot,
         unit: Unit \cup {NoUnit}, claim: BOOLEAN,
         customer: Customer \cup {NoCustomer},
         passed: SUBSET {"lane", "seats", "capacity"}]
NoRow == [status |-> "absent"]

Live(r) == r.status \in Active

(* The two exclusion constraints.                                           *)

(* Mutant: the constraint compares the ranges for equality.                 *)
SameRange(r, q) ==
  /\ Live(r) /\ Live(q)
  /\ r.staff = q.staff /\ r.lane = q.lane
  /\ r.slot = q.slot

LaneClash(r, q) ==
  /\ Live(r) /\ Live(q)
  /\ r.staff = q.staff /\ r.lane = q.lane
  /\ occupied[r.slot] \cap occupied[q.slot] # {}

Claims(r) == r # NoRow /\ r.unit # NoUnit /\ r.claim

UnitClash(r, q) ==
  /\ Claims(r) /\ Claims(q)
  /\ r.unit = q.unit
  /\ r.slot \cap q.slot # {}

-----------------------------------------------------------------------------
(* Locks.                                                                   *)

Lock == ({"row"} \X Appt) \cup ({"customer"} \X Customer) \cup
        ({"staff"} \X Staff) \cup ({"unit"} \X Unit) \cup
        {<<"capacity", 0>>, <<"seats", 0>>}

CapacityLock == <<"capacity", 0>>
SeatsLock == <<"seats", 0>>
StaffLocks(S) == {"staff"} \X S

(* Mutant: the row is read without FOR UPDATE.                              *)
NoRowLock(a) == {}

RowLock(a) == {<<"row", a>>}

(* Mutant: the statistics of a booking without a customer are updated too.  *)
AnyCustomerLock(k) == {"customer"} \X {k}

CustomerLock(k) == {"customer"} \X ({k} \ {NoCustomer})

Rank == [row |-> 0, customer |-> 1, staff |-> 2, capacity |-> 3, unit |-> 4, seats |-> 5]

(* Mutant: the candidate staff are locked in any order.                     *)
BeforeByKind(l, m) == Rank[l[1]] < Rank[m[1]]

(* Lock l is taken before lock m when a step needs both.                    *)
Before(l, m) ==
  \/ Rank[l[1]] < Rank[m[1]]
  \/ l[1] = "staff" /\ m[1] = "staff" /\ l[2] < m[2]

NextLock(c) == {l \in wants[c] : \A m \in wants[c] : ~Before(m, l)}

-----------------------------------------------------------------------------
(* Requests.                                                                *)

Plans == [kind: {"create", "update"}, appt: Appt, ask: Offers]
Moves == [kind: {"move"}, appt: Appt, to: Status]
NoRequest == [kind |-> "none"]

(* "placed": the new version of the booking lies in its table and is judged *)
(* by the lane constraint; "claimed": so does its resource row.             *)
Phases == {"idle", "loading", "planning", "planned", "ready", "placed", "claimed", "written"}
Placed == {"placed", "claimed", "written"}

TypeOK ==
  /\ limits \in [seats: Nat, capacity: Nat]
  /\ appt \in [Appt -> Rows \cup {NoRow}]
  /\ pc \in [Client -> Phases]
  /\ req \in [Client -> Plans \cup Moves \cup {NoRequest}]
  /\ draft \in [Client -> Rows \cup {NoRow}]
  /\ wants \in [Client -> SUBSET Lock]
  /\ locks \in [Client -> SUBSET Lock]

Init ==
  /\ limits \in Limits
  /\ appt = [a \in Appt |-> NoRow]
  /\ pc = [c \in Client |-> "idle"]
  /\ req = [c \in Client |-> NoRequest]
  /\ draft = [c \in Client |-> NoRow]
  /\ wants = [c \in Client |-> {}]
  /\ locks = [c \in Client |-> {}]

-----------------------------------------------------------------------------
(* What a transaction reads: the committed rows, without its own.           *)

Others(c) == {b \in Appt : b # req[c].appt /\ appt[b] # NoRow}

(* Bookings of the shop running at tick t.                                  *)
RunningAt(c, t) == {b \in Others(c) : Live(appt[b]) /\ t \in appt[b].slot}

(* peakOverlap() and peakConcurrency(): with this booking, at most n.       *)
FitsWithin(c, slot, n) == \A t \in slot : Cardinality(RunningAt(c, t)) + 1 <= n

(* freeLane(): lanes of staff s with nothing overlapping the range.         *)
FreeLanes(c, s) ==
  {l \in 0 .. maxConcurrent[s] - 1 :
     ~\E b \in Others(c) : /\ Live(appt[b])
                           /\ appt[b].staff = s /\ appt[b].lane = l
                           /\ occupied[appt[b].slot] \cap occupied[req[c].ask.slot] # {}}

(* pickResources(): units with no active claim overlapping the treatment.   *)
FreeUnits(c) ==
  {u \in Unit : ~\E b \in Others(c) : /\ Claims(appt[b])
                                      /\ appt[b].unit = u
                                      /\ appt[b].slot \cap req[c].ask.slot # {}}

(* The first lane or unit of those: the least, when there is one.           *)
First(S) == {x \in S : \A y \in S : x <= y}

(* The unit the booking takes, if it needs one.                             *)
PickUnit(c) == IF req[c].ask.need THEN First(FreeUnits(c)) ELSE {NoUnit}

(* checkSlot() for each candidate.  Working hours, blocks and the booking   *)
(* window can also refuse the slot: that is Rollback.                       *)
Bookable(c) ==
  {s \in req[c].ask.staff :
     /\ FreeLanes(c, s) # {}
     /\ req[c].ask.channel = "online" => FitsWithin(c, req[c].ask.slot, limits.capacity)
     /\ req[c].ask.need => FreeUnits(c) # {}}

-----------------------------------------------------------------------------
(* A transaction begins.                                                    *)

Start(c, r, phase, first) ==
  /\ pc[c] = "idle"
  /\ pc' = [pc EXCEPT ![c] = phase]
  /\ req' = [req EXCEPT ![c] = r]
  /\ wants' = [wants EXCEPT ![c] = first]
  /\ UNCHANGED <<limits, appt, locks>>

(* Mutant: the staff are not locked.                                        *)
CapacityOnly(ask) == IF ask.channel = "online" THEN {CapacityLock} ELSE {}

(* Mutant: online bookings of different staff are not serialized.           *)
StaffOnly(ask) == StaffLocks(ask.staff)

PlanLocks(ask) ==
  StaffLocks(ask.staff) \cup (IF ask.channel = "online" THEN {CapacityLock} ELSE {})

(* createAppointment().  An online booking may have updated its customer's  *)
(* row first (resolveCustomer(), updateCustomerProfile()).                  *)
Create(c, r, k, profile, status) ==
  /\ r.kind = "create"
  /\ appt[r.appt] = NoRow
  /\ \A d \in Client : req[d] # NoRequest => req[d].appt # r.appt
  /\ profile => r.ask.channel = "online"
  /\ Start(c, r, "planning",
           PlanLocks(r.ask) \cup (IF profile THEN CustomerLock(k) ELSE {}))
  /\ draft' = [draft EXCEPT ![c] =
                 [status |-> status, staff |-> CHOOSE s \in r.ask.staff : TRUE, lane |-> 0,
                  slot |-> r.ask.slot, unit |-> NoUnit, claim |-> TRUE,
                  customer |-> k, passed |-> {}]]

(* updateAppointment() and transitionAppointment(): SELECT ... FOR UPDATE.  *)
Open(c, r) ==
  /\ r.kind \in {"update", "move"}
  /\ appt[r.appt] # NoRow
  /\ r.kind = "move" => r.to \in Targets
  /\ Start(c, r, "loading", RowLock(r.appt))
  /\ UNCHANGED draft

(* The next lock of a step is granted when no other transaction holds it.   *)
Acquire(c, l) ==
  /\ l \in NextLock(c)
  /\ \A d \in Client \ {c} : l \notin locks[d]
  /\ wants' = [wants EXCEPT ![c] = @ \ {l}]
  /\ locks' = [locks EXCEPT ![c] = @ \cup {l}]
  /\ UNCHANGED <<limits, appt, pc, req, draft>>

At(c, phase) == pc[c] = phase /\ wants[c] = {}

(* lockAppointment() returned the row: may it be edited or moved?           *)
Allowed(r, row) ==
  \/ r.kind = "update" /\ row.status \in Editable
  \/ r.kind = "move" /\ r.to \in Transitions[row.status]

(* An edit goes on to resolvePlan().                                        *)
LoadForUpdate(c) ==
  LET r == req[c]
      row == appt[r.appt]
  IN /\ At(c, "loading") /\ r.kind = "update" /\ Allowed(r, row)
     /\ draft' = [draft EXCEPT ![c] = row]
     /\ pc' = [pc EXCEPT ![c] = "planning"]
     /\ wants' = [wants EXCEPT ![c] = PlanLocks(r.ask)]
     /\ UNCHANGED <<limits, appt, req, locks>>

(* Mutant: a restored booking does not take its unit again.                 *)
MovedWithoutUnit(row, to) ==
  [row EXCEPT !.status = to,
              !.claim = @ /\ to \in Active,
              !.passed = IF Live(row) THEN @ ELSE {}]

(* A transition: cancelling or no-show releases the unit, restoring takes   *)
(* lane and unit again without any of the checks of a new booking.          *)
Moved(row, to) ==
  LET restoring == ~Live(row)
  IN [row EXCEPT !.status = to,
                 !.claim = IF to \notin Active THEN FALSE ELSE @ \/ restoring,
                 !.passed = IF restoring THEN {} ELSE @]

LoadForMove(c) ==
  LET r == req[c]
      row == appt[r.appt]
  IN /\ At(c, "loading") /\ r.kind = "move" /\ Allowed(r, row)
     /\ draft' = [draft EXCEPT ![c] = Moved(row, r.to)]
     /\ pc' = [pc EXCEPT ![c] = "ready"]
     /\ UNCHANGED <<limits, appt, req, wants, locks>>

(* Is the seat limit checked for this booking, and under which locks is the *)
(* plan written?                                                            *)
Seated(ask) == ask.channel # "import" /\ limits.seats > 0

(* Mutant: assertSeatLimit() counts without its lock.                       *)
UnitOnly(ask, u) == {"unit"} \X ({u} \ {NoUnit})

WriteLocks(ask, u) ==
  ({"unit"} \X ({u} \ {NoUnit})) \cup (IF Seated(ask) THEN {SeatsLock} ELSE {})

(* resolvePlan() after its staff and capacity locks: the overlap check, the *)
(* choice of staff, unit and lane, and only then the lock of the unit; then *)
(* assertSeatLimit() locks the seats unless the booking is an import.       *)
Plan(c, s) ==
  LET ask == req[c].ask
  IN /\ At(c, "planning")
     /\ s \in Bookable(c)
     /\ \E l \in First(FreeLanes(c, s)), u \in PickUnit(c) :
          /\ draft' = [draft EXCEPT ![c] =
                         [@ EXCEPT !.staff = s, !.lane = l,
                                   !.slot = ask.slot, !.unit = u, !.claim = TRUE,
                                   !.passed = {"lane"} \cup
                                     (IF ask.channel = "online" THEN {"capacity"} ELSE {})]]
          /\ wants' = [wants EXCEPT ![c] = WriteLocks(ask, u)]
     /\ pc' = [pc EXCEPT ![c] = "planned"]
     /\ UNCHANGED <<limits, appt, req, locks>>

(* assertSeatLimit() counts under its lock; without a limit nothing to do.  *)
CheckSeats(c) ==
  LET ask == req[c].ask
  IN /\ At(c, "planned")
     /\ Seated(ask) => FitsWithin(c, ask.slot, limits.seats)
     /\ draft' = [draft EXCEPT ![c].passed =
                    @ \cup (IF Seated(ask) THEN {"seats"} ELSE {})]
     /\ pc' = [pc EXCEPT ![c] = "ready"]
     /\ UNCHANGED <<limits, appt, req, wants, locks>>

(* Which resource rows does a transaction replace?  A plan deletes those of *)
(* the booking and inserts its own, a transition updates them when it       *)
(* releases or restores the booking.                                        *)
Reclaims(c) ==
  req[c].kind # "move" \/ draft[c].claim # appt[req[c].appt].claim

(* The old resource row is gone for others once it is deleted, before the   *)
(* UPDATE of an edit, or updated, after that of a transition.               *)
Unclaims(c) ==
  /\ pc[c] \in Placed /\ Reclaims(c)
  /\ req[c].kind = "move" => pc[c] # "placed"

(* A version that clashes with one another open transaction has written, or *)
(* with a committed one such a transaction has replaced, waits for its end, *)
(* and lies in the index meanwhile: others wait for it as well.             *)
LaneWait(c, d) ==
  /\ d # c
  /\ pc[c] = "placed" /\ pc[d] \in Placed
  /\ LaneClash(draft[c], draft[d]) \/ LaneClash(draft[c], appt[req[d].appt])

UnitWait(c, d) ==
  /\ d # c
  /\ pc[c] = "claimed" /\ Reclaims(c)
  /\ \/ /\ pc[d] \in {"claimed", "written"} /\ Reclaims(d)
        /\ UnitClash(draft[c], draft[d])
     \/ Unclaims(d) /\ UnitClash(draft[c], appt[req[d].appt])

Blocked(c, d) == LaneWait(c, d) \/ UnitWait(c, d)

(* The committed rows that the constraint judging the version clashes with. *)
Overlapping(c) ==
  {b \in Others(c) : \/ pc[c] = "placed" /\ LaneClash(draft[c], appt[b])
                     \/ pc[c] = "claimed" /\ UnitClash(draft[c], appt[b])}

(* The constraint accepts the version.                                      *)
Accepted(c) == (\A d \in Client : ~Blocked(c, d)) /\ Overlapping(c) = {}

(* INSERT of the booking, or UPDATE of it; an edit has deleted its resource *)
(* row before.                                                              *)
WriteRow(c) ==
  /\ At(c, "ready")
  /\ pc' = [pc EXCEPT ![c] = "placed"]
  /\ UNCHANGED <<limits, appt, req, draft, wants, locks>>

(* The lane is free: INSERT or UPDATE of the resource row, if there is one. *)
WriteClaim(c) ==
  /\ At(c, "placed") /\ Accepted(c)
  /\ pc' = [pc EXCEPT ![c] = "claimed"]
  /\ UNCHANGED <<limits, appt, req, draft, wants, locks>>

(* The unit is free as well: recomputeCustomerStats() updates the customer. *)
WriteStats(c) ==
  /\ At(c, "claimed") /\ Accepted(c)
  /\ pc' = [pc EXCEPT ![c] = "written"]
  /\ wants' = [wants EXCEPT ![c] = CustomerLock(draft[c].customer) \ locks[c]]
  /\ UNCHANGED <<limits, appt, req, draft, locks>>

End(c) ==
  /\ UNCHANGED limits
  /\ pc' = [pc EXCEPT ![c] = "idle"]
  /\ req' = [req EXCEPT ![c] = NoRequest]
  /\ draft' = [draft EXCEPT ![c] = NoRow]
  /\ wants' = [wants EXCEPT ![c] = {}]
  /\ locks' = [locks EXCEPT ![c] = {}]

Commit(c) ==
  /\ At(c, "written")
  /\ appt' = [appt EXCEPT ![req[c].appt] = draft[c]]
  /\ End(c)

(* The request is refused: APPOINTMENT_NOT_EDITABLE or INVALID_TRANSITION   *)
(* (or the row has the status already), SLOT_UNAVAILABLE,                   *)
(* SEAT_LIMIT_EXCEEDED, or a constraint is violated (APPOINTMENT_OVERLAP,   *)
(* RESOURCE_OVERLAP).                                                       *)
Refused(c) ==
  \/ At(c, "loading") /\ ~Allowed(req[c], appt[req[c].appt])
  \/ At(c, "planning") /\ Bookable(c) = {}
  \/ /\ At(c, "planned")
     /\ Seated(req[c].ask) /\ ~FitsWithin(c, req[c].ask.slot, limits.seats)
  \/ /\ pc[c] \in {"placed", "claimed"}
     /\ \A d \in Client : ~Blocked(c, d)
     /\ Overlapping(c) # {}

Refuse(c) == Refused(c) /\ End(c) /\ UNCHANGED appt

(* Any other error (not modelled checks, a lost connection, a crash).       *)
Rollback(c) == pc[c] # "idle" /\ End(c) /\ UNCHANGED appt

-----------------------------------------------------------------------------
Begin(c) ==
  \/ \E r \in Plans, k \in Customer \cup {NoCustomer},
        profile \in BOOLEAN, status \in Initial :
       Create(c, r, k, profile, status)
  \/ \E r \in Plans \cup Moves : Open(c, r)

Step(c) ==
  \/ \E l \in wants[c] : Acquire(c, l)
  \/ LoadForUpdate(c)
  \/ LoadForMove(c)
  \/ \E s \in Staff : Plan(c, s)
  \/ CheckSeats(c)
  \/ WriteRow(c)
  \/ WriteClaim(c)
  \/ WriteStats(c)
  \/ Commit(c)
  \/ Refuse(c)

Next == \E c \in Client : Begin(c) \/ Step(c) \/ Rollback(c)

Spec == Init /\ [][Next]_vars

-----------------------------------------------------------------------------
(* Properties.                                                              *)

(* A staff member never has more bookings at one instant, buffers included, *)
(* than the setting allows (FR-02, ADR 0003; lanes of migration 0179).      *)
NoDoubleBooking ==
  \A s \in Staff, t \in Tick :
    Cardinality({a \in Appt : /\ Live(appt[a])
                              /\ appt[a].staff = s
                              /\ t \in occupied[appt[a].slot]}) <= maxConcurrent[s]

(* Every live booking that needs a unit holds it, and no two live bookings  *)
(* hold one unit at one instant, through cancelling, restoring and editing  *)
(* (appointment_resources and its exclusion constraint).                    *)
UnitsHeld ==
  /\ \A a \in Appt : Live(appt[a]) => appt[a].claim
  /\ \A a, b \in Appt : /\ a # b
                        /\ Live(appt[a]) /\ Live(appt[b])
                        /\ appt[a].unit = appt[b].unit /\ appt[a].unit # NoUnit
                        => appt[a].slot \cap appt[b].slot = {}

(* Live bookings that passed a check at tick t.                             *)
Passed(check, t) ==
  {a \in Appt : Live(appt[a]) /\ check \in appt[a].passed /\ t \in appt[a].slot}

(* Seat limit: bookings made or moved by staff or online never exceed it,   *)
(* however they interleave ("two staff booking the last seat at once cannot *)
(* both pass", seat-limit.ts); imports and restored bookings may.           *)
SeatLimitHolds ==
  limits.seats > 0 => \A t \in Tick : Cardinality(Passed("seats", t)) <= limits.seats

(* Online bookings never exceed the capacity set for them (service.ts 107). *)
OnlineCapacityHolds ==
  \A t \in Tick : Cardinality(Passed("capacity", t)) <= limits.capacity

(* What the overlap check found free stays free until the booking is        *)
(* written: under the staff lock no other planned booking takes the lane,   *)
(* so only a booking restored meanwhile can make the constraint refuse it.  *)
PlanStaysFree ==
  \A c \in Client : /\ pc[c] \in {"planned", "ready"} \cup Placed
                    /\ "lane" \in draft[c].passed
                    /\ req[c].kind # "move"
    => \A b \in Others(c) : LaneClash(draft[c], appt[b]) => "lane" \notin appt[b].passed

(* The same for the unit: "waits and is judged again before an exclusion    *)
(* constraint makes it fail" (ADR 0003, line 40).                           *)
PlannedUnitStaysFree ==
  \A c \in Client : /\ pc[c] \in {"ready"} \cup Placed
                    /\ req[c].kind # "move"
    => \A b \in Others(c) : UnitClash(draft[c], appt[b]) => "lane" \notin appt[b].passed

(* Transactions that wait for each other in a circle.                       *)
WaitsFor(c, d) ==
  \/ \E l \in NextLock(c) : l \in locks[d]
  \/ Blocked(c, d)

Circle(C) == \A c \in C : \E d \in C : WaitsFor(c, d)

(* It waits for the row of a customer.                                      *)
AwaitsCustomer(c) == \E l \in NextLock(c) : l[1] = "customer"

(* It writes a booking that no overlap check has allowed: one that it       *)
(* restores, or moves on after it was restored.                             *)
Unchecked(c) == pc[c] \in Placed /\ "lane" \notin draft[c].passed

(* "In a stable order to avoid deadlocks" (service.ts 102): transactions    *)
(* that checked what they write never wait for each other in a circle, over *)
(* locks, lanes and units together, but for the rows of customers.  (Two    *)
(* restored bookings do, and the database ends one of them.)                *)
NoCheckedCircle ==
  \A C \in (SUBSET Client) \ {{}} :
    Circle(C) => \E c \in C : AwaitsCustomer(c) \/ Unchecked(c)

NoCircle == ~\E C \in (SUBSET Client) \ {{}} : Circle(C)

SamePlan(r, q) ==
  r.slot = q.slot /\ r.staff = q.staff /\ r.lane = q.lane /\ r.unit = q.unit

(* A booking's status moves along TRANSITIONS and its staff, time and unit  *)
(* change only while it may be edited, whatever was decided on an earlier   *)
(* version of the row.                                                      *)
LegalChanges ==
  [][\A a \in Appt : appt[a] # NoRow =>
       \/ appt'[a].status = appt[a].status /\ appt[a].status \in Editable
       \/ /\ appt'[a].status \in Transitions[appt[a].status] \cup {appt[a].status}
          /\ SamePlan(appt'[a], appt[a])]_vars
=============================================================================
