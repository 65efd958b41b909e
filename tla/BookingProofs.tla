--------------------------- MODULE BookingProofs ---------------------------
(***************************************************************************)
(* Theorems about Booking for every set of rows, connections, staff,       *)
(* units, customers and slots, every limit and every setting.              *)
(***************************************************************************)
EXTENDS Booking, FiniteSetTheorems, FiniteSums, TLAPS

Planned == {"planned", "ready", "placed", "claimed", "written"}
Loaded == {"planning"} \cup Planned

(* A transaction knows its row, and has read or planned a version of it.    *)
RequestsOK ==
  \A c \in Client :
    /\ pc[c] # "idle" => req[c] \in Plans \cup Moves
    /\ pc[c] = "loading" => req[c].kind # "create"
    /\ pc[c] \in {"planning", "planned"} => req[c].kind # "move"
    /\ pc[c] \in Loaded => draft[c] \in Rows
    /\ pc[c] # "idle" /\ req[c].kind # "create" => appt[req[c].appt] # NoRow

TypeInv == TypeOK /\ RequestsOK

(* The three statements that write.                                         *)
Writes(c) == WriteRow(c) \/ WriteClaim(c) \/ WriteStats(c)

LEMMA NoRowFacts == ~Live(NoRow) /\ ~Claims(NoRow) /\ NoRow \notin Rows
BY DEF NoRow, Live, Claims, Active, Status, Rows

LEMMA AskFacts ==
  ASSUME NEW r \in Plans
  PROVE  /\ r.appt \in Appt /\ r.kind \in {"create", "update"}
         /\ r.ask.channel \in Channels /\ r.ask.staff \in SUBSET Staff
         /\ r.ask.staff # {} /\ r.ask.slot \in Slot /\ r.ask.need \in BOOLEAN
<1>1. r.ask \in Asks /\ r.appt \in Appt /\ r.kind \in {"create", "update"}
  BY ConstantsAssumption DEF Plans
<1> QED
  BY <1>1 DEF Asks

LEMMA MovedType ==
  ASSUME NEW row \in Rows, NEW to \in Status
  PROVE  /\ Moved(row, to) \in Rows
         /\ Moved(row, to).status = to
         /\ Moved(row, to).staff = row.staff /\ Moved(row, to).lane = row.lane
         /\ Moved(row, to).slot = row.slot /\ Moved(row, to).unit = row.unit
         /\ Moved(row, to).claim = (to \in Active /\ (row.claim \/ ~Live(row)))
         /\ Moved(row, to).passed = (IF Live(row) THEN row.passed ELSE {})
BY DEF Moved, Rows, Active

(* What an action of one client leaves alone.                               *)
LEMMA OthersStay ==
  ASSUME TypeInv, NEW c \in Client, Begin(c) \/ Step(c) \/ Rollback(c)
  PROVE  /\ limits' = limits
         /\ \A d \in Client \ {c} :
              /\ pc'[d] = pc[d] /\ req'[d] = req[d] /\ draft'[d] = draft[d]
              /\ wants'[d] = wants[d] /\ locks'[d] = locks[d]
<1> USE DEF TypeInv, TypeOK
<1>1. CASE Begin(c)
  BY <1>1 DEF Begin, Create, Open, Start
<1>2. CASE \E l \in wants[c] : Acquire(c, l)
  BY <1>2 DEF Acquire
<1>3. CASE LoadForUpdate(c) \/ LoadForMove(c)
  BY <1>3 DEF LoadForUpdate, LoadForMove
<1>4. CASE \E s \in Staff : Plan(c, s)
  BY <1>4 DEF Plan
<1>5. CASE CheckSeats(c) \/ Writes(c)
  BY <1>5 DEF CheckSeats, Writes, WriteRow, WriteClaim, WriteStats
<1>6. CASE Commit(c) \/ Refuse(c) \/ Rollback(c)
  BY <1>6 DEF Commit, Refuse, Rollback, End
<1> QED
  BY <1>1, <1>2, <1>3, <1>4, <1>5, <1>6 DEF Step, Writes

(* The committed rows change only when a transaction commits.               *)
LEMMA OnlyCommitWrites ==
  ASSUME NEW c \in Client, Begin(c) \/ Step(c) \/ Rollback(c), ~Commit(c)
  PROVE  appt' = appt
BY DEF Begin, Create, Open, Start, Step, Acquire, LoadForUpdate, LoadForMove, Plan,
       CheckSeats, Writes, WriteRow, WriteClaim, WriteStats, Refuse, Rollback, End

-----------------------------------------------------------------------------
(* Type correctness.                                                        *)

LEMMA TypeInit == Init => TypeInv
BY ConstantsAssumption DEF Init, TypeInv, TypeOK, RequestsOK, Phases, Loaded, Planned

LEMMA TypeStep == TypeInv /\ [Next]_vars => TypeInv'
<1> SUFFICES ASSUME TypeInv, [Next]_vars PROVE TypeInv'
  OBVIOUS
<1>0. CASE UNCHANGED vars
  BY <1>0 DEF vars, TypeInv, TypeOK, RequestsOK
<1> SUFFICES ASSUME NEW c \in Client, Begin(c) \/ Step(c) \/ Rollback(c) PROVE TypeInv'
  BY <1>0 DEF Next
<1>1. ASSUME NEW r \in Plans, NEW k \in Customer \cup {NoCustomer},
             NEW profile \in BOOLEAN, NEW status \in Initial,
             Create(c, r, k, profile, status)
      PROVE  TypeInv'
  <2>1. (CHOOSE s \in r.ask.staff : TRUE) \in Staff
    BY AskFacts
  <2>2. status \in Status
    BY ConstantsAssumption DEF Status
  <2> DEFINE row == [status |-> status, staff |-> CHOOSE s \in r.ask.staff : TRUE, lane |-> 0,
                     slot |-> r.ask.slot, unit |-> NoUnit, claim |-> TRUE,
                     customer |-> k, passed |-> {}]
  <2>3. row \in Rows
    BY <2>1, <2>2, AskFacts DEF Rows
  <2>4. draft' = [draft EXCEPT ![c] = row]
    BY <1>1 DEF Create
  <2> HIDE DEF row
  <2>5. wants'[c] \in SUBSET Lock
    <3>1. r.ask.staff \in SUBSET Staff
      BY AskFacts
    <3>2. CustomerLock(k) \subseteq Lock /\ PlanLocks(r.ask) \subseteq Lock
      BY <3>1 DEF CustomerLock, PlanLocks, StaffLocks, CapacityLock, Lock
    <3> QED
      BY <1>1, <3>2 DEF Create, Start, TypeInv, TypeOK
  <2>6. draft' \in [Client -> Rows \cup {NoRow}] /\ draft'[c] = row
    BY <2>3, <2>4 DEF TypeInv, TypeOK
  <2>7. /\ pc' = [pc EXCEPT ![c] = "planning"] /\ req' = [req EXCEPT ![c] = r]
        /\ UNCHANGED <<limits, appt, locks>> /\ r.kind = "create"
    BY <1>1 DEF Create, Start
  <2>8. wants' \in [Client -> SUBSET Lock]
    BY <1>1, <2>5 DEF Create, Start, TypeInv, TypeOK
  <2>9. TypeOK'
    BY <2>6, <2>7, <2>8 DEF TypeInv, TypeOK, Phases
  <2>10. RequestsOK'
    BY <2>3, <2>4, <2>6, <2>7 DEF TypeInv, TypeOK, RequestsOK, Phases, Loaded, Planned
  <2> QED
    BY <2>9, <2>10 DEF TypeInv
<1>2. ASSUME NEW r \in Plans \cup Moves, Open(c, r) PROVE TypeInv'
  <2>1. r.appt \in Appt
    BY DEF Plans, Moves
  <2>2. RowLock(r.appt) \subseteq Lock
    BY <2>1 DEF RowLock, Lock
  <2> QED
    BY <1>2, <2>1, <2>2
    DEF Open, Start, TypeInv, TypeOK, RequestsOK, Phases, Loaded, Planned
<1>3. ASSUME NEW l \in wants[c], Acquire(c, l) PROVE TypeInv'
  BY <1>3 DEF Acquire, TypeInv, TypeOK, RequestsOK
<1>4. CASE LoadForUpdate(c)
  <2>1. req[c] \in Plans /\ appt[req[c].appt] \in Rows
    BY <1>4 DEF LoadForUpdate, At, TypeInv, TypeOK, RequestsOK, Plans, Moves
  <2>2. PlanLocks(req[c].ask) \subseteq Lock
    <3>1. req[c].ask.staff \in SUBSET Staff
      BY <2>1, AskFacts
    <3> QED
      BY <3>1 DEF PlanLocks, StaffLocks, CapacityLock, Lock
  <2> QED
    BY <1>4, <2>1, <2>2
    DEF LoadForUpdate, At, TypeInv, TypeOK, RequestsOK, Phases, Loaded, Planned
<1>5. CASE LoadForMove(c)
  <2>1. req[c] \in Moves /\ appt[req[c].appt] \in Rows
    BY <1>5 DEF LoadForMove, At, TypeInv, TypeOK, RequestsOK, Plans, Moves
  <2>2. Moved(appt[req[c].appt], req[c].to) \in Rows
    BY <2>1, MovedType DEF Moves
  <2> QED
    BY <1>5, <2>1, <2>2
    DEF LoadForMove, At, TypeInv, TypeOK, RequestsOK, Phases, Loaded, Planned
<1>6. ASSUME NEW s \in Staff, Plan(c, s) PROVE TypeInv'
  <2>1. draft[c] \in Rows /\ req[c] \in Plans
    BY <1>6 DEF Plan, At, TypeInv, TypeOK, RequestsOK, Loaded, Moves
  <2>2. req[c].ask.slot \in Slot /\ req[c].ask.need \in BOOLEAN
    BY <2>1, AskFacts
  <2>3. PICK l \in First(FreeLanes(c, s)), u \in PickUnit(c) :
          /\ draft' = [draft EXCEPT ![c] =
                         [@ EXCEPT !.staff = s, !.lane = l,
                                   !.slot = req[c].ask.slot, !.unit = u, !.claim = TRUE,
                                   !.passed = {"lane"} \cup
                                     (IF req[c].ask.channel = "online" THEN {"capacity"}
                                      ELSE {})]]
          /\ wants' = [wants EXCEPT ![c] = WriteLocks(req[c].ask, u)]
    BY <1>6, Zenon DEF Plan
  <2>4. l \in Nat /\ u \in Unit \cup {NoUnit}
    <3>1. l \in 0 .. maxConcurrent[s] - 1
      BY DEF First, FreeLanes
    <3>2. l \in Nat
      BY <3>1
    <3> QED
      BY <3>2 DEF PickUnit, First, FreeUnits
  <2>5. WriteLocks(req[c].ask, u) \subseteq Lock
    BY <2>4 DEF WriteLocks, SeatsLock, Lock
  <2>6. draft'[c] \in Rows
    BY <2>1, <2>2, <2>3, <2>4 DEF Rows, TypeInv, TypeOK
  <2>7. draft' \in [Client -> Rows \cup {NoRow}]
    BY <2>3, <2>6 DEF TypeInv, TypeOK
  <2>8. wants' \in [Client -> SUBSET Lock]
    BY <2>3, <2>5 DEF TypeInv, TypeOK
  <2> QED
    BY <1>6, <2>1, <2>3, <2>6, <2>7, <2>8
    DEF Plan, At, TypeInv, TypeOK, RequestsOK, Phases, Loaded, Planned, Plans
<1>7. CASE CheckSeats(c)
  <2>1. draft[c] \in Rows
    BY <1>7 DEF CheckSeats, At, TypeInv, RequestsOK, Loaded, Planned
  <2>2. draft' = [draft EXCEPT ![c].passed =
                    draft[c].passed \cup (IF Seated(req[c].ask) THEN {"seats"} ELSE {})]
    BY <1>7 DEF CheckSeats
  <2>3. draft'[c] \in Rows
    BY <2>1, <2>2 DEF Rows, TypeInv, TypeOK
  <2>4. draft' \in [Client -> Rows \cup {NoRow}]
    BY <2>2, <2>3 DEF TypeInv, TypeOK
  <2> QED
    BY <1>7, <2>3, <2>4
    DEF CheckSeats, At, TypeInv, TypeOK, RequestsOK, Phases, Loaded, Planned
<1>8. CASE Writes(c)
  <2>1. draft[c].customer \in Customer \cup {NoCustomer}
    BY <1>8 DEF Writes, WriteRow, WriteClaim, WriteStats, At, TypeInv, RequestsOK, Loaded,
                Planned, Rows
  <2>2. CustomerLock(draft[c].customer) \subseteq Lock
    BY <2>1 DEF CustomerLock, Lock
  <2> QED
    BY <1>8, <2>2 DEF Writes, WriteRow, WriteClaim, WriteStats, At, TypeInv, TypeOK,
                      RequestsOK, Phases, Loaded, Planned
<1>9. CASE Commit(c)
  <2>1. draft[c] \in Rows /\ req[c].appt \in Appt
    BY <1>9 DEF Commit, At, TypeInv, TypeOK, RequestsOK, Plans, Moves, Loaded, Planned
  <2> QED
    BY <1>9, <2>1, NoRowFacts
    DEF Commit, End, TypeInv, TypeOK, RequestsOK, Phases, Loaded, Planned
<1>10. CASE Refuse(c) \/ Rollback(c)
  BY <1>10 DEF Refuse, Rollback, End, TypeInv, TypeOK, RequestsOK, Phases, Loaded, Planned
<1> QED
  BY <1>1, <1>2, <1>3, <1>4, <1>5, <1>6, <1>7, <1>8, <1>9, <1>10 DEF Begin, Step, Writes

(* Every reachable state has the declared types: no transaction writes or   *)
(* commits a row it has not planned, whatever the requests.                 *)
THEOREM TypeCorrect == Spec => []TypeOK
<1>1. TypeInv => TypeOK
  BY DEF TypeInv
<1> QED
  BY TypeInit, TypeStep, <1>1, PTL DEF Spec

-----------------------------------------------------------------------------
(* Locks: each has one holder, and a transaction has, or still waits for,   *)
(* those of what it has read.                                               *)

Exclusive == \A c, d \in Client : c # d => locks[c] \cap locks[d] = {}

(* The row lock of an edit or transition; the row of a new booking is the   *)
(* business of its transaction alone.                                       *)
RowHeld(c) ==
  \/ req[c].kind = "create"
  \/ <<"row", req[c].appt>> \in locks[c]
  \/ pc[c] = "loading" /\ <<"row", req[c].appt>> \in wants[c]

RowNew(c) ==
  req[c].kind = "create" =>
    /\ appt[req[c].appt] = NoRow
    /\ \A d \in Client \ {c} : pc[d] # "idle" => req[d].appt # req[c].appt

(* The locks of a plan: staff and capacity first, the seats at last.        *)
PlanHeld(c) ==
  /\ pc[c] = "planning" => PlanLocks(req[c].ask) \subseteq wants[c] \cup locks[c]
  /\ pc[c] \in Planned /\ req[c].kind # "move" => PlanLocks(req[c].ask) \subseteq locks[c]

SeatsHeld(c) ==
  /\ pc[c] = "planned" /\ Seated(req[c].ask) => SeatsLock \in wants[c] \cup locks[c]
  /\ pc[c] \in {"ready", "placed", "claimed", "written"} /\ req[c].kind # "move" /\ Seated(req[c].ask) =>
       SeatsLock \in locks[c]

Held(c) == RowHeld(c) /\ RowNew(c) /\ PlanHeld(c) /\ SeatsHeld(c)

Clear(c) == locks[c] = {} /\ wants[c] = {}

LockInv ==
  /\ Exclusive
  /\ \A c \in Client : IF pc[c] = "idle" THEN Clear(c) ELSE Held(c)

(* Two transactions that have read their rows work on different ones.       *)
LEMMA DistinctRows ==
  ASSUME TypeInv, LockInv, NEW c \in Client, NEW d \in Client, c # d,
         pc[c] \in Loaded, pc[d] \in Loaded
  PROVE  req[c].appt # req[d].appt
<1>1. Held(c) /\ Held(d) /\ locks[c] \cap locks[d] = {}
  BY DEF LockInv, Exclusive, Loaded, Planned
<1>2. CASE req[c].kind = "create" \/ req[d].kind = "create"
  BY <1>1, <1>2 DEF Held, RowNew, Loaded, Planned
<1>3. CASE req[c].kind # "create" /\ req[d].kind # "create"
  BY <1>1, <1>3 DEF Held, RowHeld, Loaded, Planned
<1> QED
  BY <1>2, <1>3

LEMMA LockInit == Init => LockInv
BY DEF Init, LockInv, Exclusive, Clear

(* Locks of one client grow only by an Acquire, which nobody else holds.    *)
LEMMA ExclusiveStep ==
  ASSUME TypeInv, LockInv, NEW c \in Client, Begin(c) \/ Step(c) \/ Rollback(c)
  PROVE  Exclusive'
<1>1. \A d \in Client \ {c} : locks'[d] = locks[d]
  BY OthersStay
<1>2. CASE \E l \in wants[c] : Acquire(c, l)
  <2>1. PICK l \in wants[c] : Acquire(c, l)
    BY <1>2
  <2>2. locks'[c] = locks[c] \cup {l} /\ \A d \in Client \ {c} : l \notin locks[d]
    BY <2>1 DEF Acquire, TypeInv, TypeOK
  <2> QED
    BY <1>1, <2>2 DEF LockInv, Exclusive
<1>3. CASE ~\E l \in wants[c] : Acquire(c, l)
  <2>1. locks'[c] \subseteq locks[c]
    BY <1>3 DEF Begin, Create, Open, Start, Step, LoadForUpdate, LoadForMove, Plan,
                CheckSeats, Writes, WriteRow, WriteClaim, WriteStats, Commit, Refuse,
                Rollback, End, TypeInv, TypeOK
  <2> QED
    BY <1>1, <2>1 DEF LockInv, Exclusive
<1> QED
  BY <1>2, <1>3

LEMMA LockStep == TypeInv /\ LockInv /\ [Next]_vars => LockInv'
<1> SUFFICES ASSUME TypeInv, LockInv, [Next]_vars PROVE LockInv'
  OBVIOUS
<1>0. CASE UNCHANGED vars
  BY <1>0 DEF vars, LockInv, Exclusive, Clear, Held, RowHeld, RowNew, PlanHeld, SeatsHeld,
              Seated
<1> SUFFICES ASSUME NEW c \in Client, Begin(c) \/ Step(c) \/ Rollback(c) PROVE LockInv'
  BY <1>0 DEF Next
<1>1. Exclusive'
  BY ExclusiveStep
<1>2. limits' = limits
  BY OthersStay
(* The clients that do not take the step.                                   *)
<1>3. ASSUME NEW d \in Client, d # c
      PROVE  IF pc'[d] = "idle" THEN Clear(d)' ELSE Held(d)'
  <2>1. /\ pc'[d] = pc[d] /\ req'[d] = req[d]
        /\ wants'[d] = wants[d] /\ locks'[d] = locks[d]
    BY <1>3, OthersStay
  <2>2. CASE pc[d] = "idle"
    BY <2>1, <2>2 DEF LockInv, Clear
  <2>3. CASE pc[d] # "idle"
    <3>1. Held(d)
      BY <2>3 DEF LockInv
    <3>2. RowHeld(d)' /\ PlanHeld(d)' /\ SeatsHeld(d)'
      BY <1>2, <2>1, <3>1 DEF Held, RowHeld, PlanHeld, SeatsHeld, Seated
    <3>3. RowNew(d)'
      <4> SUFFICES ASSUME req[d].kind = "create" PROVE RowNew(d)'
        BY <2>1 DEF RowNew
      <4>1. /\ appt[req[d].appt] = NoRow
            /\ \A e \in Client \ {d} : pc[e] # "idle" => req[e].appt # req[d].appt
        BY <3>1 DEF Held, RowNew
      <4>2. appt'[req[d].appt] = NoRow
        <5>1. CASE Commit(c)
          BY <1>3, <4>1, <5>1 DEF Commit, At, TypeInv, TypeOK
        <5>2. CASE ~Commit(c)
          BY <4>1, <5>2, OnlyCommitWrites
        <5> QED
          BY <5>1, <5>2
      <4>3. pc'[c] # "idle" => req'[c].appt # req[d].appt
        <5>1. CASE pc[c] # "idle"
          BY <1>3, <4>1, <5>1
             DEF Begin, Create, Open, Start, Step, Acquire, LoadForUpdate, LoadForMove,
                 Plan, CheckSeats, Writes, WriteRow, WriteClaim, WriteStats, Commit,
                 Refuse, Rollback, End, TypeInv, TypeOK
        <5>2. CASE pc[c] = "idle" /\ Begin(c)
          <6>1. req[d] # NoRequest
            BY <2>3 DEF TypeInv, RequestsOK, Plans, Moves, NoRequest
          <6>2. ASSUME NEW r \in Plans, NEW k \in Customer \cup {NoCustomer},
                       NEW profile \in BOOLEAN, NEW status \in Initial,
                       Create(c, r, k, profile, status)
                PROVE  req'[c].appt # req[d].appt
            BY <6>1, <6>2 DEF Create, Start, TypeInv, TypeOK
          <6>3. ASSUME NEW r \in Plans \cup Moves, Open(c, r)
                PROVE  req'[c].appt # req[d].appt
            BY <4>1, <6>3 DEF Open, Start, TypeInv, TypeOK
          <6> QED
            BY <5>2, <6>2, <6>3 DEF Begin
        <5>3. CASE pc[c] = "idle" /\ ~Begin(c)
          BY <5>3 DEF Step, Acquire, LoadForUpdate, LoadForMove, Plan, CheckSeats, Writes,
                      WriteRow, WriteClaim, WriteStats,
                      Commit, Refuse, Refused, Rollback, At, LockInv, Clear, TypeInv,
                      RequestsOK
        <5> QED
          BY <5>1, <5>2, <5>3
      <4>4. \A e \in Client \ {c} : pc'[e] = pc[e] /\ req'[e] = req[e]
        BY OthersStay
      <4> QED
        BY <2>1, <4>1, <4>2, <4>3, <4>4 DEF RowNew
    <3> QED
      BY <2>1, <2>3, <3>2, <3>3 DEF Held
  <2> QED
    BY <2>2, <2>3
(* The client itself.                                                       *)
<1>4. IF pc'[c] = "idle" THEN Clear(c)' ELSE Held(c)'
  <2>1. ASSUME NEW r \in Plans, NEW k \in Customer \cup {NoCustomer},
               NEW profile \in BOOLEAN, NEW status \in Initial,
               Create(c, r, k, profile, status)
        PROVE  pc'[c] # "idle" /\ Held(c)'
    <3>1. /\ pc'[c] = "planning" /\ req'[c] = r /\ r.kind = "create"
          /\ PlanLocks(r.ask) \subseteq wants'[c] /\ appt' = appt /\ appt[r.appt] = NoRow
      BY <2>1 DEF Create, Start, TypeInv, TypeOK
    <3>2. \A d \in Client \ {c} : pc'[d] # "idle" => req'[d].appt # r.appt
      <4>1. \A d \in Client \ {c} : pc[d] # "idle" => req[d] # NoRequest
        BY DEF TypeInv, RequestsOK, Plans, Moves, NoRequest
      <4> QED
        BY <2>1, <4>1, OthersStay DEF Create
    <3> QED
      BY <3>1, <3>2 DEF Held, RowHeld, RowNew, PlanHeld, SeatsHeld, Planned
  <2>2. ASSUME NEW r \in Plans \cup Moves, Open(c, r)
        PROVE  pc'[c] # "idle" /\ Held(c)'
    <3>1. /\ pc'[c] = "loading" /\ req'[c] = r /\ r.kind # "create"
          /\ <<"row", r.appt>> \in wants'[c]
      BY <2>2 DEF Open, Start, RowLock, TypeInv, TypeOK
    <3> QED
      BY <3>1 DEF Held, RowHeld, RowNew, PlanHeld, SeatsHeld, Planned
  <2>3. ASSUME NEW l \in wants[c], Acquire(c, l)
        PROVE  pc'[c] # "idle" /\ Held(c)'
    <3>1. /\ pc' = pc /\ req' = req /\ appt' = appt
          /\ wants[c] \cup locks[c] = wants'[c] \cup locks'[c] /\ locks[c] \subseteq locks'[c]
      BY <2>3 DEF Acquire, TypeInv, TypeOK
    <3>2. pc[c] # "idle" /\ Held(c)
      BY <2>3 DEF LockInv, Clear
    <3> QED
      BY <1>2, <3>1, <3>2 DEF Held, RowHeld, RowNew, PlanHeld, SeatsHeld, Seated
  <2>4. CASE LoadForUpdate(c)
    <3>1. /\ pc[c] = "loading" /\ pc'[c] = "planning" /\ req' = req /\ req[c].kind = "update"
          /\ wants[c] = {} /\ PlanLocks(req[c].ask) \subseteq wants'[c] /\ locks' = locks
      BY <2>4 DEF LoadForUpdate, At, TypeInv, TypeOK
    <3>2. Held(c)
      BY <3>1 DEF LockInv
    <3> QED
      BY <3>1, <3>2 DEF Held, RowHeld, RowNew, PlanHeld, SeatsHeld, Planned
  <2>5. CASE LoadForMove(c)
    <3>1. /\ pc[c] = "loading" /\ pc'[c] = "ready" /\ req' = req /\ req[c].kind = "move"
          /\ wants[c] = {} /\ locks' = locks
      BY <2>5 DEF LoadForMove, At, TypeInv, TypeOK
    <3>2. Held(c)
      BY <3>1 DEF LockInv
    <3> QED
      BY <3>1, <3>2 DEF Held, RowHeld, RowNew, PlanHeld, SeatsHeld, Planned
  <2>6. ASSUME NEW s \in Staff, Plan(c, s) PROVE pc'[c] # "idle" /\ Held(c)'
    <3>1. /\ pc[c] = "planning" /\ pc'[c] = "planned" /\ req' = req /\ appt' = appt
          /\ wants[c] = {} /\ locks' = locks
      BY <2>6 DEF Plan, At, TypeInv, TypeOK
    <3>2. Seated(req[c].ask) => SeatsLock \in wants'[c]
      BY <2>6 DEF Plan, WriteLocks, TypeInv, TypeOK
    <3>3. Held(c)
      BY <3>1 DEF LockInv
    <3>4. \A d \in Client \ {c} : pc'[d] = pc[d] /\ req'[d] = req[d]
      BY OthersStay
    <3> QED
      BY <1>2, <3>1, <3>2, <3>3, <3>4
      DEF Held, RowHeld, RowNew, PlanHeld, SeatsHeld, Seated, Planned
  <2>7. CASE CheckSeats(c) \/ Writes(c)
    <3>1. /\ pc[c] \in {"planned", "ready", "placed", "claimed"}
          /\ pc'[c] \in {"ready", "placed", "claimed", "written"}
          /\ req' = req /\ appt' = appt /\ wants[c] = {} /\ locks' = locks
      BY <2>7 DEF CheckSeats, Writes, WriteRow, WriteClaim, WriteStats, At, TypeInv, TypeOK
    <3>2. Held(c)
      BY <3>1 DEF LockInv
    <3>3. \A d \in Client \ {c} : pc'[d] = pc[d] /\ req'[d] = req[d]
      BY OthersStay
    <3> QED
      BY <1>2, <3>1, <3>2, <3>3
      DEF Held, RowHeld, RowNew, PlanHeld, SeatsHeld, Seated, Planned
  <2>8. CASE Commit(c) \/ Refuse(c) \/ Rollback(c)
    BY <2>8 DEF Commit, Refuse, Rollback, End, Clear, TypeInv, TypeOK
  <2> QED
    BY <2>1, <2>2, <2>3, <2>4, <2>5, <2>6, <2>7, <2>8 DEF Begin, Step, Writes
<1> QED
  <2>1. \A d \in Client : IF pc'[d] = "idle" THEN Clear(d)' ELSE Held(d)'
    BY <1>3, <1>4
  <2> QED
    BY <1>1, <2>1 DEF LockInv

-----------------------------------------------------------------------------
(* Rows and drafts: what a transaction is about to write agrees with its    *)
(* request and with the row it has read, which its row lock keeps.          *)

RowFine(r) == r.lane < maxConcurrent[r.staff] /\ (Live(r) => r.claim)

Editing(c) ==
  /\ draft[c].status = appt[req[c].appt].status
  /\ draft[c].status \in Editable

Moving(c) ==
  /\ draft[c] = Moved(appt[req[c].appt], req[c].to)
  /\ req[c].to \in Transitions[appt[req[c].appt].status]

(* A plan follows the request, and has passed the checks it had to.         *)
Planning(c) ==
  /\ draft[c].staff \in req[c].ask.staff /\ draft[c].slot = req[c].ask.slot
  /\ "capacity" \in draft[c].passed => req[c].ask.channel = "online"
  /\ "seats" \in draft[c].passed => pc[c] # "planned" /\ Seated(req[c].ask)

DraftFine(c) ==
  /\ pc[c] \in Loaded => RowFine(draft[c])
  /\ pc[c] \in Loaded /\ req[c].kind = "update" => Editing(c)
  /\ pc[c] \in Planned => IF req[c].kind = "move" THEN Moving(c) ELSE Planning(c)

RowInv ==
  /\ \A a \in Appt : appt[a] # NoRow => RowFine(appt[a])
  /\ \A c \in Client : DraftFine(c)

LEMMA RowInit == Init => RowInv
BY DEF Init, RowInv, DraftFine, Loaded, Planned

LEMMA MovedFine ==
  ASSUME NEW row \in Rows, NEW to \in Status, RowFine(row)
  PROVE  RowFine(Moved(row, to))
<1>1. /\ Moved(row, to).status = to
      /\ Moved(row, to).staff = row.staff /\ Moved(row, to).lane = row.lane
      /\ Moved(row, to).claim = (to \in Active /\ (row.claim \/ ~Live(row)))
  BY MovedType
<1> QED
  BY <1>1 DEF RowFine, Live

(* Rows that others have read are not rewritten under them.                 *)
LEMMA ReadRowsStay ==
  ASSUME TypeInv, LockInv, NEW c \in Client, Begin(c) \/ Step(c) \/ Rollback(c),
         NEW d \in Client, d # c, pc[d] \in Loaded
  PROVE  appt'[req[d].appt] = appt[req[d].appt]
<1>1. CASE Commit(c)
  <2>1. pc[c] \in Loaded
    BY <1>1 DEF Commit, At, Loaded, Planned
  <2>2. req[c].appt # req[d].appt
    BY <2>1, DistinctRows
  <2> QED
    BY <1>1, <2>2 DEF Commit, TypeInv, TypeOK
<1>2. CASE ~Commit(c)
  BY <1>2, OnlyCommitWrites
<1> QED
  BY <1>1, <1>2

LEMMA RowStep == TypeInv /\ TypeInv' /\ LockInv /\ RowInv /\ [Next]_vars => RowInv'
<1> SUFFICES ASSUME TypeInv, TypeInv', LockInv, RowInv, [Next]_vars PROVE RowInv'
  OBVIOUS
<1>0. CASE UNCHANGED vars
  BY <1>0 DEF vars, RowInv, RowFine, DraftFine, Editing, Moving, Planning, Seated
<1> SUFFICES ASSUME NEW c \in Client, Begin(c) \/ Step(c) \/ Rollback(c) PROVE RowInv'
  BY <1>0 DEF Next
<1>1. ASSUME NEW a \in Appt, appt'[a] # NoRow PROVE RowFine(appt'[a])
  <2>1. CASE Commit(c)
    BY <1>1, <2>1 DEF Commit, At, RowInv, DraftFine, Loaded, Planned, TypeInv, TypeOK
  <2>2. CASE ~Commit(c)
    BY <1>1, <2>2, OnlyCommitWrites DEF RowInv
  <2> QED
    BY <2>1, <2>2
<1>2. ASSUME NEW d \in Client, d # c PROVE DraftFine(d)'
  <2>1. /\ limits' = limits
        /\ pc'[d] = pc[d] /\ req'[d] = req[d] /\ draft'[d] = draft[d]
    BY <1>2, OthersStay
  <2>2. pc[d] \in Loaded => appt'[req[d].appt] = appt[req[d].appt]
    BY <1>2, ReadRowsStay
  <2>3. DraftFine(d)
    BY DEF RowInv
  <2> QED
    BY <2>1, <2>2, <2>3 DEF DraftFine, Editing, Moving, Planning, Seated, Loaded
<1>3. DraftFine(c)'
  <2>0. DraftFine(c) /\ limits' = limits
    BY OthersStay DEF RowInv
  <2>1. ASSUME NEW r \in Plans, NEW k \in Customer \cup {NoCustomer},
               NEW profile \in BOOLEAN, NEW status \in Initial,
               Create(c, r, k, profile, status)
        PROVE  DraftFine(c)'
    <3>1. (CHOOSE s \in r.ask.staff : TRUE) \in Staff
      BY AskFacts
    <3>2. /\ pc'[c] = "planning" /\ req'[c].kind = "create"
          /\ draft'[c].staff = (CHOOSE s \in r.ask.staff : TRUE)
          /\ draft'[c].lane = 0 /\ draft'[c].claim = TRUE
      BY <2>1 DEF Create, Start, TypeInv, TypeOK
    <3>3. maxConcurrent[CHOOSE s \in r.ask.staff : TRUE] \in Nat \ {0}
      BY <3>1, ConstantsAssumption
    <3>4. RowFine(draft'[c])
      BY <3>2, <3>3 DEF RowFine
    <3> QED
      BY <3>2, <3>4 DEF DraftFine, Loaded, Planned
  <2>2. ASSUME NEW r \in Plans \cup Moves, Open(c, r) PROVE DraftFine(c)'
    BY <2>2 DEF Open, Start, DraftFine, Loaded, Planned, TypeInv, TypeOK
  <2>3. ASSUME NEW l \in wants[c], Acquire(c, l) PROVE DraftFine(c)'
    BY <2>0, <2>3 DEF Acquire, DraftFine, Editing, Moving, Planning, Seated
  <2>4. CASE LoadForUpdate(c)
    <3>1. /\ pc'[c] = "planning" /\ req' = req /\ appt' = appt /\ draft'[c] = appt[req[c].appt]
          /\ req[c].kind = "update" /\ Allowed(req[c], appt[req[c].appt])
          /\ appt[req[c].appt] \in Rows /\ req[c].appt \in Appt
      BY <2>4 DEF LoadForUpdate, At, TypeInv, TypeOK, RequestsOK, Plans, Moves
    <3>2. RowFine(appt[req[c].appt]) /\ appt[req[c].appt].status \in Editable
      BY <3>1, NoRowFacts DEF RowInv, Allowed
    <3> QED
      BY <3>1, <3>2 DEF DraftFine, Editing, Planned
  <2>5. CASE LoadForMove(c)
    <3>1. /\ pc'[c] = "ready" /\ req' = req /\ appt' = appt
          /\ draft'[c] = Moved(appt[req[c].appt], req[c].to)
          /\ req[c].kind = "move" /\ Allowed(req[c], appt[req[c].appt]) /\ req[c] \in Moves
          /\ appt[req[c].appt] \in Rows /\ req[c].appt \in Appt
      BY <2>5 DEF LoadForMove, At, TypeInv, TypeOK, RequestsOK, Plans, Moves
    <3>2. RowFine(draft'[c])
      BY <3>1, NoRowFacts, MovedFine DEF RowInv, Moves
    <3> QED
      BY <3>1, <3>2 DEF DraftFine, Moving, Allowed
  <2>6. ASSUME NEW s \in Staff, Plan(c, s) PROVE DraftFine(c)'
    <3>1. /\ pc[c] = "planning" /\ pc'[c] = "planned" /\ req' = req /\ appt' = appt
          /\ s \in req[c].ask.staff /\ draft[c] \in Rows /\ req[c].kind # "move"
      BY <2>6 DEF Plan, At, Bookable, TypeInv, TypeOK, RequestsOK, Loaded
    <3>2. PICK l \in First(FreeLanes(c, s)), u \in PickUnit(c) :
            draft' = [draft EXCEPT ![c] =
                         [@ EXCEPT !.staff = s, !.lane = l,
                                   !.slot = req[c].ask.slot, !.unit = u, !.claim = TRUE,
                                   !.passed = {"lane"} \cup
                                     (IF req[c].ask.channel = "online" THEN {"capacity"}
                                      ELSE {})]]
      BY <2>6, Zenon DEF Plan
    <3>3. /\ draft'[c].staff = s /\ draft'[c].lane = l /\ draft'[c].claim = TRUE
          /\ draft'[c].slot = req[c].ask.slot /\ draft'[c].status = draft[c].status
          /\ draft'[c].passed = {"lane"} \cup
               (IF req[c].ask.channel = "online" THEN {"capacity"} ELSE {})
      BY <3>1, <3>2 DEF Rows, TypeInv, TypeOK
    <3>4. l < maxConcurrent[s]
      <4>1. maxConcurrent[s] \in Nat /\ l \in 0 .. maxConcurrent[s] - 1
        BY ConstantsAssumption DEF First, FreeLanes
      <4> QED
        BY <4>1
    <3> QED
      BY <2>0, <3>1, <3>3, <3>4
      DEF DraftFine, RowFine, Editing, Planning, Loaded
  <2>7. CASE CheckSeats(c)
    <3>1. /\ pc[c] = "planned" /\ pc'[c] = "ready" /\ req' = req /\ appt' = appt
          /\ draft[c] \in Rows /\ req[c].kind # "move"
          /\ draft'[c] = [draft[c] EXCEPT !.passed = draft[c].passed \cup
                            (IF Seated(req[c].ask) THEN {"seats"} ELSE {})]
      BY <2>7 DEF CheckSeats, At, TypeInv, TypeOK, RequestsOK, Loaded, Planned
    <3>2. /\ draft'[c].staff = draft[c].staff /\ draft'[c].lane = draft[c].lane
          /\ draft'[c].slot = draft[c].slot /\ draft'[c].claim = draft[c].claim
          /\ draft'[c].status = draft[c].status
          /\ draft'[c].passed = draft[c].passed \cup
               (IF Seated(req[c].ask) THEN {"seats"} ELSE {})
      BY <3>1 DEF Rows
    <3> QED
      BY <2>0, <3>1, <3>2
      DEF DraftFine, RowFine, Live, Editing, Planning, Seated, Loaded, Planned
  <2>8. CASE Writes(c)
    BY <2>0, <2>8
    DEF Writes, WriteRow, WriteClaim, WriteStats, At, DraftFine, Editing, Moving, Planning,
        Seated, Loaded, Planned,
        TypeInv, TypeOK
  <2>9. CASE Commit(c) \/ Refuse(c) \/ Rollback(c)
    BY <2>9 DEF Commit, Refuse, Rollback, End, DraftFine, Loaded, Planned, TypeInv, TypeOK
  <2> QED
    BY <2>1, <2>2, <2>3, <2>4, <2>5, <2>6, <2>7, <2>8, <2>9 DEF Begin, Step, Writes
<1> QED
  BY <1>1, <1>2, <1>3 DEF RowInv

-----------------------------------------------------------------------------
(* The exclusion constraints: no two committed rows clash, and no accepted  *)
(* version clashes with another accepted or committed one.                  *)

ClashInv ==
  /\ \A a, b \in Appt : a # b => ~LaneClash(appt[a], appt[b]) /\ ~UnitClash(appt[a], appt[b])
  /\ \A c \in Client, b \in Appt : b # req[c].appt =>
       /\ pc[c] \in {"claimed", "written"} => ~LaneClash(draft[c], appt[b])
       /\ pc[c] = "written" => ~UnitClash(draft[c], appt[b])
  /\ \A c, d \in Client : c # d =>
       /\ pc[c] \in {"claimed", "written"} /\ pc[d] \in {"claimed", "written"} =>
            ~LaneClash(draft[c], draft[d])
       /\ pc[c] = "written" /\ pc[d] = "written" => ~UnitClash(draft[c], draft[d])

LEMMA ClashSymmetric == \A r, q : /\ LaneClash(r, q) <=> LaneClash(q, r)
                                  /\ UnitClash(r, q) <=> UnitClash(q, r)
BY DEF LaneClash, UnitClash

LEMMA NoRowNeverClashes == \A r : /\ ~LaneClash(r, NoRow) /\ ~LaneClash(NoRow, r)
                                  /\ ~UnitClash(r, NoRow) /\ ~UnitClash(NoRow, r)
BY NoRowFacts DEF LaneClash, UnitClash

LEMMA ClashInit == Init => ClashInv
BY NoRowNeverClashes DEF Init, ClashInv

(* A transition that leaves its resource row alone keeps the claim it had.  *)
LEMMA ClaimKept ==
  ASSUME TypeInv, RowInv, NEW c \in Client, pc[c] \in Planned, ~Reclaims(c), NEW q
  PROVE  UnitClash(draft[c], q) => UnitClash(appt[req[c].appt], q)
<1>1. req[c].kind = "move" /\ draft[c].claim = appt[req[c].appt].claim
  BY DEF Reclaims
<1>2. /\ req[c] \in Moves /\ Moving(c) /\ appt[req[c].appt] \in Rows
  BY <1>1 DEF TypeInv, TypeOK, RequestsOK, Plans, Moves, RowInv, DraftFine, Planned
<1>3. /\ draft[c].slot = appt[req[c].appt].slot /\ draft[c].unit = appt[req[c].appt].unit
  BY <1>2, MovedType DEF Moving, Moves
<1> QED
  BY <1>1, <1>2, <1>3, NoRowFacts DEF UnitClash, Claims

LEMMA ClashStep == TypeInv /\ LockInv /\ RowInv /\ ClashInv /\ [Next]_vars => ClashInv'
<1> SUFFICES ASSUME TypeInv, LockInv, RowInv, ClashInv, [Next]_vars PROVE ClashInv'
  OBVIOUS
<1>0. CASE UNCHANGED vars
  BY <1>0 DEF vars, ClashInv
<1> SUFFICES ASSUME NEW c \in Client, Begin(c) \/ Step(c) \/ Rollback(c) PROVE ClashInv'
  BY <1>0 DEF Next
<1>1. \A d \in Client \ {c} : pc'[d] = pc[d] /\ req'[d] = req[d] /\ draft'[d] = draft[d]
  BY OthersStay
<1>2. CASE Commit(c)
  <2>1. /\ pc[c] = "written" /\ pc'[c] = "idle" /\ req[c].appt \in Appt
        /\ \A a \in Appt : appt'[a] = IF a = req[c].appt THEN draft[c] ELSE appt[a]
    BY <1>2 DEF Commit, End, At, TypeInv, TypeOK, RequestsOK, Plans, Moves
  <2>2. ASSUME NEW a \in Appt, NEW b \in Appt, a # b
        PROVE  ~LaneClash(appt'[a], appt'[b]) /\ ~UnitClash(appt'[a], appt'[b])
    BY <2>1, <2>2, ClashSymmetric DEF ClashInv
  <2>3. ASSUME NEW d \in Client, NEW b \in Appt, b # req'[d].appt
        PROVE  /\ pc'[d] \in {"claimed", "written"} => ~LaneClash(draft'[d], appt'[b])
               /\ pc'[d] = "written" => ~UnitClash(draft'[d], appt'[b])
    BY <1>1, <2>1, <2>3 DEF ClashInv
  <2> QED
    BY <1>1, <2>1, <2>2, <2>3 DEF ClashInv
<1>3. CASE WriteClaim(c)
  <2>1. /\ pc[c] = "placed" /\ pc'[c] = "claimed" /\ req' = req /\ draft' = draft /\ appt' = appt
        /\ \A d \in Client : ~LaneWait(c, d)
        /\ \A b \in Others(c) : ~LaneClash(draft[c], appt[b])
    BY <1>3 DEF WriteClaim, At, Accepted, Blocked, Overlapping, TypeInv, TypeOK
  <2>2. \A b \in Appt : b # req[c].appt => ~LaneClash(draft[c], appt[b])
    BY <2>1, NoRowNeverClashes DEF Others
  <2>3. \A d \in Client \ {c} : pc[d] \in Placed => ~LaneClash(draft[c], draft[d])
    BY <2>1 DEF LaneWait
  <2> QED
    BY <1>1, <2>1, <2>2, <2>3, ClashSymmetric DEF ClashInv, Placed
<1>4. CASE WriteStats(c)
  <2>1. /\ pc[c] = "claimed" /\ pc'[c] = "written" /\ req' = req /\ draft' = draft /\ appt' = appt
        /\ \A d \in Client : ~UnitWait(c, d)
        /\ \A b \in Others(c) : ~UnitClash(draft[c], appt[b])
    BY <1>4 DEF WriteStats, At, Accepted, Blocked, Overlapping, TypeInv, TypeOK
  <2>2. \A b \in Appt : b # req[c].appt => ~UnitClash(draft[c], appt[b])
    BY <2>1, NoRowNeverClashes DEF Others
  <2>3. ASSUME NEW d \in Client \ {c}, pc[d] = "written" PROVE ~UnitClash(draft[c], draft[d])
    <3>1. /\ req[c].appt # req[d].appt /\ req[c].appt \in Appt /\ req[d].appt \in Appt
          /\ pc[c] \in Planned /\ pc[d] \in Planned
      BY <2>1, <2>3, DistinctRows DEF Loaded, Planned, TypeInv, RequestsOK, Plans, Moves
    <3>2. CASE Reclaims(c) /\ Reclaims(d)
      BY <2>1, <2>3, <3>2 DEF UnitWait
    <3>3. CASE ~Reclaims(c)
      <4>1. ~UnitClash(appt[req[c].appt], draft[d])
        BY <2>3, <3>1, ClashSymmetric DEF ClashInv
      <4> QED
        BY <3>1, <3>3, <4>1, ClaimKept
    <3>4. CASE ~Reclaims(d)
      <4>1. ~UnitClash(appt[req[d].appt], draft[c])
        BY <2>2, <3>1, ClashSymmetric
      <4> QED
        BY <3>1, <3>4, <4>1, ClaimKept, ClashSymmetric
    <3> QED
      BY <3>2, <3>3, <3>4
  <2> QED
    BY <1>1, <2>1, <2>2, <2>3, ClashSymmetric DEF ClashInv
<1>5. CASE ~Commit(c) /\ ~WriteClaim(c) /\ ~WriteStats(c)
  <2>1. appt' = appt
    BY <1>5, OnlyCommitWrites
  <2>2. pc'[c] \in {"claimed", "written"} =>
          pc[c] = pc'[c] /\ req'[c] = req[c] /\ draft'[c] = draft[c]
    <3>1. CASE Begin(c) \/ \E l \in wants[c] : Acquire(c, l)
      BY <3>1 DEF Begin, Create, Open, Start, Acquire, TypeInv, TypeOK
    <3>2. CASE LoadForUpdate(c) \/ LoadForMove(c) \/ CheckSeats(c) \/ WriteRow(c)
      BY <3>2 DEF LoadForUpdate, LoadForMove, CheckSeats, WriteRow, TypeInv, TypeOK
    <3>3. CASE \E s \in Staff : Plan(c, s)
      BY <3>3 DEF Plan, TypeInv, TypeOK
    <3>4. CASE Refuse(c) \/ Rollback(c)
      BY <3>4 DEF Refuse, Rollback, End, TypeInv, TypeOK
    <3> QED
      BY <1>5, <3>1, <3>2, <3>3, <3>4 DEF Step
  <2> QED
    BY <1>1, <2>1, <2>2 DEF ClashInv
<1> QED
  BY <1>2, <1>3, <1>4, <1>5

-----------------------------------------------------------------------------
(* What these give for the committed rows.                                  *)

Inv == TypeInv /\ LockInv /\ RowInv /\ ClashInv

LEMMA Invariant == Spec => []Inv
<1>1. Init => Inv
  BY TypeInit, LockInit, RowInit, ClashInit DEF Inv
<1>2. Inv /\ [Next]_vars => Inv'
  BY TypeStep, LockStep, RowStep, ClashStep DEF Inv
<1> QED
  BY <1>1, <1>2, PTL DEF Spec

LEMMA LanesAreDistinct ==
  ASSUME Inv, NEW s \in Staff, NEW t \in Tick
  PROVE  Cardinality({a \in Appt : /\ Live(appt[a])
                                   /\ appt[a].staff = s
                                   /\ t \in occupied[appt[a].slot]}) <= maxConcurrent[s]
<1> DEFINE S == {a \in Appt : /\ Live(appt[a])
                              /\ appt[a].staff = s
                              /\ t \in occupied[appt[a].slot]}
           L == 0 .. maxConcurrent[s] - 1
           lane == [a \in S |-> appt[a].lane]
<1>1. maxConcurrent[s] \in Nat
  BY ConstantsAssumption
<1>2. \A a \in S : appt[a] \in Rows
  BY NoRowFacts DEF Inv, TypeInv, TypeOK
<1>3. \A a \in S : lane[a] \in L
  <2> SUFFICES ASSUME NEW a \in S PROVE appt[a].lane \in L
    OBVIOUS
  <2>1. appt[a].lane \in Nat
    BY <1>2 DEF Rows
  <2>2. appt[a].lane < maxConcurrent[s]
    BY <1>2, NoRowFacts DEF Inv, RowInv, RowFine
  <2> QED
    BY <1>1, <2>1, <2>2
<1>4. \A a, b \in S : lane[a] = lane[b] => a = b
  BY DEF Inv, ClashInv, LaneClash
<1>5. lane \in Injection(S, L)
  BY <1>3, <1>4 DEF Injection, IsInjective
<1>6. IsFiniteSet(L) /\ Cardinality(L) = maxConcurrent[s]
  <2>1. 0 \in Int /\ maxConcurrent[s] - 1 \in Int
    BY <1>1
  <2>2. /\ IsFiniteSet(L)
        /\ Cardinality(L) = (IF 0 > maxConcurrent[s] - 1 THEN 0
                             ELSE maxConcurrent[s] - 1 - 0 + 1)
    BY <2>1, FS_Interval
  <2>3. maxConcurrent[s] >= 1
    BY ConstantsAssumption
  <2> QED
    BY <1>1, <2>2, <2>3
<1>7. Cardinality(S) <= Cardinality(L)
  BY <1>5, <1>6, FS_Injection
<1> QED
  BY <1>6, <1>7

(* No staff member is double-booked: at no instant more bookings, buffers   *)
(* included, than the setting allows.                                       *)
THEOREM DoubleBookingExcluded == Spec => []NoDoubleBooking
<1>1. Inv => NoDoubleBooking
  BY LanesAreDistinct DEF NoDoubleBooking
<1> QED
  BY <1>1, Invariant, PTL

(* A live booking holds the unit it needs, and holds it alone, through      *)
(* cancelling, restoring and editing.                                       *)
THEOREM UnitsStayHeld == Spec => []UnitsHeld
<1>1. ASSUME Inv PROVE UnitsHeld
  <2>1. \A a \in Appt : Live(appt[a]) => appt[a].claim /\ appt[a] # NoRow
    BY <1>1, NoRowFacts DEF Inv, RowInv, RowFine
  <2>2. \A a, b \in Appt : a # b => ~UnitClash(appt[a], appt[b])
    BY <1>1 DEF Inv, ClashInv
  <2> QED
    BY <2>1, <2>2 DEF UnitsHeld, UnitClash, Claims
<1> QED
  BY <1>1, Invariant, PTL

(* A booking moves along TRANSITIONS, and is edited only while it may be,   *)
(* whatever version of the row the decision was made on.                    *)
THEOREM ChangesAreLegal == Spec => LegalChanges
<1>1. ASSUME Inv, [Next]_vars, NEW a \in Appt, appt[a] # NoRow
      PROVE  \/ appt'[a].status = appt[a].status /\ appt[a].status \in Editable
             \/ /\ appt'[a].status \in Transitions[appt[a].status] \cup {appt[a].status}
                /\ SamePlan(appt'[a], appt[a])
  <2>1. CASE appt'[a] = appt[a]
    BY <2>1 DEF SamePlan
  <2>2. CASE appt'[a] # appt[a]
    <3>1. PICK c \in Client : Commit(c)
      BY <1>1, <2>2, OnlyCommitWrites DEF Next, vars
    <3>2. /\ pc[c] = "written" /\ pc[c] \in Planned /\ pc[c] \in Loaded
          /\ a = req[c].appt /\ appt'[a] = draft[c] /\ appt[a] \in Rows
      BY <1>1, <2>2, <3>1 DEF Commit, At, Loaded, Planned, Inv, TypeInv, TypeOK
    <3>3. DraftFine(c) /\ RowNew(c)
      BY <1>1, <3>2 DEF Inv, RowInv, LockInv, Held
    <3>4. CASE req[c].kind = "create"
      BY <1>1, <3>2, <3>3, <3>4 DEF RowNew
    <3>5. CASE req[c].kind = "update"
      BY <3>2, <3>3, <3>5 DEF DraftFine, Editing
    <3>6. CASE req[c].kind = "move"
      <4>1. req[c] \in Moves /\ Moving(c)
        BY <1>1, <3>2, <3>3, <3>6 DEF Inv, TypeInv, RequestsOK, Plans, DraftFine
      <4>2. req[c].to \in Status
        BY <4>1 DEF Moves
      <4> QED
        BY <3>2, <4>1, <4>2, MovedType DEF Moving, SamePlan
    <3> QED
      BY <1>1, <3>2, <3>4, <3>5, <3>6 DEF Inv, TypeInv, RequestsOK, Plans, Moves
  <2> QED
    BY <2>1, <2>2
<1>2. Inv /\ [Next]_vars =>
        [\A a \in Appt : appt[a] # NoRow =>
           \/ appt'[a].status = appt[a].status /\ appt[a].status \in Editable
           \/ /\ appt'[a].status \in Transitions[appt[a].status] \cup {appt[a].status}
              /\ SamePlan(appt'[a], appt[a])]_vars
  BY <1>1
<1> QED
  BY <1>2, Invariant, PTL DEF Spec, LegalChanges

-----------------------------------------------------------------------------
(* The plan a transaction makes under its staff lock.                       *)

(* The staff lock of a plan that is not a transition.                       *)
LEMMA PlanHoldsStaff ==
  ASSUME Inv, NEW c \in Client, pc[c] \in Planned, req[c].kind # "move"
  PROVE  <<"staff", draft[c].staff>> \in locks[c]
<1>1. Held(c) /\ DraftFine(c) /\ req[c] \in Plans
  BY DEF Inv, LockInv, RowInv, TypeInv, RequestsOK, Moves, Planned
<1>2. draft[c].staff \in req[c].ask.staff /\ PlanLocks(req[c].ask) \subseteq locks[c]
  BY <1>1 DEF Held, PlanHeld, DraftFine, Planning
<1> QED
  BY <1>2 DEF PlanLocks, StaffLocks

LEMMA PlanStep == Inv /\ Inv' /\ PlanStaysFree /\ [Next]_vars => PlanStaysFree'
<1> SUFFICES ASSUME Inv, Inv', PlanStaysFree, [Next]_vars PROVE PlanStaysFree'
  OBVIOUS
<1>0. CASE UNCHANGED vars
  BY <1>0 DEF vars, PlanStaysFree, Others
<1> SUFFICES ASSUME NEW c \in Client, Begin(c) \/ Step(c) \/ Rollback(c),
                    NEW d \in Client, pc'[d] \in Planned, "lane" \in draft'[d].passed,
                    req'[d].kind # "move",
                    NEW b \in Others(d)', LaneClash(draft'[d], appt'[b])
             PROVE  "lane" \notin appt'[b].passed
  BY <1>0 DEF Next, PlanStaysFree, Planned, Placed
<1> USE DEF Inv, TypeInv, TypeOK
<1>1. b \in Appt /\ b # req'[d].appt /\ appt'[b] # NoRow
  BY DEF Others
<1>2. CASE d = c /\ \E s \in Staff : Plan(c, s)
  <2>1. PICK s \in Staff : Plan(c, s)
    BY <1>2
  <2>2. /\ pc[c] = "planning" /\ req' = req /\ appt' = appt /\ draft[c] \in Rows
    BY <2>1 DEF Plan, At, RequestsOK, Loaded
  <2>3. PICK l \in First(FreeLanes(c, s)), u \in PickUnit(c) :
          draft' = [draft EXCEPT ![c] =
                       [@ EXCEPT !.staff = s, !.lane = l,
                                 !.slot = req[c].ask.slot, !.unit = u, !.claim = TRUE,
                                 !.passed = {"lane"} \cup
                                   (IF req[c].ask.channel = "online" THEN {"capacity"}
                                    ELSE {})]]
    BY <2>1, Zenon DEF Plan
  <2>4. /\ draft'[c].staff = s /\ draft'[c].lane = l
        /\ draft'[c].slot = req[c].ask.slot
    BY <2>2, <2>3 DEF Rows
  <2>5. b \in Others(c)
    BY <1>1, <1>2, <2>2 DEF Others
  <2> QED
    BY <1>2, <2>2, <2>4, <2>5 DEF First, FreeLanes, LaneClash
<1>3. CASE d = c /\ ~\E s \in Staff : Plan(c, s)
  <2>1. /\ pc[c] \in Planned /\ req' = req /\ appt' = appt
        /\ LaneClash(draft[c], appt[b]) /\ "lane" \in draft[c].passed
    <3>1. CASE Begin(c) \/ LoadForUpdate(c) \/ LoadForMove(c)
      BY <1>3, <3>1 DEF Begin, Create, Open, Start, LoadForUpdate, LoadForMove, Planned
    <3>2. CASE (\E l \in wants[c] : Acquire(c, l)) \/ Writes(c)
      BY <1>3, <3>2 DEF Acquire, Writes, WriteRow, WriteClaim, WriteStats, At, Planned
    <3>3. CASE CheckSeats(c)
      <4>1. /\ pc[c] = "planned" /\ req' = req /\ appt' = appt /\ draft[c] \in Rows
            /\ draft'[c] = [draft[c] EXCEPT !.passed = draft[c].passed \cup
                              (IF Seated(req[c].ask) THEN {"seats"} ELSE {})]
        BY <3>3 DEF CheckSeats, At, RequestsOK, Loaded, Planned
      <4>2. /\ draft'[c].staff = draft[c].staff /\ draft'[c].lane = draft[c].lane
            /\ draft'[c].slot = draft[c].slot /\ draft'[c].status = draft[c].status
            /\ draft'[c].passed = draft[c].passed \cup
                 (IF Seated(req[c].ask) THEN {"seats"} ELSE {})
        BY <4>1 DEF Rows
      <4> QED
        BY <1>3, <4>1, <4>2 DEF LaneClash, Live, Planned
    <3>4. CASE Commit(c) \/ Refuse(c) \/ Rollback(c)
      BY <1>3, <3>4 DEF Commit, Refuse, Rollback, End, Planned
    <3> QED
      BY <1>3, <3>1, <3>2, <3>3, <3>4 DEF Step, Writes
  <2>2. b \in Others(c)
    BY <1>1, <1>3, <2>1 DEF Others
  <2> QED
    BY <1>3, <2>1, <2>2 DEF PlanStaysFree, Planned, Placed
<1>4. CASE d # c
  <2>1. pc'[d] = pc[d] /\ req'[d] = req[d] /\ draft'[d] = draft[d]
    BY <1>4, OthersStay
  <2>2. \A x \in Others(d) : LaneClash(draft[d], appt[x]) => "lane" \notin appt[x].passed
    BY <2>1 DEF PlanStaysFree, Planned, Placed
  <2>3. CASE appt'[b] = appt[b]
    BY <1>1, <2>1, <2>2, <2>3 DEF Others
  <2>4. CASE appt'[b] # appt[b]
    <3>1. Commit(c)
      BY <2>4, OnlyCommitWrites
    <3>2. /\ pc[c] = "written" /\ pc[c] \in Planned /\ pc[c] \in Loaded
          /\ b = req[c].appt /\ appt'[b] = draft[c]
      BY <2>4, <3>1 DEF Commit, At, Loaded, Planned
    <3>3. CASE req[c].kind = "move"
      <4>1. req[c] \in Moves /\ Moving(c) /\ appt[b] \in Rows
        BY <1>1, <3>2, <3>3 DEF RequestsOK, Plans, RowInv, DraftFine
      <4>2. /\ appt'[b].staff = appt[b].staff /\ appt'[b].lane = appt[b].lane
            /\ appt'[b].slot = appt[b].slot
            /\ appt'[b].passed = (IF Live(appt[b]) THEN appt[b].passed ELSE {})
        BY <3>2, <4>1, MovedType DEF Moving, Moves
      <4>3. CASE Live(appt[b])
        <5>1. LaneClash(draft[d], appt[b])
          BY <2>1, <4>2, <4>3 DEF LaneClash
        <5>2. b \in Others(d)
          BY <1>1, <2>1, <4>1, NoRowFacts DEF Others
        <5> QED
          BY <2>2, <4>2, <4>3, <5>1, <5>2
      <4>4. CASE ~Live(appt[b])
        BY <4>2, <4>4
      <4> QED
        BY <4>3, <4>4
    <3>4. CASE req[c].kind # "move"
      <4>1. /\ <<"staff", draft[c].staff>> \in locks[c]
            /\ <<"staff", draft[d].staff>> \in locks[d]
        BY <2>1, <3>2, <3>4, PlanHoldsStaff
      <4>2. draft[c].staff # draft[d].staff
        BY <1>4, <4>1 DEF LockInv, Exclusive
      <4> QED
        BY <2>1, <3>2, <4>2 DEF LaneClash
    <3> QED
      BY <3>3, <3>4
  <2> QED
    BY <2>3, <2>4
<1> QED
  BY <1>2, <1>3, <1>4

(* The lane a plan found free is not taken by another plan before it is     *)
(* written: only a restored booking can make the constraint refuse it.      *)
THEOREM PlanIsReserved == Spec => []PlanStaysFree
<1>1. Init => PlanStaysFree
  BY DEF Init, PlanStaysFree, Placed
<1> QED
  BY <1>1, PlanStep, Invariant, PTL DEF Spec

-----------------------------------------------------------------------------
(* The two counted limits, alike: a check counts under its lock, the lock   *)
(* is kept until the commit, and so the count can only fall meanwhile.      *)

Checks == {"seats", "capacity"}
LimitOf(check) == IF check = "seats" THEN limits.seats ELSE limits.capacity
LockOf(check) == IF check = "seats" THEN SeatsLock ELSE CapacityLock

PassedOthers(c, check, t) ==
  {b \in Others(c) : Live(appt[b]) /\ check \in appt[b].passed /\ t \in appt[b].slot}

(* A plan that has passed the check, and is not committed yet.              *)
Counted(c, check) ==
  pc[c] \in Planned /\ req[c].kind # "move" /\ check \in draft[c].passed

Room(c, check) ==
  \A t \in draft[c].slot : Cardinality(PassedOthers(c, check, t)) + 1 <= LimitOf(check)

CheckInv ==
  /\ \A c \in Client, check \in Checks : Counted(c, check) => Room(c, check)
  /\ \A check \in Checks, t \in Tick : Cardinality(Passed(check, t)) <= LimitOf(check)

LEMMA SetsFinite ==
  /\ \A check, t : /\ IsFiniteSet(Passed(check, t))
                   /\ Cardinality(Passed(check, t)) \in Nat
  /\ \A c, check, t : /\ IsFiniteSet(PassedOthers(c, check, t))
                      /\ Cardinality(PassedOthers(c, check, t)) \in Nat
  /\ \A c, t : IsFiniteSet(RunningAt(c, t)) /\ Cardinality(RunningAt(c, t)) \in Nat
<1>1. IsFiniteSet(Appt)
  BY ConstantsAssumption
<1>2. \A S \in SUBSET Appt : IsFiniteSet(S) /\ Cardinality(S) \in Nat
  BY <1>1, FS_Subset, FS_CardinalityType
<1> QED
  BY <1>2 DEF Passed, PassedOthers, RunningAt, Others

LEMMA LimitsAreNumbers ==
  ASSUME TypeInv, NEW check \in Checks
  PROVE  LimitOf(check) \in Nat
BY DEF TypeInv, TypeOK, LimitOf

(* Who has passed a check holds its lock, so only one transaction has.      *)
LEMMA CountedHolds ==
  ASSUME Inv, NEW c \in Client, NEW check \in Checks, Counted(c, check)
  PROVE  LockOf(check) \in locks[c]
<1>1. Held(c) /\ Planning(c)
  BY DEF Inv, LockInv, RowInv, DraftFine, Counted, Planned
<1>2. CASE check = "seats"
  <2>1. pc[c] \in {"ready", "placed", "claimed", "written"} /\ Seated(req[c].ask)
    BY <1>1, <1>2 DEF Counted, Planning, Planned
  <2> QED
    BY <1>1, <1>2, <2>1 DEF Held, SeatsHeld, Counted, LockOf
<1>3. CASE check = "capacity"
  <2>1. req[c].ask.channel = "online"
    BY <1>1, <1>3 DEF Counted, Planning
  <2> QED
    BY <1>1, <1>3, <2>1 DEF Held, PlanHeld, Counted, PlanLocks, LockOf
<1> QED
  BY <1>2, <1>3 DEF Checks

(* A count within the limit is room for what passes by it.                  *)
LEMMA FitsGivesRoom ==
  ASSUME NEW c \in Client, NEW check \in Checks, NEW slot, NEW n \in Nat,
         FitsWithin(c, slot, n), NEW t \in slot
  PROVE  Cardinality(PassedOthers(c, check, t)) + 1 <= n
<1>1. PassedOthers(c, check, t) \in SUBSET RunningAt(c, t)
  BY DEF PassedOthers, RunningAt
<1>2. Cardinality(PassedOthers(c, check, t)) <= Cardinality(RunningAt(c, t))
  BY <1>1, FS_Subset, SetsFinite
<1>3. Cardinality(RunningAt(c, t)) + 1 <= n
  BY DEF FitsWithin
<1> QED
  BY <1>2, <1>3, SetsFinite

(* What a commit adds to the bookings that passed a check: its own, if it   *)
(* is a plan that has passed; a transition never adds any.                  *)
LEMMA CommitAdds ==
  ASSUME Inv, NEW c \in Client, Commit(c), NEW check \in Checks, NEW b \in Appt,
         Live(appt'[b]), check \in appt'[b].passed,
         ~(b = req[c].appt /\ Counted(c, check))
  PROVE  /\ Live(appt[b]) /\ check \in appt[b].passed /\ appt[b].slot = appt'[b].slot
         /\ appt[b] # NoRow
<1> USE DEF Inv, TypeInv, TypeOK
<1>1. CASE b # req[c].appt
  <2>1. appt'[b] = appt[b]
    BY <1>1 DEF Commit
  <2> QED
    BY <2>1, NoRowFacts
<1>2. CASE b = req[c].appt
  <2>1. pc[c] \in Planned /\ appt'[b] = draft[c]
    BY <1>2 DEF Commit, At, Planned
  <2>2. req[c].kind = "move"
    BY <1>2, <2>1 DEF Counted
  <2>3. req[c] \in Moves /\ Moving(c) /\ appt[b] \in Rows
    BY <1>2, <2>1, <2>2 DEF RequestsOK, Plans, RowInv, DraftFine, Planned
  <2>4. /\ appt'[b].slot = appt[b].slot
        /\ appt'[b].passed = (IF Live(appt[b]) THEN appt[b].passed ELSE {})
    BY <1>2, <2>1, <2>3, MovedType DEF Moving, Moves
  <2> QED
    BY <2>3, <2>4, NoRowFacts
<1> QED
  BY <1>1, <1>2

LEMMA CheckInit == Init => CheckInv
<1> SUFFICES ASSUME Init PROVE CheckInv
  OBVIOUS
<1>1. \A check, t : Passed(check, t) = {}
  BY NoRowFacts DEF Init, Passed
<1>2. \A check \in Checks : LimitOf(check) \in Nat
  BY TypeInit, LimitsAreNumbers
<1>3. \A check \in Checks, t \in Tick : Cardinality(Passed(check, t)) <= LimitOf(check)
  BY <1>1, <1>2, FS_EmptySet
<1>4. \A c \in Client, check \in Checks : ~Counted(c, check)
  BY DEF Init, Counted, Planned
<1> QED
  BY <1>3, <1>4 DEF CheckInv

(* The room of a plan that has passed does not shrink.                      *)
LEMMA RoomStays ==
  ASSUME Inv, CheckInv, NEW c \in Client, Begin(c) \/ Step(c) \/ Rollback(c),
         NEW d \in Client, d # c, NEW check \in Checks, Counted(d, check)
  PROVE  Room(d, check)'
<1> SUFFICES ASSUME NEW t \in draft[d].slot
             PROVE  Cardinality(PassedOthers(d, check, t)') + 1 <= LimitOf(check)'
  BY OthersStay DEF Inv, Room
<1>1. LimitOf(check)' = LimitOf(check) /\ LimitOf(check) \in Nat /\ req'[d] = req[d]
  BY OthersStay, LimitsAreNumbers DEF Inv, LimitOf
<1>2. PassedOthers(d, check, t)' \subseteq PassedOthers(d, check, t)
  <2>1. CASE Commit(c)
    <3>1. ~Counted(c, check)
      <4>1. LockOf(check) \in locks[d]
        BY CountedHolds
      <4>2. Counted(c, check) => LockOf(check) \in locks[c]
        BY CountedHolds
      <4> QED
        BY <4>1, <4>2 DEF Inv, LockInv, Exclusive
    <3>2. ASSUME NEW b \in PassedOthers(d, check, t)'
          PROVE  b \in PassedOthers(d, check, t)
      <4>1. /\ b \in Appt /\ b # req[d].appt /\ Live(appt'[b])
            /\ check \in appt'[b].passed /\ t \in appt'[b].slot
        BY <1>1 DEF PassedOthers, Others, Live
      <4>2. /\ Live(appt[b]) /\ check \in appt[b].passed /\ appt[b].slot = appt'[b].slot
            /\ appt[b] # NoRow
        BY <2>1, <3>1, <4>1, CommitAdds
      <4> QED
        BY <4>1, <4>2 DEF PassedOthers, Others
    <3> QED
      BY <3>2
  <2>2. CASE ~Commit(c)
    BY <1>1, <2>2, OnlyCommitWrites DEF PassedOthers, Others
  <2> QED
    BY <2>1, <2>2
<1>3. Cardinality(PassedOthers(d, check, t)') <= Cardinality(PassedOthers(d, check, t))
  BY <1>2, SetsFinite, FS_Subset
<1>4. Cardinality(PassedOthers(d, check, t)) + 1 <= LimitOf(check)
  BY DEF CheckInv, Room
<1>5. Cardinality(PassedOthers(d, check, t)') \in Nat
  <2>1. IsFiniteSet(PassedOthers(d, check, t)')
    BY <1>2, SetsFinite, FS_Subset
  <2> QED
    BY <2>1, FS_CardinalityType
<1> QED
  BY <1>1, <1>3, <1>4, <1>5, SetsFinite

(* A plan that has just passed, or had passed before, has room.             *)
LEMMA RoomFound ==
  ASSUME Inv, CheckInv, NEW c \in Client, Begin(c) \/ Step(c) \/ Rollback(c),
         NEW check \in Checks, Counted(c, check)'
  PROVE  Room(c, check)'
<1> USE DEF Inv, TypeInv, TypeOK
<1>0. limits' = limits
  BY OthersStay
<1>1. CASE Begin(c) \/ LoadForUpdate(c) \/ LoadForMove(c)
  BY <1>1 DEF Begin, Create, Open, Start, LoadForUpdate, LoadForMove, Counted, Planned
<1>2. CASE (\E l \in wants[c] : Acquire(c, l)) \/ Writes(c)
  <2>1. req' = req /\ draft' = draft /\ appt' = appt /\ pc[c] \in Planned
    BY <1>2 DEF Acquire, Writes, WriteRow, WriteClaim, WriteStats, At, Counted, Planned
  <2>2. Room(c, check)
    BY <2>1 DEF Counted, CheckInv
  <2> QED
    BY <1>0, <2>1, <2>2 DEF Room, PassedOthers, Others, LimitOf
<1>3. ASSUME NEW s \in Staff, Plan(c, s) PROVE Room(c, check)'
  <2>1. /\ pc[c] = "planning" /\ req' = req /\ appt' = appt /\ draft[c] \in Rows
        /\ s \in Bookable(c)
    BY <1>3 DEF Plan, At, RequestsOK, Loaded
  <2>2. PICK l \in First(FreeLanes(c, s)), u \in PickUnit(c) :
          draft' = [draft EXCEPT ![c] =
                       [@ EXCEPT !.staff = s, !.lane = l,
                                 !.slot = req[c].ask.slot, !.unit = u, !.claim = TRUE,
                                 !.passed = {"lane"} \cup
                                   (IF req[c].ask.channel = "online" THEN {"capacity"}
                                    ELSE {})]]
    BY <1>3, Zenon DEF Plan
  <2>3. /\ draft'[c].slot = req[c].ask.slot
        /\ draft'[c].passed = {"lane"} \cup
             (IF req[c].ask.channel = "online" THEN {"capacity"} ELSE {})
    BY <2>1, <2>2 DEF Rows
  <2>4. check = "capacity" /\ req[c].ask.channel = "online"
    BY <2>3 DEF Counted, Checks
  <2>5. FitsWithin(c, req[c].ask.slot, limits.capacity) /\ limits.capacity \in Nat
    BY <2>1, <2>4 DEF Bookable
  <2>6. \A t \in draft'[c].slot : Cardinality(PassedOthers(c, check, t)) + 1 <= limits.capacity
    BY <2>3, <2>5, FitsGivesRoom
  <2>7. \A t : PassedOthers(c, check, t)' = PassedOthers(c, check, t)
    BY <2>1 DEF PassedOthers, Others
  <2> QED
    BY <1>0, <2>4, <2>6, <2>7 DEF Room, LimitOf
<1>4. CASE CheckSeats(c)
  <2>1. /\ pc[c] = "planned" /\ req' = req /\ appt' = appt /\ draft[c] \in Rows
        /\ draft'[c] = [draft[c] EXCEPT !.passed = draft[c].passed \cup
                          (IF Seated(req[c].ask) THEN {"seats"} ELSE {})]
        /\ Seated(req[c].ask) => FitsWithin(c, req[c].ask.slot, limits.seats)
        /\ req[c].kind # "move"
    BY <1>4 DEF CheckSeats, At, RequestsOK, Loaded, Planned
  <2>2. /\ draft'[c].slot = draft[c].slot
        /\ draft'[c].passed = draft[c].passed \cup
             (IF Seated(req[c].ask) THEN {"seats"} ELSE {})
    BY <2>1 DEF Rows
  <2>3. \A t : PassedOthers(c, check, t)' = PassedOthers(c, check, t)
    BY <2>1 DEF PassedOthers, Others
  <2>4. DraftFine(c)
    BY DEF RowInv
  <2>5. draft[c].slot = req[c].ask.slot /\ "seats" \notin draft[c].passed
    BY <2>1, <2>4 DEF DraftFine, Planning, Planned
  <2>6. CASE check = "seats"
    <3>1. Seated(req[c].ask)
      BY <2>2, <2>5, <2>6 DEF Counted
    <3>2. FitsWithin(c, draft'[c].slot, limits.seats) /\ limits.seats \in Nat
      BY <2>1, <2>2, <2>5, <3>1
    <3>3. \A t \in draft'[c].slot : Cardinality(PassedOthers(c, check, t)) + 1 <= limits.seats
      BY <3>2, FitsGivesRoom
    <3> QED
      BY <1>0, <2>3, <2>6, <3>3 DEF Room, LimitOf
  <2>7. CASE check = "capacity"
    <3>1. Counted(c, check)
      BY <2>1, <2>2, <2>7 DEF Counted, Planned
    <3>2. Room(c, check)
      BY <3>1 DEF CheckInv
    <3> QED
      BY <1>0, <2>2, <2>3, <3>2 DEF Room, LimitOf
  <2> QED
    BY <2>6, <2>7 DEF Checks
<1>5. CASE Commit(c) \/ Refuse(c) \/ Rollback(c)
  BY <1>5 DEF Commit, Refuse, Rollback, End, Counted, Planned
<1> QED
  BY <1>1, <1>2, <1>3, <1>4, <1>5 DEF Step, Writes

(* A commit keeps every count within its limit.                             *)
LEMMA CountStays ==
  ASSUME Inv, CheckInv, NEW c \in Client, Begin(c) \/ Step(c) \/ Rollback(c),
         NEW check \in Checks, NEW t \in Tick
  PROVE  Cardinality(Passed(check, t)') <= LimitOf(check)'
<1> DEFINE P == Passed(check, t)
           Q == PassedOthers(c, check, t)
<1>1. LimitOf(check)' = LimitOf(check) /\ LimitOf(check) \in Nat
  BY OthersStay, LimitsAreNumbers DEF Inv, LimitOf
<1>2. Cardinality(P) <= LimitOf(check) /\ Cardinality(P) \in Nat /\ IsFiniteSet(P)
  BY SetsFinite DEF CheckInv
<1>3. CASE P' \subseteq P
  <2>1. Cardinality(P') <= Cardinality(P) /\ IsFiniteSet(P')
    BY <1>2, <1>3, FS_Subset
  <2>2. Cardinality(P') \in Nat
    BY <2>1, FS_CardinalityType
  <2> QED
    BY <1>1, <1>2, <2>1, <2>2
<1>4. CASE ~Commit(c)
  <2>1. P' = P
    BY <1>4, OnlyCommitWrites DEF Passed
  <2> QED
    BY <1>3, <2>1
<1>5. CASE Commit(c) /\ Counted(c, check) /\ t \in draft[c].slot
  <2>1. P' \subseteq Q \cup {req[c].appt}
    <3> SUFFICES ASSUME NEW b \in P', b # req[c].appt PROVE b \in Q
      OBVIOUS
    <3>1. b \in Appt /\ Live(appt'[b]) /\ check \in appt'[b].passed /\ t \in appt'[b].slot
      BY DEF Passed, Live
    <3>2. /\ Live(appt[b]) /\ check \in appt[b].passed /\ appt[b].slot = appt'[b].slot
          /\ appt[b] # NoRow
      BY <1>5, <3>1, CommitAdds
    <3> QED
      BY <3>1, <3>2 DEF PassedOthers, Others
  <2>2. Cardinality(Q) + 1 <= LimitOf(check)
    BY <1>5 DEF CheckInv, Room
  <2>3. IsFiniteSet(Q) /\ Cardinality(Q) \in Nat
    BY SetsFinite
  <2> HIDE DEF P, Q
  <2>4. /\ IsFiniteSet(Q \cup {req[c].appt})
        /\ Cardinality(Q \cup {req[c].appt}) <= Cardinality(Q) + 1
        /\ Cardinality(Q \cup {req[c].appt}) \in Nat
    <3>1. /\ IsFiniteSet(Q \cup {req[c].appt})
          /\ Cardinality(Q \cup {req[c].appt}) =
               (IF req[c].appt \in Q THEN Cardinality(Q) ELSE Cardinality(Q) + 1)
      BY <2>3, FS_AddElement
    <3> QED
      BY <2>3, <3>1
  <2>5. /\ Cardinality(P') <= Cardinality(Q \cup {req[c].appt})
        /\ IsFiniteSet(P')
    BY <2>1, <2>4, FS_Subset
  <2>6. Cardinality(P') \in Nat
    BY <2>5, FS_CardinalityType
  <2>7. Cardinality(P') <= LimitOf(check)'
    BY <1>1, <2>2, <2>3, <2>4, <2>5, <2>6
  <2> QED
    BY <2>7 DEF P
<1>6. CASE Commit(c) /\ ~(Counted(c, check) /\ t \in draft[c].slot)
  <2>1. P' \subseteq P
    <3> SUFFICES ASSUME NEW b \in P' PROVE b \in P
      OBVIOUS
    <3>1. b \in Appt /\ Live(appt'[b]) /\ check \in appt'[b].passed /\ t \in appt'[b].slot
      BY DEF Passed, Live
    <3>2. b = req[c].appt => appt'[b] = draft[c]
      BY <1>6, <3>1 DEF Commit, Inv, TypeInv, TypeOK
    <3>3. ~(b = req[c].appt /\ Counted(c, check))
      BY <1>6, <3>1, <3>2
    <3>4. Live(appt[b]) /\ check \in appt[b].passed /\ appt[b].slot = appt'[b].slot
      BY <1>6, <3>1, <3>3, CommitAdds
    <3> QED
      BY <3>1, <3>4 DEF Passed
  <2> QED
    BY <1>3, <2>1
<1> QED
  BY <1>4, <1>5, <1>6

LEMMA CheckStep == Inv /\ CheckInv /\ [Next]_vars => CheckInv'
<1> SUFFICES ASSUME Inv, CheckInv, [Next]_vars PROVE CheckInv'
  OBVIOUS
<1>0. CASE UNCHANGED vars
  BY <1>0 DEF vars, CheckInv, Counted, Room, PassedOthers, Others, Passed, LimitOf
<1> SUFFICES ASSUME NEW c \in Client, Begin(c) \/ Step(c) \/ Rollback(c) PROVE CheckInv'
  BY <1>0 DEF Next
<1>1. ASSUME NEW d \in Client, NEW check \in Checks, Counted(d, check)'
      PROVE  Room(d, check)'
  <2>1. CASE d = c
    BY <1>1, <2>1, RoomFound
  <2>2. CASE d # c
    <3>1. Counted(d, check)
      BY <1>1, <2>2, OthersStay DEF Counted, Inv
    <3> QED
      BY <2>2, <3>1, RoomStays
  <2> QED
    BY <2>1, <2>2
<1>2. \A check \in Checks, t \in Tick : (Cardinality(Passed(check, t)) <= LimitOf(check))'
  BY CountStays
<1> QED
  BY <1>1, <1>2 DEF CheckInv

LEMMA ChecksHold == Spec => []CheckInv
BY CheckInit, CheckStep, Invariant, PTL DEF Spec

(* Bookings made or moved under the seat check never exceed the seat limit. *)
THEOREM SeatsAreLimited == Spec => []SeatLimitHolds
<1>1. CheckInv => SeatLimitHolds
  BY DEF CheckInv, SeatLimitHolds, LimitOf, Checks
<1> QED
  BY <1>1, ChecksHold, PTL

(* Online bookings never exceed the capacity set for them.                  *)
THEOREM OnlineIsLimited == Spec => []OnlineCapacityHolds
<1>1. CheckInv => OnlineCapacityHolds
  BY DEF CheckInv, OnlineCapacityHolds, LimitOf, Checks
<1> QED
  BY <1>1, ChecksHold, PTL

-----------------------------------------------------------------------------
(* Waiting: transactions take their locks in one order, all but that of the *)
(* customer whose statistics they update after the write.                   *)

(* The locks a step may still take, or has taken, at each stage; those of   *)
(* one step are ordered, and what is held comes before what is awaited.     *)
InOrder(c) ==
  /\ \A l, m \in wants[c] : l # m => Before(l, m) \/ Before(m, l)
  /\ \A h \in locks[c], w \in wants[c] : w[1] # "customer" => Before(h, w)

Stage(c) ==
  /\ pc[c] = "loading" => \A l \in wants[c] \cup locks[c] : l[1] = "row"
  /\ pc[c] = "planning" =>
       \A l \in wants[c] \cup locks[c] : l[1] \in {"row", "customer", "staff", "capacity"}
  /\ pc[c] = "ready" /\ req[c].kind = "move" => wants[c] = {}
  /\ pc[c] \in {"placed", "claimed"} => wants[c] = {}
  /\ pc[c] = "written" => \A l \in wants[c] : l[1] = "customer"

OrderInv == \A c \in Client : InOrder(c) /\ Stage(c)

LEMMA LockFacts ==
  ASSUME NEW l \in Lock
  PROVE  /\ l[1] \in {"row", "customer", "staff", "capacity", "unit", "seats"}
         /\ l[1] = "staff" => l[2] \in Nat
         /\ Rank[l[1]] \in 0 .. 5
<1>1. \/ \E a \in Appt : l = <<"row", a>>
      \/ \E k \in Customer : l = <<"customer", k>>
      \/ \E s \in Staff : l = <<"staff", s>>
      \/ \E u \in Unit : l = <<"unit", u>>
      \/ l = <<"capacity", 0>> \/ l = <<"seats", 0>>
  BY DEF Lock
<1>2. l[1] \in {"row", "customer", "staff", "capacity", "unit", "seats"}
  BY <1>1
<1>3. l[1] = "staff" => l[2] \in Nat
  BY <1>1, ConstantsAssumption
<1> QED
  BY <1>2, <1>3 DEF Rank

(* The order of the locks is strict.                                        *)
LEMMA BeforeIsStrict ==
  ASSUME NEW l \in Lock, NEW m \in Lock, NEW n \in Lock
  PROVE  ~Before(l, l) /\ (Before(l, m) /\ Before(m, n) => Before(l, n))
<1>1. /\ Rank[l[1]] \in 0 .. 5 /\ Rank[m[1]] \in 0 .. 5 /\ Rank[n[1]] \in 0 .. 5
      /\ l[1] = "staff" => l[2] \in Nat
      /\ m[1] = "staff" => m[2] \in Nat
      /\ n[1] = "staff" => n[2] \in Nat
  BY LockFacts
<1>2. ~Before(l, l)
  BY <1>1 DEF Before
<1>3. ASSUME Before(l, m), Before(m, n) PROVE Before(l, n)
  BY <1>1, <1>3 DEF Before, Rank
<1> QED
  BY <1>2, <1>3

(* The locks a plan waits for are of different kinds, or of different staff.*)
LEMMA PlanLocksOrdered ==
  ASSUME NEW r \in Plans, NEW k \in Customer \cup {NoCustomer},
         NEW l \in PlanLocks(r.ask) \cup CustomerLock(k),
         NEW m \in PlanLocks(r.ask) \cup CustomerLock(k)
  PROVE  /\ l # m => Before(l, m) \/ Before(m, l)
         /\ l[1] \in {"customer", "staff", "capacity"}
<1>1. r.ask.staff \in SUBSET Nat
  BY AskFacts, ConstantsAssumption
<1> DEFINE Kinds == ({"customer"} \X {k}) \cup ({"staff"} \X r.ask.staff) \cup {<<"capacity", 0>>}
<1>2. l \in Kinds /\ m \in Kinds
  BY DEF PlanLocks, StaffLocks, CapacityLock, CustomerLock
<1>3. \A x \in Kinds : \/ x = <<"customer", k>>
                       \/ x = <<"capacity", 0>>
                       \/ \E s \in r.ask.staff : x = <<"staff", s>>
  OBVIOUS
<1> HIDE DEF Kinds
<1>4. l[1] \in {"customer", "staff", "capacity"}
  BY <1>2, <1>3
<1>5. ASSUME l # m PROVE Before(l, m) \/ Before(m, l)
  <2>1. CASE l[1] = "staff" /\ m[1] = "staff"
    <3>1. PICK s \in r.ask.staff : l = <<"staff", s>>
      BY <1>2, <1>3, <2>1
    <3>2. PICK t \in r.ask.staff : m = <<"staff", t>>
      BY <1>2, <1>3, <2>1
    <3>3. s \in Nat /\ t \in Nat /\ s # t
      BY <1>1, <1>5, <3>1, <3>2
    <3>4. CASE s < t
      BY <3>1, <3>2, <3>4 DEF Before
    <3>5. CASE t < s
      BY <3>1, <3>2, <3>5 DEF Before
    <3> QED
      BY <3>3, <3>4, <3>5
  <2>2. CASE l[1] # "staff" \/ m[1] # "staff"
    BY <1>2, <1>3, <1>5, <2>2 DEF Before, Rank
  <2> QED
    BY <2>1, <2>2
<1> QED
  BY <1>4, <1>5

LEMMA WriteLocksOrdered ==
  ASSUME NEW ask, NEW u, NEW l \in WriteLocks(ask, u), NEW m \in WriteLocks(ask, u)
  PROVE  /\ l # m => Before(l, m) \/ Before(m, l)
         /\ l[1] \in {"unit", "seats"}
<1>1. \A x \in WriteLocks(ask, u) : x = <<"unit", u>> \/ x = <<"seats", 0>>
  BY DEF WriteLocks, SeatsLock
<1> QED
  BY <1>1 DEF Before, Rank

LEMMA OrderInit == Init => OrderInv
BY DEF Init, OrderInv, InOrder, Stage

LEMMA OrderStep == TypeInv /\ LockInv /\ OrderInv /\ [Next]_vars => OrderInv'
<1> SUFFICES ASSUME TypeInv, LockInv, OrderInv, [Next]_vars PROVE OrderInv'
  OBVIOUS
<1>0. CASE UNCHANGED vars
  BY <1>0 DEF vars, OrderInv, InOrder, Stage
<1> SUFFICES ASSUME NEW c \in Client, Begin(c) \/ Step(c) \/ Rollback(c) PROVE OrderInv'
  BY <1>0 DEF Next
<1>1. ASSUME NEW d \in Client \ {c} PROVE InOrder(d)' /\ Stage(d)'
  <2>1. /\ pc'[d] = pc[d] /\ req'[d] = req[d]
        /\ wants'[d] = wants[d] /\ locks'[d] = locks[d]
    BY OthersStay
  <2> QED
    BY <2>1 DEF OrderInv, InOrder, Stage
<1>2. wants[c] \subseteq Lock /\ locks[c] \subseteq Lock /\ InOrder(c) /\ Stage(c)
  BY DEF OrderInv, TypeInv, TypeOK
<1>3. InOrder(c)' /\ Stage(c)'
  <2>1. ASSUME NEW r \in Plans, NEW k \in Customer \cup {NoCustomer},
               NEW profile \in BOOLEAN, NEW status \in Initial,
               Create(c, r, k, profile, status)
        PROVE  InOrder(c)' /\ Stage(c)'
    <3>1. /\ pc'[c] = "planning" /\ locks'[c] = {}
          /\ wants'[c] \subseteq PlanLocks(r.ask) \cup CustomerLock(k)
      BY <2>1 DEF Create, Start, LockInv, Clear, TypeInv, TypeOK
    <3> QED
      BY <3>1, PlanLocksOrdered DEF InOrder, Stage
  <2>2. ASSUME NEW r \in Plans \cup Moves, Open(c, r)
        PROVE  InOrder(c)' /\ Stage(c)'
    <3>1. /\ pc'[c] = "loading" /\ locks'[c] = {} /\ wants'[c] = {<<"row", r.appt>>}
      BY <2>2 DEF Open, Start, RowLock, LockInv, Clear, TypeInv, TypeOK
    <3> QED
      BY <3>1 DEF InOrder, Stage
  <2>3. ASSUME NEW l \in wants[c], Acquire(c, l) PROVE InOrder(c)' /\ Stage(c)'
    <3>1. /\ pc' = pc /\ req' = req /\ l \in NextLock(c)
          /\ wants'[c] = wants[c] \ {l} /\ locks'[c] = locks[c] \cup {l}
      BY <2>3 DEF Acquire, TypeInv, TypeOK
    <3>2. \A w \in wants[c] \ {l} : Before(l, w)
      BY <1>2, <3>1 DEF InOrder, NextLock
    <3>3. InOrder(c)'
      BY <1>2, <3>1, <3>2 DEF InOrder
    <3>4. wants'[c] \cup locks'[c] = wants[c] \cup locks[c] /\ wants'[c] \subseteq wants[c]
      BY <2>3, <3>1
    <3>5. Stage(c)'
      BY <1>2, <3>1, <3>4 DEF Stage
    <3> QED
      BY <3>3, <3>5
  <2>4. CASE LoadForUpdate(c)
    <3>1. /\ pc[c] = "loading" /\ pc'[c] = "planning" /\ locks'[c] = locks[c]
          /\ req[c] \in Plans /\ wants'[c] = PlanLocks(req[c].ask)
      BY <2>4 DEF LoadForUpdate, At, TypeInv, TypeOK, RequestsOK, Plans, Moves
    <3>2. \A h \in locks[c] : h[1] = "row"
      BY <1>2, <3>1 DEF Stage
    <3>3. \A l, m \in wants'[c] : /\ l # m => Before(l, m) \/ Before(m, l)
                                  /\ l[1] \in {"customer", "staff", "capacity"}
      BY <3>1, PlanLocksOrdered
    <3> QED
      BY <3>1, <3>2, <3>3 DEF InOrder, Stage, Before, Rank
  <2>5. CASE LoadForMove(c)
    <3>1. /\ pc'[c] = "ready" /\ wants'[c] = {} /\ locks'[c] = locks[c]
      BY <2>5 DEF LoadForMove, At, TypeInv, TypeOK
    <3> QED
      BY <3>1 DEF InOrder, Stage
  <2>6. ASSUME NEW s \in Staff, Plan(c, s) PROVE InOrder(c)' /\ Stage(c)'
    <3>1. PICK u \in PickUnit(c) :
            /\ pc[c] = "planning" /\ pc'[c] = "planned" /\ locks'[c] = locks[c]
            /\ wants'[c] = WriteLocks(req[c].ask, u)
      BY <2>6 DEF Plan, At, TypeInv, TypeOK
    <3>2. \A h \in locks[c] : h[1] \in {"row", "customer", "staff", "capacity"}
      BY <1>2, <3>1 DEF Stage
    <3>3. \A l, m \in wants'[c] : /\ l # m => Before(l, m) \/ Before(m, l)
                                  /\ l[1] \in {"unit", "seats"}
      BY <3>1, WriteLocksOrdered
    <3> QED
      BY <3>1, <3>2, <3>3 DEF InOrder, Stage, Before, Rank
  <2>7. CASE CheckSeats(c)
    <3>1. /\ pc'[c] = "ready" /\ wants'[c] = {} /\ locks'[c] = locks[c]
      BY <2>7 DEF CheckSeats, At, TypeInv, TypeOK
    <3> QED
      BY <3>1 DEF InOrder, Stage
  <2>8. CASE WriteRow(c) \/ WriteClaim(c)
    <3>1. pc'[c] \in {"placed", "claimed"} /\ wants'[c] = {} /\ locks'[c] = locks[c]
      BY <2>8 DEF WriteRow, WriteClaim, At, TypeInv, TypeOK
    <3> QED
      BY <3>1 DEF InOrder, Stage
  <2>10. CASE WriteStats(c)
    <3>1. /\ pc'[c] = "written" /\ locks'[c] = locks[c]
          /\ wants'[c] \subseteq {"customer"} \X {draft[c].customer}
      BY <2>10 DEF WriteStats, At, CustomerLock, TypeInv, TypeOK
    <3>2. \A l \in wants'[c] : l = <<"customer", draft[c].customer>>
      BY <3>1
    <3> QED
      BY <3>1, <3>2 DEF InOrder, Stage
  <2>9. CASE Commit(c) \/ Refuse(c) \/ Rollback(c)
    <3>1. pc'[c] = "idle" /\ wants'[c] = {} /\ locks'[c] = {}
      BY <2>9 DEF Commit, Refuse, Rollback, End, TypeInv, TypeOK
    <3> QED
      BY <3>1 DEF InOrder, Stage
  <2> QED
    BY <2>1, <2>2, <2>3, <2>4, <2>5, <2>6, <2>7, <2>8, <2>9, <2>10 DEF Begin, Step
<1> QED
  BY <1>1, <1>3 DEF OrderInv

(* A finite set has a last member in every strict order.                    *)
LEMMA LastExists ==
  ASSUME NEW S, IsFiniteSet(S), S # {}, NEW R,
         \A x \in S : <<x, x>> \notin R,
         \A x, y, z \in S : <<x, y>> \in R /\ <<y, z>> \in R => <<x, z>> \in R
  PROVE  \E m \in S : \A x \in S : <<m, x>> \notin R
<1> DEFINE G == {T \in SUBSET S : T # {} => \E m \in T : \A x \in T : <<m, x>> \notin R}
<1>1. {} \in G
  OBVIOUS
<1>2. ASSUME NEW T \in SUBSET S, T # {}, \A x \in T : T \ {x} \in G PROVE T \in G
  <2>1. PICK y \in T : TRUE
    BY <1>2
  <2>2. T \ {y} \in G
    BY <1>2, <2>1
  <2>3. CASE T \ {y} = {}
    <3>1. \A x \in T : <<y, x>> \notin R
      BY <2>1, <2>3
    <3> QED
      BY <2>1, <3>1
  <2>4. CASE T \ {y} # {}
    <3>1. PICK m \in T \ {y} : \A x \in T \ {y} : <<m, x>> \notin R
      BY <2>2, <2>4
    <3>2. CASE <<m, y>> \in R
      <4>1. \A x \in T : <<y, x>> \notin R
        BY <2>1, <3>1, <3>2
      <4> QED
        BY <2>1, <4>1
    <3>3. CASE <<m, y>> \notin R
      <4>1. \A x \in T : <<m, x>> \notin R
        BY <3>1, <3>3
      <4> QED
        BY <3>1, <4>1
    <3> QED
      BY <3>2, <3>3
  <2> QED
    BY <2>3, <2>4
<1>3. \A T \in SUBSET S : T \in G
  <2> HIDE DEF G
  <2> QED
    BY <1>1, <1>2, SubsetInduction
<1> QED
  BY <1>3

(* Who has chosen a unit holds its lock when it writes.                     *)
UnitHeld(c) ==
  pc[c] \in Planned /\ req[c].kind # "move" /\ draft[c].unit # NoUnit =>
    <<"unit", draft[c].unit>> \in
       (IF pc[c] = "planned" THEN wants[c] \cup locks[c] ELSE locks[c])

UnitInv == \A c \in Client : UnitHeld(c)

LEMMA UnitInit == Init => UnitInv
BY DEF Init, UnitInv, UnitHeld, Planned

LEMMA UnitStep == TypeInv /\ UnitInv /\ [Next]_vars => UnitInv'
<1> SUFFICES ASSUME TypeInv, UnitInv, [Next]_vars PROVE UnitInv'
  OBVIOUS
<1>0. CASE UNCHANGED vars
  BY <1>0 DEF vars, UnitInv, UnitHeld
<1> SUFFICES ASSUME NEW c \in Client, Begin(c) \/ Step(c) \/ Rollback(c) PROVE UnitInv'
  BY <1>0 DEF Next
<1>1. ASSUME NEW d \in Client \ {c} PROVE UnitHeld(d)'
  BY OthersStay DEF UnitInv, UnitHeld
<1>2. UnitHeld(c)'
  <2>0. UnitHeld(c)
    BY DEF UnitInv
  <2>1. CASE Begin(c) \/ LoadForUpdate(c) \/ LoadForMove(c)
    BY <2>1 DEF Begin, Create, Open, Start, LoadForUpdate, LoadForMove, UnitHeld, Planned,
                TypeInv, TypeOK
  <2>2. CASE \E l \in wants[c] : Acquire(c, l)
    BY <2>0, <2>2 DEF Acquire, UnitHeld, TypeInv, TypeOK
  <2>3. ASSUME NEW s \in Staff, Plan(c, s) PROVE UnitHeld(c)'
    <3>1. /\ pc'[c] = "planned" /\ req' = req /\ draft[c] \in Rows
      BY <2>3 DEF Plan, At, TypeInv, TypeOK, RequestsOK, Loaded
    <3>2. PICK l \in First(FreeLanes(c, s)), u \in PickUnit(c) :
            /\ draft' = [draft EXCEPT ![c] =
                           [@ EXCEPT !.staff = s, !.lane = l,
                                     !.slot = req[c].ask.slot, !.unit = u, !.claim = TRUE,
                                     !.passed = {"lane"} \cup
                                       (IF req[c].ask.channel = "online" THEN {"capacity"}
                                        ELSE {})]]
            /\ wants' = [wants EXCEPT ![c] = WriteLocks(req[c].ask, u)]
      BY <2>3, Zenon DEF Plan
    <3>3. draft'[c].unit = u /\ wants'[c] = WriteLocks(req[c].ask, u)
      BY <3>1, <3>2 DEF Rows, TypeInv, TypeOK
    <3> QED
      BY <3>1, <3>3 DEF UnitHeld, WriteLocks
  <2>4. CASE CheckSeats(c)
    <3>1. /\ pc[c] = "planned" /\ pc'[c] = "ready" /\ wants[c] = {} /\ locks' = locks /\ req' = req
          /\ draft[c] \in Rows
          /\ draft'[c] = [draft[c] EXCEPT !.passed = draft[c].passed \cup
                            (IF Seated(req[c].ask) THEN {"seats"} ELSE {})]
      BY <2>4 DEF CheckSeats, At, TypeInv, TypeOK, RequestsOK, Loaded, Planned
    <3>2. draft'[c].unit = draft[c].unit
      BY <3>1 DEF Rows
    <3> QED
      BY <2>0, <3>1, <3>2 DEF UnitHeld, Planned
  <2>5. CASE Writes(c)
    <3>1. /\ pc[c] \in {"ready", "placed", "claimed"} /\ pc'[c] \in {"placed", "claimed", "written"}
          /\ locks' = locks /\ req' = req /\ draft' = draft
      BY <2>5 DEF Writes, WriteRow, WriteClaim, WriteStats, At, TypeInv, TypeOK
    <3> QED
      BY <2>0, <3>1 DEF UnitHeld, Planned
  <2>6. CASE Commit(c) \/ Refuse(c) \/ Rollback(c)
    BY <2>6 DEF Commit, Refuse, Rollback, End, UnitHeld, Planned, TypeInv, TypeOK
  <2> QED
    BY <2>1, <2>2, <2>3, <2>4, <2>5, <2>6 DEF Step, Writes
<1> QED
  BY <1>1, <1>2 DEF UnitInv

(* Plan c was made before the row that d now edits was committed: it would  *)
(* have found the lane or the unit taken.                                   *)
Overtaken(c, d) ==
  /\ c # d
  /\ pc[c] \in Planned /\ req[c].kind # "move"
  /\ pc[d] # "idle" /\ req[d].kind = "update"
  /\ LaneClash(draft[c], appt[req[d].appt]) \/ UnitClash(draft[c], appt[req[d].appt])

(* So plans are overtaken in the order they were made in, never in a circle.*)
OvertakenInOrder ==
  \A C \in (SUBSET Client) \ {{}} : ~\A c \in C : \E d \in C : Overtaken(c, d)

LEMMA OvertakenStep ==
  TypeInv /\ LockInv /\ OvertakenInOrder /\ [Next]_vars => OvertakenInOrder'
<1> SUFFICES ASSUME TypeInv, LockInv, OvertakenInOrder, [Next]_vars,
                    NEW C \in (SUBSET Client) \ {{}},
                    \A c \in C : \E d \in C : Overtaken(c, d)'
             PROVE  FALSE
  BY DEF OvertakenInOrder
<1>0. CASE UNCHANGED vars
  BY <1>0 DEF vars, OvertakenInOrder, Overtaken
<1> SUFFICES ASSUME NEW x \in Client, Begin(x) \/ Step(x) \/ Rollback(x) PROVE FALSE
  BY <1>0 DEF Next
<1>1. \A c \in C : pc'[c] \in Planned /\ req'[c].kind # "move"
  BY DEF Overtaken
<1>2. \A d \in Client \ {x} : pc'[d] = pc[d] /\ req'[d] = req[d] /\ draft'[d] = draft[d]
  BY OthersStay
(* What another member is going to replace is what it was.                  *)
<1>3. \A d \in C \ {x} : /\ pc[d] \in Loaded
                         /\ appt'[req'[d].appt] = appt[req[d].appt]
  <2> SUFFICES ASSUME NEW d \in C \ {x}
               PROVE  pc[d] \in Loaded /\ appt'[req'[d].appt] = appt[req[d].appt]
    OBVIOUS
  <2>1. pc[d] \in Loaded
    BY <1>1, <1>2 DEF Loaded
  <2> QED
    BY <1>2, <2>1, ReadRowsStay
<1>4. CASE x \notin C
  <2>1. \A c, d \in C : Overtaken(c, d)' => Overtaken(c, d)
    BY <1>2, <1>3, <1>4 DEF Overtaken
  <2> QED
    BY <2>1 DEF OvertakenInOrder
<1>5. CASE x \in C /\ \E s \in Staff : Plan(x, s)
  <2>1. PICK s \in Staff : Plan(x, s)
    BY <1>5
  <2>2. PICK d \in C : Overtaken(x, d)'
    BY <1>5
  <2>3. /\ d \in C \ {x} /\ pc[d] \in Loaded /\ pc[x] = "planning" /\ pc[x] \in Loaded
        /\ appt' = appt /\ req' = req /\ draft[x] \in Rows
    BY <1>3, <2>1, <2>2 DEF Overtaken, Plan, At, Loaded, TypeInv, RequestsOK
  <2>4. req[d].appt # req[x].appt /\ req[d].appt \in Appt
    BY <2>3, DistinctRows DEF Loaded, Planned, TypeInv, RequestsOK, Plans, Moves
  <2>5. PICK l \in First(FreeLanes(x, s)), u \in PickUnit(x) :
            draft' = [draft EXCEPT ![x] =
                           [@ EXCEPT !.staff = s, !.lane = l,
                                     !.slot = req[x].ask.slot, !.unit = u, !.claim = TRUE,
                                     !.passed = {"lane"} \cup
                                       (IF req[x].ask.channel = "online" THEN {"capacity"}
                                        ELSE {})]]
    BY <2>1, Zenon DEF Plan
  <2>6. /\ draft'[x].staff = s /\ draft'[x].lane = l /\ draft'[x].unit = u
        /\ draft'[x].slot = req[x].ask.slot
    BY <2>3, <2>5 DEF Rows, TypeInv, TypeOK
  <2> DEFINE q == appt[req[d].appt]
  <2>7. LaneClash(draft'[x], q) \/ UnitClash(draft'[x], q)
    BY <2>2, <2>3 DEF Overtaken
  <2>8. q # NoRow /\ req[d].appt \in Others(x)
    BY <2>4, <2>7, NoRowNeverClashes DEF Others
  <2>9. ~LaneClash(draft'[x], q)
    BY <2>6, <2>8 DEF First, FreeLanes, LaneClash
  <2>10. ~UnitClash(draft'[x], q)
    <3>1. CASE u = NoUnit
      BY <2>6, <3>1 DEF UnitClash, Claims
    <3>2. CASE u # NoUnit
      <4>1. u \in FreeUnits(x)
        BY <3>2 DEF PickUnit, First
      <4> QED
        BY <2>6, <2>8, <4>1 DEF FreeUnits, UnitClash
    <3> QED
      BY <3>1, <3>2
  <2> QED
    BY <2>7, <2>9, <2>10
<1>6. CASE x \in C /\ ~\E s \in Staff : Plan(x, s)
  <2>1. /\ pc[x] \in Planned /\ req' = req /\ appt' = appt
        /\ \A q : /\ LaneClash(draft'[x], q) <=> LaneClash(draft[x], q)
                  /\ UnitClash(draft'[x], q) <=> UnitClash(draft[x], q)
    <3>0. pc'[x] \in Planned /\ req'[x].kind # "move"
      BY <1>1, <1>6
    <3>1. CASE Begin(x) \/ LoadForUpdate(x) \/ LoadForMove(x)
      BY <3>0, <3>1 DEF Begin, Create, Open, Start, LoadForUpdate, LoadForMove, Planned,
                        TypeInv, TypeOK
    <3>2. CASE (\E l \in wants[x] : Acquire(x, l)) \/ Writes(x)
      BY <3>0, <3>2 DEF Acquire, Writes, WriteRow, WriteClaim, WriteStats, At, Planned
    <3>3. CASE CheckSeats(x)
      <4>1. /\ pc[x] = "planned" /\ req' = req /\ appt' = appt /\ draft[x] \in Rows
            /\ draft'[x] = [draft[x] EXCEPT !.passed = draft[x].passed \cup
                              (IF Seated(req[x].ask) THEN {"seats"} ELSE {})]
        BY <3>3 DEF CheckSeats, At, RequestsOK, Loaded, Planned, TypeInv, TypeOK
      <4>2. /\ draft'[x].staff = draft[x].staff /\ draft'[x].lane = draft[x].lane
            /\ draft'[x].slot = draft[x].slot /\ draft'[x].status = draft[x].status
            /\ draft'[x].unit = draft[x].unit /\ draft'[x].claim = draft[x].claim
            /\ draft'[x] # NoRow /\ draft[x] # NoRow
        BY <4>1, NoRowFacts DEF Rows, NoRow
      <4> QED
        BY <4>1, <4>2 DEF LaneClash, UnitClash, Claims, Live, Planned
    <3>4. CASE Commit(x) \/ Refuse(x) \/ Rollback(x)
      BY <3>0, <3>4 DEF Commit, Refuse, Rollback, End, Planned, TypeInv, TypeOK
    <3> QED
      BY <1>6, <3>1, <3>2, <3>3, <3>4 DEF Step, Writes
  <2>2. \A c, d \in C : Overtaken(c, d)' => Overtaken(c, d)
    <3> SUFFICES ASSUME NEW c \in C, NEW d \in C, Overtaken(c, d)' PROVE Overtaken(c, d)
      OBVIOUS
    <3>1. pc[c] \in Planned /\ pc[d] \in Planned
      BY <1>1, <1>2, <2>1
    <3>2. \A q : /\ LaneClash(draft'[c], q) <=> LaneClash(draft[c], q)
                 /\ UnitClash(draft'[c], q) <=> UnitClash(draft[c], q)
      BY <1>2, <2>1
    <3> QED
      BY <2>1, <3>1, <3>2 DEF Overtaken, Planned
  <2> QED
    BY <2>2 DEF OvertakenInOrder
<1> QED
  BY <1>4, <1>5, <1>6

WaitInv == OrderInv /\ UnitInv /\ OvertakenInOrder

LEMMA Waiting == Spec => []WaitInv
<1>1. Init => WaitInv
  BY OrderInit, UnitInit DEF Init, WaitInv, OvertakenInOrder, Overtaken, Planned
<1>2. Inv /\ WaitInv /\ [Next]_vars => WaitInv'
  BY OrderStep, UnitStep, OvertakenStep DEF Inv, WaitInv
<1> QED
  BY Invariant, <1>1, <1>2, PTL DEF Spec

(* A transition of a checked booking never waits for a checked write.       *)
LEMMA CheckedMoveNeverBlocked ==
  ASSUME Inv, PlanStaysFree, NEW c \in Client, NEW d \in Client,
         pc[c] \in Placed, req[c].kind = "move", ~Unchecked(c), ~Unchecked(d)
  PROVE  ~Blocked(c, d)
<1> USE DEF Inv, TypeInv, TypeOK
<1> DEFINE row == appt[req[c].appt]
<1>1. /\ req[c] \in Moves /\ Moving(c) /\ row \in Rows /\ "lane" \in draft[c].passed
      /\ pc[c] \in Loaded /\ req[c].appt \in Appt /\ RowFine(row)
  <2>1. pc[c] \in Loaded /\ pc[c] \in Planned /\ pc[c] # "idle"
    BY DEF Placed, Loaded, Planned
  <2>2. req[c] \in Moves /\ Moving(c) /\ row # NoRow
    BY <2>1 DEF RequestsOK, Plans, RowInv, DraftFine
  <2>3. req[c].appt \in Appt
    BY <2>2 DEF Moves
  <2> QED
    BY <2>1, <2>2, <2>3 DEF RowInv, Unchecked
<1>2. /\ draft[c].staff = row.staff /\ draft[c].lane = row.lane /\ draft[c].slot = row.slot
      /\ draft[c].claim = (req[c].to \in Active /\ (row.claim \/ ~Live(row)))
      /\ draft[c].passed = (IF Live(row) THEN row.passed ELSE {})
  BY <1>1, MovedType DEF Moving, Moves
<1>3. Live(row) /\ "lane" \in row.passed /\ row.claim
  BY <1>1, <1>2 DEF RowFine
<1>4. ~UnitWait(c, d)
  <2>1. Reclaims(c) => ~draft[c].claim
    BY <1>1, <1>2, <1>3 DEF Reclaims, Rows
  <2> QED
    BY <2>1 DEF UnitWait, UnitClash, Claims
<1>5. ASSUME LaneWait(c, d) PROVE FALSE
  <2>1. /\ d # c /\ pc[d] \in Placed /\ pc[d] \in Planned /\ pc[d] \in Loaded
        /\ "lane" \in draft[d].passed
    BY <1>5 DEF LaneWait, Placed, Planned, Loaded, Unchecked
  <2>2. req[c].appt # req[d].appt /\ req[d].appt \in Appt
    BY <1>1, <2>1, DistinctRows DEF RequestsOK, Plans, Moves, Loaded, Planned
  <2>3. \A q : LaneClash(draft[c], q) => LaneClash(row, q)
    BY <1>2, <1>3 DEF LaneClash
  <2>4. ~LaneClash(row, appt[req[d].appt])
    BY <1>1, <2>2 DEF ClashInv
  <2>5. LaneClash(row, draft[d])
    BY <1>5, <2>3, <2>4 DEF LaneWait
  <2>6. CASE req[d].kind = "move"
    <3>1. req[d] \in Moves /\ Moving(d) /\ appt[req[d].appt] \in Rows
      BY <2>1, <2>2, <2>6 DEF RequestsOK, Plans, RowInv, DraftFine, Loaded, Planned
    <3>2. /\ draft[d].staff = appt[req[d].appt].staff /\ draft[d].lane = appt[req[d].appt].lane
          /\ draft[d].slot = appt[req[d].appt].slot
          /\ draft[d].passed = (IF Live(appt[req[d].appt]) THEN appt[req[d].appt].passed ELSE {})
      BY <3>1, MovedType DEF Moving, Moves
    <3> QED
      BY <2>1, <2>4, <2>5, <3>2 DEF LaneClash
  <2>7. CASE req[d].kind # "move"
    <3>1. req[c].appt \in Others(d)
      BY <1>1, <2>2, NoRowFacts DEF Others
    <3>2. LaneClash(draft[d], row)
      BY <2>5, ClashSymmetric
    <3> QED
      BY <1>3, <2>1, <2>7, <3>1, <3>2 DEF PlanStaysFree
  <2> QED
    BY <2>6, <2>7
<1> QED
  BY <1>4, <1>5 DEF Blocked

(* A plan waits only for a transaction that edits a row it was overtaken by.*)
LEMMA BlockedPlanOvertaken ==
  ASSUME Inv, UnitInv, NEW c \in Client, NEW d \in Client, Blocked(c, d),
         req[c].kind # "move", req[d].kind # "move"
  PROVE  Overtaken(c, d)
<1>1. /\ c # d /\ pc[c] \in Planned /\ pc[d] \in Planned
      /\ LaneWait(c, d) => pc[c] = "placed"
      /\ UnitWait(c, d) => pc[c] = "claimed" /\ pc[d] \in Placed
  BY DEF Blocked, LaneWait, UnitWait, Unclaims, Placed, Planned
<1>2. locks[c] \cap locks[d] = {}
  BY <1>1 DEF Inv, LockInv, Exclusive
<1>3. ~LaneClash(draft[c], draft[d])
  BY <1>1, <1>2, PlanHoldsStaff DEF LaneClash
<1>4. ASSUME UnitWait(c, d) PROVE ~UnitClash(draft[c], draft[d])
  BY <1>1, <1>2, <1>4 DEF UnitInv, UnitHeld, UnitClash, Claims, Placed
<1>5. LaneClash(draft[c], appt[req[d].appt]) \/ UnitClash(draft[c], appt[req[d].appt])
  BY <1>3, <1>4 DEF Blocked, LaneWait, UnitWait
<1>6. req[d].kind = "update"
  <2>1. Held(d) /\ req[d].kind \in {"create", "update"}
    BY <1>1 DEF Inv, LockInv, TypeInv, RequestsOK, Plans, Moves, Planned
  <2>2. req[d].kind # "create"
    BY <1>5, <2>1, NoRowNeverClashes DEF Held, RowNew
  <2> QED
    BY <2>1, <2>2
<1> QED
  BY <1>1, <1>5, <1>6 DEF Overtaken, Planned

LEMMA OrderExcludesCircles ==
  ASSUME IsFiniteSet(Client), Inv, PlanStaysFree, WaitInv
  PROVE  NoCheckedCircle
<1> SUFFICES ASSUME NEW C \in (SUBSET Client) \ {{}}, Circle(C),
                    \A c \in C : ~AwaitsCustomer(c) /\ ~Unchecked(c)
             PROVE  FALSE
  BY DEF NoCheckedCircle
<1>1. \A c \in C : NextLock(c) \subseteq wants[c] /\ wants[c] \subseteq Lock
  BY DEF NextLock, Inv, TypeInv, TypeOK
<1>2. \A c \in C : InOrder(c) /\ Stage(c)
  BY DEF WaitInv, OrderInv
<1>3. \A c \in C : \A l \in NextLock(c) : l[1] # "customer"
  BY DEF AwaitsCustomer
<1>4. \A c, d \in C : Blocked(c, d) => pc[c] \in {"placed", "claimed"} /\ pc[d] \in Placed
  BY DEF Blocked, LaneWait, UnitWait, Unclaims, Placed
(* Who waits for a constraint waits for another that does ...               *)
<1> DEFINE W == {c \in C : pc[c] \in {"placed", "claimed"}}
<1>5. ASSUME NEW c \in W PROVE \E d \in W : Blocked(c, d)
  <2>1. PICK d \in C : WaitsFor(c, d)
    BY DEF Circle
  <2>2. wants[c] = {}
    BY <1>2 DEF Stage
  <2>3. Blocked(c, d)
    BY <1>1, <2>1, <2>2 DEF WaitsFor
  <2>4. pc[d] # "written"
    <3> SUFFICES ASSUME pc[d] = "written" PROVE FALSE
      OBVIOUS
    <3>1. PICK e \in C : WaitsFor(d, e)
      BY DEF Circle
    <3>2. \E l \in NextLock(d) : l \in locks[e]
      BY <1>4, <3>1 DEF WaitsFor
    <3> QED
      BY <1>1, <1>2, <1>3, <3>2 DEF Stage
  <2>5. d \in W
    BY <1>4, <2>3, <2>4 DEF Placed
  <2> QED
    BY <2>3, <2>5
(* ... along the order the plans were made in, which has no circle.         *)
<1>6. W = {}
  <2> SUFFICES ASSUME W # {} PROVE FALSE
    OBVIOUS
  <2>1. \A c \in W : c \in C /\ c \in Client /\ pc[c] \in Placed
    BY DEF Placed
  <2> HIDE DEF W
  <2>2. \A c \in W : req[c].kind # "move"
    BY <1>5, <2>1, CheckedMoveNeverBlocked
  <2>3. \A c \in W : \E d \in W : Overtaken(c, d)
    BY <1>5, <2>1, <2>2, BlockedPlanOvertaken DEF WaitInv
  <2>4. W \in (SUBSET Client) \ {{}}
    BY <2>1
  <2> QED
    BY <2>3, <2>4 DEF WaitInv, OvertakenInOrder
<1>7. ASSUME NEW c \in C PROVE \E d \in C : \E l \in NextLock(c) : l \in locks[d]
  <2>1. PICK d \in C : WaitsFor(c, d)
    BY DEF Circle
  <2>2. ~Blocked(c, d)
    BY <1>4, <1>6
  <2> QED
    BY <2>1, <2>2 DEF WaitsFor
<1> HIDE DEF W
(* Along the circle the locks waited for go up ...                          *)
<1> DEFINE R == {cd \in C \X C : \E l \in NextLock(cd[1]), m \in NextLock(cd[2]) : Before(l, m)}
<1>8. ASSUME NEW c \in C PROVE \E d \in C : <<c, d>> \in R
  <2>1. PICK d \in C : \E l \in NextLock(c) : l \in locks[d]
    BY <1>7
  <2>2. PICK l \in NextLock(c) : l \in locks[d]
    BY <2>1
  <2>3. PICK m \in NextLock(d) : TRUE
    BY <1>7
  <2>4. Before(l, m)
    BY <1>1, <1>2, <1>3, <2>2, <2>3 DEF InOrder
  <2>5. <<c, d>> \in C \X C /\ <<c, d>>[1] = c /\ <<c, d>>[2] = d
    OBVIOUS
  <2> QED
    BY <2>2, <2>3, <2>4, <2>5
(* ... in a strict order, and cannot do so for ever.                        *)
<1>9. ASSUME NEW c \in C, NEW l \in NextLock(c), NEW m \in NextLock(c) PROVE l = m
  BY <1>1, <1>2 DEF NextLock, InOrder
<1>10. \A c, d \in C : <<c, d>> \in R <=> \E l \in NextLock(c), m \in NextLock(d) : Before(l, m)
  OBVIOUS
<1> HIDE DEF R
<1>11. ASSUME NEW c \in C, <<c, c>> \in R PROVE FALSE
  <2>1. PICK l \in NextLock(c), m \in NextLock(c) : Before(l, m)
    BY <1>10, <1>11
  <2>2. l \in Lock /\ l = m
    BY <1>1, <1>9
  <2> QED
    BY <2>1, <2>2, BeforeIsStrict
<1>12. \A c, d, e \in C : <<c, d>> \in R /\ <<d, e>> \in R => <<c, e>> \in R
  <2> SUFFICES ASSUME NEW c \in C, NEW d \in C, NEW e \in C, <<c, d>> \in R, <<d, e>> \in R
               PROVE  <<c, e>> \in R
    OBVIOUS
  <2>1. PICK l \in NextLock(c), m \in NextLock(d) : Before(l, m)
    BY <1>10
  <2>2. PICK n \in NextLock(d), o \in NextLock(e) : Before(n, o)
    BY <1>10
  <2>3. m = n /\ l \in Lock /\ m \in Lock /\ o \in Lock
    BY <1>1, <1>9
  <2>4. Before(l, o)
    BY <2>1, <2>2, <2>3, BeforeIsStrict
  <2> QED
    BY <1>10, <2>4
<1>13. IsFiniteSet(C) /\ C # {}
  BY FS_Subset
<1>14. \E c \in C : \A d \in C : <<c, d>> \notin R
  BY <1>11, <1>12, <1>13, LastExists
<1> QED
  BY <1>8, <1>14

(* "In a stable order to avoid deadlocks" (service.ts 102): whatever the     *)
(* number of connections, staff and units, transactions that have checked   *)
(* what they write wait in a circle only through the row of a customer,     *)
(* over locks, deleted, replaced and inserted rows together.                *)
THEOREM CheckedCirclesExcluded ==
  ASSUME IsFiniteSet(Client) PROVE Spec => []NoCheckedCircle
<1>1. Inv /\ PlanStaysFree /\ WaitInv => NoCheckedCircle
  BY OrderExcludesCircles
<1> QED
  BY Invariant, PlanIsReserved, Waiting, <1>1, PTL

(* Where no booking is restored, every row has passed its overlap check.    *)
AllChecked ==
  /\ \A a \in Appt : appt[a] # NoRow => "lane" \in appt[a].passed
  /\ \A c \in Client : /\ pc[c] # "idle" /\ req[c].kind = "move" => req[c].to \in Targets
                       /\ pc[c] \in Planned => "lane" \in draft[c].passed

LEMMA CheckedStep ==
  ASSUME "confirmed" \notin Targets
  PROVE  Inv /\ AllChecked /\ [Next]_vars => AllChecked'
<1> SUFFICES ASSUME Inv, AllChecked, [Next]_vars PROVE AllChecked'
  OBVIOUS
<1> USE DEF Inv, TypeInv, TypeOK
<1>0. CASE UNCHANGED vars
  BY <1>0 DEF vars, AllChecked
<1> SUFFICES ASSUME NEW c \in Client, Begin(c) \/ Step(c) \/ Rollback(c) PROVE AllChecked'
  BY <1>0 DEF Next
<1>1. ASSUME NEW a \in Appt, appt'[a] # NoRow PROVE "lane" \in appt'[a].passed
  <2>1. CASE Commit(c)
    BY <1>1, <2>1 DEF Commit, At, AllChecked, Planned
  <2>2. CASE ~Commit(c)
    BY <1>1, <2>2, OnlyCommitWrites DEF AllChecked
  <2> QED
    BY <2>1, <2>2
<1>2. ASSUME NEW d \in Client \ {c}
      PROVE  /\ pc'[d] # "idle" /\ req'[d].kind = "move" => req'[d].to \in Targets
             /\ pc'[d] \in Planned => "lane" \in draft'[d].passed
  BY OthersStay DEF AllChecked
<1>3. /\ pc'[c] # "idle" /\ req'[c].kind = "move" => req'[c].to \in Targets
      /\ pc'[c] \in Planned => "lane" \in draft'[c].passed
  <2>0. /\ pc[c] # "idle" /\ req[c].kind = "move" => req[c].to \in Targets
        /\ pc[c] \in Planned => "lane" \in draft[c].passed
    BY DEF AllChecked
  <2>1. CASE Begin(c)
    BY <2>1 DEF Begin, Create, Open, Start, Planned
  <2>2. CASE (\E l \in wants[c] : Acquire(c, l)) \/ LoadForUpdate(c) \/ Writes(c)
    BY <2>0, <2>2 DEF Acquire, LoadForUpdate, Writes, WriteRow, WriteClaim, WriteStats, At,
                      Planned
  <2>3. CASE LoadForMove(c)
    <3>1. /\ req' = req /\ req[c].kind = "move" /\ pc[c] = "loading"
          /\ Allowed(req[c], appt[req[c].appt])
          /\ draft'[c] = Moved(appt[req[c].appt], req[c].to)
      BY <2>3 DEF LoadForMove, At
    <3>2. req[c] \in Moves /\ req[c].appt \in Appt /\ appt[req[c].appt] \in Rows
      BY <3>1 DEF RequestsOK, Plans, Moves
    <3>3. Live(appt[req[c].appt])
      <4>1. req[c].to \in Transitions[appt[req[c].appt].status] /\ req[c].to # "confirmed"
        BY <2>0, <3>1 DEF Allowed
      <4>2. Transitions["cancelled"] = {"confirmed"} /\ Transitions["no_show"] = {"confirmed"}
        BY DEF Transitions
      <4>3. appt[req[c].appt].status \in Status
        BY <3>2 DEF Rows
      <4> QED
        BY <4>1, <4>2, <4>3 DEF Live, Active
    <3>4. draft'[c].passed = appt[req[c].appt].passed
      BY <3>1, <3>2, <3>3, MovedType DEF Moves
    <3>5. "lane" \in appt[req[c].appt].passed
      BY <3>2, NoRowFacts DEF AllChecked
    <3> QED
      BY <2>0, <3>1, <3>4, <3>5
  <2>4. ASSUME NEW s \in Staff, Plan(c, s)
        PROVE  /\ pc'[c] # "idle" /\ req'[c].kind = "move" => req'[c].to \in Targets
               /\ pc'[c] \in Planned => "lane" \in draft'[c].passed
    <3>1. /\ pc[c] = "planning" /\ req' = req /\ draft[c] \in Rows
      BY <2>4 DEF Plan, At, RequestsOK, Loaded
    <3>2. PICK l \in First(FreeLanes(c, s)), u \in PickUnit(c) :
            draft' = [draft EXCEPT ![c] =
                           [@ EXCEPT !.staff = s, !.lane = l,
                                     !.slot = req[c].ask.slot, !.unit = u, !.claim = TRUE,
                                     !.passed = {"lane"} \cup
                                       (IF req[c].ask.channel = "online" THEN {"capacity"}
                                        ELSE {})]]
      BY <2>4, Zenon DEF Plan
    <3>3. "lane" \in draft'[c].passed
      BY <3>1, <3>2 DEF Rows
    <3> QED
      BY <2>0, <3>1, <3>3
  <2>5. CASE CheckSeats(c)
    <3>1. /\ pc[c] = "planned" /\ req' = req /\ draft[c] \in Rows
          /\ draft'[c] = [draft[c] EXCEPT !.passed = draft[c].passed \cup
                            (IF Seated(req[c].ask) THEN {"seats"} ELSE {})]
      BY <2>5 DEF CheckSeats, At, RequestsOK, Loaded, Planned
    <3>2. draft[c].passed \subseteq draft'[c].passed
      BY <3>1 DEF Rows
    <3> QED
      BY <2>0, <3>1, <3>2 DEF Planned
  <2>6. CASE Commit(c) \/ Refuse(c) \/ Rollback(c)
    BY <2>6 DEF Commit, Refuse, Rollback, End, Planned
  <2> QED
    BY <2>1, <2>2, <2>3, <2>4, <2>5, <2>6 DEF Step, Writes
<1> QED
  BY <1>1, <1>2, <1>3 DEF AllChecked

(* With neither rows of customers nor restored bookings no transactions     *)
(* wait for each other in a circle at all.                                  *)
THEOREM NoCircleWithoutRestores ==
  ASSUME IsFiniteSet(Client), Customer = {}, "confirmed" \notin Targets
  PROVE  Spec => []NoCircle
<1>1. Init => AllChecked
  BY DEF Init, AllChecked, Planned
<1>2. Inv /\ AllChecked /\ [Next]_vars => AllChecked'
  BY CheckedStep
<1>3. Inv /\ AllChecked /\ NoCheckedCircle => NoCircle
  <2> SUFFICES ASSUME Inv, AllChecked, NEW c \in Client
               PROVE  ~AwaitsCustomer(c) /\ ~Unchecked(c)
    BY DEF NoCheckedCircle, NoCircle
  <2>1. ~AwaitsCustomer(c)
    BY DEF AwaitsCustomer, NextLock, Lock, Inv, TypeInv, TypeOK
  <2>2. ~Unchecked(c)
    BY DEF AllChecked, Unchecked, Placed, Planned
  <2> QED
    BY <2>1, <2>2
<1>4. Spec => []NoCheckedCircle
  BY CheckedCirclesExcluded
<1> QED
  BY Invariant, <1>1, <1>2, <1>3, <1>4, PTL DEF Spec
=============================================================================
