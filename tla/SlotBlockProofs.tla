-------------------------- MODULE SlotBlockProofs --------------------------
(***************************************************************************)
(* Theorems about SlotBlock for any bookings, stylists, times, cells,      *)
(* workers and number of changes and failures: types, the convergence of   *)
(* push jobs, and that the helper puts nothing on sale which the salon     *)
(* itself keeps closed.                                                    *)
(***************************************************************************)
EXTENDS SlotBlock, TLAPS

(***************************************************************************)
(* Types                                                                   *)
(***************************************************************************)

LEMMA SomeSlot == Somebody \in Staff /\ Sometime \in Time
  BY SlotAssumption DEF SlotAssumption, Somebody, Sometime

LEMMA CellsNeeded ==
  ASSUME NEW p \in Staff, NEW t \in Time
  PROVE  Needs(p, t) \subseteq Cell
  BY SlotAssumption DEF SlotAssumption, Needs, Cell

LEMMA RestingTyped ==
  Resting \in [at: {"resting", "planned", "read", "saved"}, tasks: SUBSET Task,
               busy: SUBSET Cell, day: SUBSET Cell, done: [Booking -> SUBSET Cell]]
  BY DEF Resting

LEMMA TriesTyped == 0 \in Tries /\ MaxTries \in Tries /\ \A n \in Tries : Attempt(n) \in Tries
  BY SlotAssumption DEF SlotAssumption, Tries, Attempt

Queues == [Booking -> [Tries -> Nat]]

(* A job more of one booking.                                               *)
LEMMA QueueMore ==
  ASSUME NEW q \in Queues, NEW b \in Booking, NEW n \in Tries
  PROVE  /\ Queue(q, b, n) \in Queues /\ Queue(q, b, n)[b][n] > 0
         /\ \A c \in Booking : c # b => Queue(q, b, n)[c] = q[c]
<1>1. q[b] \in [Tries -> Nat] BY DEF Queues
<1> DEFINE more == [q[b] EXCEPT ![n] = @ + 1]
<1>2. more \in [Tries -> Nat] /\ more[n] > 0 BY <1>1
<1>3. Queue(q, b, n) = [q EXCEPT ![b] = more] BY DEF Queue
<1> HIDE DEF more
<1> QED BY <1>2, <1>3 DEF Queues

LEMMA QueueLess ==
  ASSUME queued \in Queues, NEW b \in Booking, NEW n \in Tries, queued[b][n] > 0
  PROVE  /\ Taking(b, n) \in Queues
         /\ \A c \in Booking : c # b => Taking(b, n)[c] = queued[c]
<1>1. queued[b] \in [Tries -> Nat] BY DEF Queues
<1> DEFINE less == [queued[b] EXCEPT ![n] = @ - 1]
<1>2. less \in [Tries -> Nat] BY <1>1
<1>3. Taking(b, n) = [queued EXCEPT ![b] = less] BY DEF Taking
<1> HIDE DEF less
<1> QED BY <1>2, <1>3 DEF Queues

LEMMA AgainTyped ==
  ASSUME NEW q \in Queues, NEW b \in Booking, NEW n \in Tries, dead \subseteq Booking, Again(q, b, n)
  PROVE  queued' \in Queues /\ dead' \subseteq Booking
BY QueueMore DEF Again

LEMMA BusyCells == ASSUME TypeOK PROVE Busy \subseteq Cell
<1> SUFFICES ASSUME NEW b \in Booking PROVE Needs(appt[b].staff, appt[b].time) \subseteq Cell
  BY DEF Busy
<1>1. appt[b].staff \in Staff /\ appt[b].time \in Time BY DEF TypeOK, Appointment
<1> QED BY <1>1, CellsNeeded

LEMMA ClosingCells == ASSUME TypeOK PROVE Closing \subseteq Cell
<1>1. ASSUME NEW t \in helper.tasks PROVE Needs(t.staff, t.time) \subseteq Cell
  <2>1. t.staff \in Staff /\ t.time \in Time BY DEF TypeOK, Task
  <2> QED BY <2>1, CellsNeeded
<1> QED BY <1>1 DEF Closing, Closes

LEMMA AppliedCells == ASSUME TypeOK PROVE Applied \subseteq Cell
<1>1. \A t \in helper.tasks : t.record \subseteq Cell BY DEF TypeOK, Task
<1>2. Reopening \subseteq Cell BY <1>1 DEF Reopening
<1> QED BY <1>2 DEF Applied, TypeOK

LEMMA ReconciledTyped ==
  ASSUME NEW b \in Booking
  PROVE  ReconcileManualBlock(b) \subseteq BlockState \ {"none"}
  BY DEF ReconcileManualBlock, Wanted, Unwanted, BlockState

LEMMA WrittenTyped ==
  ASSUME TypeOK, NEW x \in Write
  PROVE  Written(x) \in [Booking -> Block]
<1>1. /\ x.of \in Booking /\ x.next \in BlockState /\ x.time \in Time
      /\ block \in [Booking -> Block]
  BY DEF TypeOK, Write
<1>2. block[x.of].time \in Time /\ block[x.of].record \in SUBSET Cell BY <1>1 DEF Block
<1> QED BY <1>1, <1>2 DEF Written, Block

LEMMA ReportedTyped ==
  ASSUME TypeOK, NEW b \in Booking, NEW t \in Task
  PROVE  Reported(b, t) \in Block
<1>1. block[b] \in Block /\ helper.done[b] \in SUBSET Cell BY DEF TypeOK
<1> QED BY <1>1 DEF Reported, Block, BlockState

LEMMA TypesStart == Init => TypeOK
<1> SUFFICES ASSUME Init PROVE TypeOK OBVIOUS
<1>1. 0 \in 0..MaxUpsets BY SlotAssumption DEF SlotAssumption
<1>2. queued \in [Booking -> [Tries -> Nat]] BY DEF Init
<1> QED BY <1>1, <1>2, SomeSlot, RestingTyped DEF Init, TypeOK, Appointment, Block, BlockState

LEMMA TypesStep == TypeOK /\ [Next]_vars => TypeOK'
<1> SUFFICES ASSUME TypeOK, [Next]_vars PROVE TypeOK' OBVIOUS
<1> USE DEF TypeOK
<1>0. Upset => upsets' \in 0..MaxUpsets BY SlotAssumption DEF Upset, SlotAssumption
<1>1. ASSUME NEW b \in Booking PROVE Pushes(b) \in [Booking -> [Tries -> Nat]]
  BY QueueMore, TriesTyped DEF Pushes, Queues
<1>2. ASSUME NEW b \in Booking, NEW p \in Staff, NEW t \in Time, Takes(b, p, t),
             upsets' \in 0..MaxUpsets
      PROVE  TypeOK'
  <2>1. appt' \in [Booking -> Appointment] BY <1>2 DEF Takes, Appointment
  <2>2. had' \in [Booking -> SUBSET Time] /\ odd' \in [Booking -> SUBSET Oddities]
    BY <1>2 DEF Takes, Oddities
  <2> QED BY <2>1, <2>2, <1>1, <1>2 DEF Takes
<1>3. ASSUME NEW b \in Booking, NEW p \in Staff, NEW t \in Time,
             Book(b, p, t) \/ Reschedule(b, p, t)
      PROVE  TypeOK'
  BY <1>0, <1>2, <1>3 DEF Book, Reschedule
<1>4. ASSUME NEW b \in Booking, CallOff(b) PROVE TypeOK'
  <2>1. appt' \in [Booking -> Appointment] BY <1>4 DEF CallOff, Appointment
  <2> QED BY <2>1, <1>0, <1>1, <1>4 DEF CallOff
<1>5. ASSUME NEW b \in Booking, Restore(b) PROVE TypeOK'
  <2>1. appt[b].staff \in Staff /\ appt[b].time \in Time BY DEF Appointment
  <2> QED BY <2>1, <1>0, <1>2, <1>5 DEF Restore
<1>6. ASSUME NEW b \in Booking, CompleteManualBlock(b) PROVE TypeOK'
  <2>1. appt[b].staff \in Staff /\ block[b].time \in Time BY DEF Appointment, Block
  <2>2. Needs(appt[b].staff, block[b].time) \subseteq Cell BY <2>1, CellsNeeded
  <2>3. open' \subseteq Cell BY <2>2, <1>6 DEF CompleteManualBlock
  <2>4. block' \in [Booking -> Block]
    <3>1. ASSUME NEW s \in BlockState PROVE [block[b] EXCEPT !.state = s, !.record = {}] \in Block
      BY DEF Block
    <3>2. "pushed" \in BlockState /\ "removed" \in BlockState BY DEF BlockState
    <3>3. PICK s \in BlockState : block' = [block EXCEPT ![b] = [block[b] EXCEPT !.state = s, !.record = {}]]
      BY <3>2, <1>6 DEF CompleteManualBlock
    <3> QED BY <3>1, <3>3
  <2>5. odd' \in [Booking -> SUBSET Oddities] BY <1>6 DEF CompleteManualBlock, Oddities
  <2> QED BY <2>3, <2>4, <2>5, <1>0, <1>6 DEF CompleteManualBlock
<1>7. ASSUME HandOver PROVE TypeOK'
  <2>1. \A b \in Booking : Queue(queued, b, 0)[b] \in [Tries -> Nat]
    BY QueueMore, TriesTyped DEF Queues
  <2>2. queued' \in [Booking -> [Tries -> Nat]] BY <2>1, <1>7 DEF HandOver
  <2> QED BY <2>2, <1>7 DEF HandOver
<1>8. ASSUME AgentPlan PROVE TypeOK'
  <2> DEFINE tasks == {[of |-> b, state |-> block[b].state, staff |-> appt[b].staff,
                        time |-> block[b].time, record |-> block[b].record] : b \in Requests}
  <2>1. tasks \subseteq Task BY DEF Requests, Task, Block, Appointment
  <2>2. helper' = [Resting EXCEPT !.at = "planned", !.busy = Busy, !.tasks = tasks]
    BY <1>8 DEF AgentPlan
  <2> HIDE DEF tasks
  <2>3. helper' \in [at: {"resting", "planned", "read", "saved"}, tasks: SUBSET Task,
                     busy: SUBSET Cell, day: SUBSET Cell, done: [Booking -> SUBSET Cell]]
    BY <2>1, <2>2, RestingTyped, BusyCells
  <2> QED BY <2>3, <1>8 DEF AgentPlan
<1>9. ASSUME ReadDay PROVE TypeOK'
  BY <1>9 DEF ReadDay
<1>10. ASSUME SaveDay PROVE TypeOK'
  <2>1. PICK f \in Taken : helper' = [helper EXCEPT !.at = "saved", !.day = {}, !.busy = {}, !.done = f]
    BY <1>10 DEF SaveDay
  <2>2. f \in [Booking -> SUBSET Cell]
    <3>1. f \in [Booking -> SUBSET (Closing \cap helper.day)] BY DEF Taken
    <3>2. SUBSET (Closing \cap helper.day) \subseteq SUBSET Cell BY ClosingCells
    <3> QED BY <3>1, <3>2
  <2>3. open' \subseteq Cell BY AppliedCells, <1>10 DEF SaveDay
  <2> QED BY <2>1, <2>2, <2>3, <1>10 DEF SaveDay
<1>11. ASSUME AgentReport PROVE TypeOK'
  <2>1. ASSUME NEW b \in Booking, \E t \in helper.tasks : t.of = b
        PROVE  Reported(b, CHOOSE t \in helper.tasks : t.of = b) \in Block
    <3>1. (CHOOSE t \in helper.tasks : t.of = b) \in helper.tasks BY <2>1
    <3>2. (CHOOSE t \in helper.tasks : t.of = b) \in Task BY <3>1
    <3> QED BY <3>2, ReportedTyped
  <2>2. block' \in [Booking -> Block] BY <2>1, <1>11 DEF AgentReport
  <2> QED BY <2>2, RestingTyped, <1>11 DEF AgentReport
<1>12. ASSUME CycleFails PROVE TypeOK'
  <2>1. open' \subseteq Cell BY AppliedCells, <1>12 DEF CycleFails
  <2> QED BY <2>1, <1>0, RestingTyped, <1>12 DEF CycleFails
<1>13. ASSUME NEW w \in Worker, NEW b \in Booking, StartPush(w, b) PROVE TypeOK'
  <2> PICK n \in Tries : /\ queued[b][n] > 0 /\ queued' = Taking(b, n)
                         /\ push' = [push EXCEPT ![w] = {[of |-> b, next |-> s, time |-> appt[b].time,
                                       tries |-> Attempt(n)] : s \in ReconcileManualBlock(b)}]
    BY <1>13 DEF StartPush
  <2>1. queued' \in [Booking -> [Tries -> Nat]] BY QueueLess DEF Queues
  <2> DEFINE writes == {[of |-> b, next |-> s, time |-> appt[b].time, tries |-> Attempt(n)] :
                        s \in ReconcileManualBlock(b)}
  <2>2. writes \subseteq Write
    <3>1. appt[b].time \in Time /\ Attempt(n) \in Tries BY TriesTyped DEF Appointment
    <3> QED BY <3>1, ReconciledTyped DEF Write
  <2>3. push' = [push EXCEPT ![w] = writes] OBVIOUS
  <2> HIDE DEF writes
  <2>4. push' \in [Worker -> SUBSET Write] BY <2>2, <2>3
  <2>5. odd' \in [Booking -> SUBSET Oddities] BY <1>13 DEF StartPush, Overlapping, Oddities
  <2>6. dead' \subseteq Booking BY <1>13 DEF StartPush
  <2> QED BY <2>1, <2>4, <2>5, <2>6, <1>13 DEF StartPush
<1>14. ASSUME NEW w \in Worker, FinishPush(w) PROVE TypeOK'
  <2>1. PICK x \in push[w] : /\ block' = Written(x) /\ push' = [push EXCEPT ![w] = {}]
                             /\ dead' = dead \ {x.of}
    BY <1>14 DEF FinishPush
  <2>2. x \in Write OBVIOUS
  <2> QED BY <2>1, <2>2, WrittenTyped, <1>14 DEF FinishPush
<1>15. ASSUME NEW w \in Worker, RetryPush(w) PROVE TypeOK'
  <2>1. PICK x \in push[w] : /\ block' \in {block, Written(x)} /\ push' = [push EXCEPT ![w] = {}]
                             /\ Again(queued, x.of, x.tries)
    BY <1>15 DEF RetryPush
  <2>2. x \in Write /\ x.of \in Booking /\ x.tries \in Tries BY DEF Write
  <2>3. queued' \in [Booking -> [Tries -> Nat]] /\ dead' \subseteq Booking
    BY <2>1, <2>2, AgainTyped DEF Queues
  <2> QED BY <2>1, <2>2, <2>3, <1>0, WrittenTyped, <1>15 DEF RetryPush
<1>17. ASSUME NEW w \in Worker, NEW b \in Booking, FailStart(w, b) PROVE TypeOK'
  <2>1. PICK n \in Tries : queued[b][n] > 0 /\ Again(Taking(b, n), b, Attempt(n))
    BY <1>17 DEF FailStart
  <2>2. Taking(b, n) \in Queues /\ Attempt(n) \in Tries BY <2>1, QueueLess, TriesTyped DEF Queues
  <2>3. queued' \in [Booking -> [Tries -> Nat]] /\ dead' \subseteq Booking
    BY <2>1, <2>2, AgainTyped DEF Queues
  <2>4. odd' \in [Booking -> SUBSET Oddities] BY <1>17 DEF FailStart, Overlapping, Oddities
  <2> QED BY <2>3, <2>4, <1>0, <1>17 DEF FailStart
<1>16. CASE UNCHANGED vars BY <1>16 DEF vars
<1> QED
  BY <1>3, <1>4, <1>5, <1>6, <1>7, <1>8, <1>9, <1>10, <1>11, <1>12, <1>13, <1>14, <1>15, <1>16, <1>17
  DEF Next, Push, Cycle

(* Every variable keeps its type.                                           *)
THEOREM TypeCorrect == Spec => []TypeOK
  BY TypesStart, TypesStep, PTL DEF Spec

(***************************************************************************)
(* What the salon keeps closed                                             *)
(***************************************************************************)

(* The helper never has one of the salon's own cells in hand: not in the    *)
(* day it read, not in what it closed, not in what a request recorded.      *)
OwnUntouched ==
  /\ OwnStayClosed
  /\ helper.day \cap Own = {}
  /\ \A t \in helper.tasks : t.record \cap Own = {}
  /\ \A b \in Booking : block[b].record \cap Own = {} /\ helper.done[b] \cap Own = {}

LEMMA RestingUntouched ==
  /\ Resting.day = {} /\ Resting.tasks = {} /\ \A b \in Booking : Resting.done[b] = {}
  BY DEF Resting

LEMMA AppliedUntouched == ASSUME OwnUntouched PROVE Applied \cap Own = {}
<1>1. Reopening \cap Own = {} BY DEF Reopening, OwnUntouched
<1> QED BY <1>1 DEF Applied, OwnUntouched, OwnStayClosed

LEMMA WrittenRecords ==
  ASSUME TypeOK, NEW x \in Write, NEW b \in Booking
  PROVE  Written(x)[b].record = block[b].record
  BY DEF TypeOK, Written, Write, Block

LEMMA OwnStart == Init => OwnUntouched
  BY RestingUntouched DEF Init, OwnUntouched, OwnStayClosed

LEMMA OwnStep == TypeOK /\ OwnUntouched /\ [Next]_vars => OwnUntouched'
<1> SUFFICES ASSUME TypeOK, OwnUntouched, [Next]_vars PROVE OwnUntouched' OBVIOUS
<1>1. ASSUME UNCHANGED <<block, open, helper>> PROVE OwnUntouched'
  BY <1>1 DEF OwnUntouched, OwnStayClosed
<1>2. ASSUME NEW b \in Booking, NEW p \in Staff, NEW t \in Time,
             Book(b, p, t) \/ Reschedule(b, p, t)
      PROVE  OwnUntouched'
  BY <1>1, <1>2 DEF Book, Reschedule, Takes
<1>3. ASSUME NEW b \in Booking, CallOff(b) \/ Restore(b) PROVE OwnUntouched'
  BY <1>1, <1>3 DEF CallOff, Restore, Takes
<1>4. ASSUME NEW b \in Booking, CompleteManualBlock(b) PROVE OwnUntouched'
  <2>1. open' \cap Own = {} BY <1>4 DEF CompleteManualBlock, OwnUntouched, OwnStayClosed
  <2>2. ASSUME NEW c \in Booking PROVE block'[c].record \cap Own = {}
    <3>1. block \in [Booking -> Block] /\ block[b] \in Block BY DEF TypeOK
    <3>2. PICK s \in BlockState : block' = [block EXCEPT ![b] = [block[b] EXCEPT !.state = s, !.record = {}]]
      BY <1>4 DEF CompleteManualBlock, BlockState
    <3>3. [block[b] EXCEPT !.state = s, !.record = {}].record = {} BY <3>1 DEF Block
    <3>4. block'[c].record = block[c].record \/ block'[c].record = {} BY <3>1, <3>2, <3>3
    <3> QED BY <3>4 DEF OwnUntouched
  <2> QED BY <2>1, <2>2, <1>4 DEF CompleteManualBlock, OwnUntouched, OwnStayClosed
<1>5. ASSUME HandOver PROVE OwnUntouched'
  BY <1>1, <1>5 DEF HandOver
<1>6. ASSUME AgentPlan PROVE OwnUntouched'
  <2> DEFINE tasks == {[of |-> b, state |-> block[b].state, staff |-> appt[b].staff,
                        time |-> block[b].time, record |-> block[b].record] : b \in Requests}
  <2>1. \A t \in tasks : t.record \cap Own = {} BY DEF Requests, OwnUntouched
  <2>2. helper' = [Resting EXCEPT !.at = "planned", !.busy = Busy, !.tasks = tasks]
    BY <1>6 DEF AgentPlan
  <2> HIDE DEF tasks
  <2>3. helper'.day = {} /\ helper'.tasks = tasks /\ helper'.done = Resting.done
    BY <2>2, RestingTyped, RestingUntouched
  <2> QED BY <2>1, <2>3, RestingUntouched, <1>6 DEF AgentPlan, OwnUntouched, OwnStayClosed
<1>7. ASSUME ReadDay PROVE OwnUntouched'
  <2>1. helper'.day = open /\ helper'.tasks = helper.tasks /\ helper'.done = helper.done
    BY <1>7 DEF ReadDay, TypeOK
  <2> QED BY <2>1, <1>7 DEF ReadDay, OwnUntouched, OwnStayClosed
<1>8. ASSUME SaveDay PROVE OwnUntouched'
  <2>1. PICK f \in Taken : helper' = [helper EXCEPT !.at = "saved", !.day = {}, !.busy = {}, !.done = f]
    BY <1>8 DEF SaveDay
  <2>2. \A b \in Booking : f[b] \subseteq helper.day BY DEF Taken
  <2>3. helper'.day = {} /\ helper'.tasks = helper.tasks /\ helper'.done = f BY <2>1 DEF TypeOK
  <2> QED BY <2>2, <2>3, AppliedUntouched, <1>8 DEF SaveDay, OwnUntouched, OwnStayClosed
<1>9. ASSUME AgentReport PROVE OwnUntouched'
  <2>1. ASSUME NEW b \in Booking, NEW t \in helper.tasks
        PROVE  Reported(b, t).record \in {{}, helper.done[b], block[b].record}
    <3>1. block[b] \in Block BY DEF TypeOK
    <3> QED BY <3>1 DEF Reported, Block
  <2>2. ASSUME NEW b \in Booking PROVE block'[b].record \in {{}, helper.done[b], block[b].record}
    <3>1. CASE \E t \in helper.tasks : t.of = b
      <4>1. PICK t \in helper.tasks : block'[b] = Reported(b, t) BY <3>1, <1>9 DEF AgentReport
      <4> QED BY <4>1, <2>1
    <3>2. CASE ~ \E t \in helper.tasks : t.of = b BY <3>2, <1>9 DEF AgentReport
    <3> QED BY <3>1, <3>2
  <2> QED BY <2>2, RestingUntouched, <1>9 DEF AgentReport, OwnUntouched, OwnStayClosed
<1>10. ASSUME CycleFails PROVE OwnUntouched'
  <2>1. open' \cap Own = {} BY AppliedUntouched, <1>10 DEF CycleFails, OwnUntouched, OwnStayClosed
  <2> QED BY <2>1, RestingUntouched, <1>10 DEF CycleFails, OwnUntouched, OwnStayClosed
<1>11. ASSUME NEW w \in Worker, NEW b \in Booking, StartPush(w, b) \/ FailStart(w, b) PROVE OwnUntouched'
  BY <1>1, <1>11 DEF StartPush, FailStart
<1>12. ASSUME NEW w \in Worker, FinishPush(w) \/ RetryPush(w) PROVE OwnUntouched'
  <2>1. PICK x \in push[w] : block' \in {block, Written(x)} BY <1>12 DEF FinishPush, RetryPush
  <2>2. x \in Write BY DEF TypeOK
  <2>3. \A b \in Booking : block'[b].record = block[b].record BY <2>1, <2>2, WrittenRecords
  <2> QED BY <2>3, <1>12 DEF FinishPush, RetryPush, OwnUntouched, OwnStayClosed
<1>13. CASE UNCHANGED vars BY <1>1, <1>13 DEF vars
<1> QED
  BY <1>2, <1>3, <1>4, <1>5, <1>6, <1>7, <1>8, <1>9, <1>10, <1>11, <1>12, <1>13
  DEF Next, Push, Cycle

(* The helper reopens only what it closed: a cell that the salon keeps      *)
(* closed is never put on sale, whatever moves, fails or is done by hand.   *)
THEOREM NeverSellsOwn == Spec => []OwnStayClosed
<1>1. Init => TypeOK /\ OwnUntouched BY TypesStart, OwnStart
<1>2. TypeOK /\ OwnUntouched /\ [Next]_vars => (TypeOK /\ OwnUntouched)' BY TypesStep, OwnStep
<1>3. OwnUntouched => OwnStayClosed BY DEF OwnUntouched
<1> QED BY <1>1, <1>2, <1>3, PTL DEF Spec

(***************************************************************************)
(* Convergence of push jobs                                                *)
(***************************************************************************)

(* A running job holds one write at most.                                   *)
OneWrite == \A w \in Worker : \A x, y \in push[w] : x = y

(* Before the connector is handed over nothing is queued, asked or run.     *)
Quiet ==
  ~managed => /\ \A b \in Booking : ~Waiting(b) /\ block[b].state = "none"
              /\ \A w \in Worker : push[w] = {}
              /\ helper.at = "resting"

(* One worker at most has a job of the booking.                             *)
OneJob(b) == \A v, w \in Worker : \A x \in push[v], y \in push[w] : x.of = b /\ y.of = b => v = w

(* The block will match the booking when a running job has written.         *)
WillMatch(b, x) ==
  IF Live(b)
  THEN \/ x.next = "action_required" /\ x.time = appt[b].time
       \/ x.next = "pushed" /\ block[b].time = appt[b].time
  ELSE x.next \in {"remove_required", "removed"}

(* The last job of a booking, running or done, has seen it as it is.        *)
Settled(b) ==
  managed /\ ~Waiting(b) =>
    /\ \A w \in Worker : \A x \in push[w] : x.of = b => WillMatch(b, x)
    /\ JobsDone(b) /\ b \notin dead => Matches(b)

Converging(b) == "overlap" \notin odd[b] => OneJob(b) /\ Settled(b)
CInv == OneWrite /\ Quiet /\ \A b \in Booking : Converging(b)

LEMMA ConvergingStart == Init => CInv
  BY DEF Init, CInv, OneWrite, Quiet, Waiting, Converging, OneJob, Settled, Resting

(* What a job that starts decides on matches the booking, or the block      *)
(* matches already.                                                         *)
LEMMA Decided ==
  ASSUME TypeOK, managed, NEW b \in Booking
  PROVE  /\ ReconcileManualBlock(b) = {} => Matches(b)
         /\ \A s \in ReconcileManualBlock(b), x \in Write :
              x.next = s /\ x.time = appt[b].time => WillMatch(b, x)
<1>1. block[b].state \in BlockState BY DEF TypeOK, Block
<1>2. CASE Live(b)
  BY <1>1, <1>2 DEF ReconcileManualBlock, Wanted, Matches, WillMatch, BlockState
<1>3. CASE ~Live(b)
  BY <1>1, <1>3 DEF ReconcileManualBlock, Unwanted, Matches, WillMatch, BlockState
<1> QED BY <1>2, <1>3

(* What a job writes.                                                       *)
LEMMA WrittenFields ==
  ASSUME TypeOK, NEW x \in Write
  PROVE  /\ Written(x)[x.of].state = x.next
         /\ Written(x)[x.of].time = IF x.next = "action_required" THEN x.time ELSE block[x.of].time
         /\ \A b \in Booking : b # x.of => Written(x)[b] = block[b]
  BY DEF TypeOK, Written, Write

(* A booking is as settled as it was when only requests are closed.         *)
Answered(b) ==
  /\ block'[b].time = block[b].time
  /\ \/ block'[b].state = block[b].state
     \/ block[b].state = "action_required" /\ block'[b].state = "pushed"
     \/ block[b].state = "remove_required" /\ block'[b].state = "removed"

LEMMA AnsweredKeeps ==
  ASSUME NEW b \in Booking, Answered(b), odd[b] \subseteq odd'[b],
         UNCHANGED <<appt, managed, queued, push, dead>>, Converging(b)
  PROVE  Converging(b)'
<1>1. ASSUME NEW w \in Worker, NEW x \in push[w], WillMatch(b, x) PROVE WillMatch(b, x)'
  BY <1>1 DEF WillMatch, Live, Answered
<1>2. Matches(b) => Matches(b)' BY DEF Matches, Live, Answered
<1>3. OneJob(b)' <=> OneJob(b) BY DEF OneJob
<1>4. (JobsDone(b)' <=> JobsDone(b)) /\ (Waiting(b)' <=> Waiting(b)) BY DEF JobsDone, Waiting
<1>5. Settled(b) => Settled(b)' BY <1>1, <1>2, <1>4 DEF Settled
<1> QED BY <1>3, <1>5 DEF Converging

(* A job of the booking is queued: nothing is claimed about it.             *)
LEMMA QueuedKeeps ==
  ASSUME NEW b \in Booking, Waiting(b)' \/ ~managed', odd[b] \subseteq odd'[b],
         \A w \in Worker : push'[w] \subseteq push[w], Converging(b)
  PROVE  Converging(b)'
<1>1. OneJob(b) => OneJob(b)' BY DEF OneJob
<1>2. Settled(b)' BY DEF Settled
<1> QED BY <1>1, <1>2 DEF Converging

(* Nothing that concerns the booking changes.                               *)
LEMMA UntouchedKeeps ==
  ASSUME NEW b \in Booking, appt'[b] = appt[b], queued'[b] = queued[b], block'[b] = block[b],
         managed' = managed, odd[b] \subseteq odd'[b], b \in dead => b \in dead',
         \A w \in Worker : \A x : x.of = b => (x \in push'[w] <=> x \in push[w]), Converging(b)
  PROVE  Converging(b)'
<1>1. ASSUME NEW x, WillMatch(b, x) PROVE WillMatch(b, x)'
  BY <1>1 DEF WillMatch, Live
<1>2. Matches(b) => Matches(b)' BY DEF Matches, Live
<1>3. OneJob(b)' <=> OneJob(b) BY DEF OneJob
<1>4. (JobsDone(b)' <=> JobsDone(b)) /\ (Waiting(b)' <=> Waiting(b)) BY DEF JobsDone, Waiting
<1>5. Settled(b) => Settled(b)' BY <1>1, <1>2, <1>4 DEF Settled
<1> QED BY <1>3, <1>5 DEF Converging

(* A change of a booking queues a job of its own.                           *)
LEMMA PushesQueued ==
  ASSUME TypeOK, NEW b \in Booking, queued' = Pushes(b), managed' = managed
  PROVE  /\ Waiting(b)' \/ ~managed'
         /\ \A c \in Booking : c # b => queued'[c] = queued[c]
<1>1. queued \in Queues BY DEF TypeOK, Queues
<1>2. CASE managed
  <2>1. queued' = Queue(queued, b, 0) BY <1>2 DEF Pushes
  <2>2. /\ Queue(queued, b, 0)[b][0] > 0
        /\ \A c \in Booking : c # b => Queue(queued, b, 0)[c] = queued[c]
    BY <1>1, QueueMore, TriesTyped
  <2>3. queued'[b][0] > 0 BY <2>1, <2>2
  <2>4. Waiting(b)' BY <2>3, TriesTyped DEF Waiting
  <2> QED BY <2>1, <2>2, <2>4
<1>3. CASE ~managed
  <2>1. queued' = queued /\ ~managed' BY <1>3 DEF Pushes
  <2> QED BY <2>1
<1> QED BY <1>2, <1>3

LEMMA ConvergingStep == TypeOK /\ CInv /\ [Next]_vars => CInv'
<1> SUFFICES ASSUME TypeOK, CInv, [Next]_vars PROVE CInv' OBVIOUS
<1> USE DEF CInv
<1>1. ASSUME NEW b \in Booking, NEW p \in Staff, NEW t \in Time, Takes(b, p, t)
      PROVE  CInv'
  <2>1. OneWrite' BY <1>1 DEF Takes, OneWrite
  <2>2. Quiet' BY <1>1 DEF Takes, Quiet, Pushes, Waiting
  <2>3. ASSUME NEW c \in Booking PROVE Converging(c)'
    <3>1. odd[c] \subseteq odd'[c] BY <1>1 DEF Takes, TypeOK
    <3>2. CASE c = b
      <4>1. Waiting(b)' \/ ~managed' BY PushesQueued, <1>1 DEF Takes
      <4> QED BY <3>1, <3>2, <4>1, QueuedKeeps, <1>1 DEF Takes
    <3>3. CASE c # b
      <4>1. appt'[c] = appt[c] /\ queued'[c] = queued[c]
        BY PushesQueued, <3>3, <1>1 DEF Takes, TypeOK
      <4> QED BY <3>1, <4>1, UntouchedKeeps, <1>1 DEF Takes
    <3> QED BY <3>2, <3>3
  <2> QED BY <2>1, <2>2, <2>3
<1>2. ASSUME NEW b \in Booking, NEW p \in Staff, NEW t \in Time,
             Book(b, p, t) \/ Reschedule(b, p, t)
      PROVE  CInv'
  BY <1>1, <1>2 DEF Book, Reschedule
<1>3. ASSUME NEW b \in Booking, CallOff(b) PROVE CInv'
  <2>1. OneWrite' BY <1>3 DEF CallOff, OneWrite
  <2>2. Quiet' BY <1>3 DEF CallOff, Quiet, Pushes, Waiting
  <2>3. ASSUME NEW c \in Booking PROVE Converging(c)'
    <3>2. CASE c = b
      <4>1. Waiting(b)' \/ ~managed' BY PushesQueued, <1>3 DEF CallOff
      <4> QED BY <3>2, <4>1, QueuedKeeps, <1>3 DEF CallOff
    <3>3. CASE c # b
      <4>1. appt'[c] = appt[c] /\ queued'[c] = queued[c]
        BY PushesQueued, <3>3, <1>3 DEF CallOff, TypeOK
      <4> QED BY <4>1, UntouchedKeeps, <1>3 DEF CallOff
    <3> QED BY <3>2, <3>3
  <2> QED BY <2>1, <2>2, <2>3
<1>4. ASSUME NEW b \in Booking, Restore(b) PROVE CInv'
  <2>1. appt[b].staff \in Staff /\ appt[b].time \in Time BY DEF TypeOK, Appointment
  <2> QED BY <2>1, <1>1, <1>4 DEF Restore
<1>5. ASSUME HandOver PROVE CInv'
  <2>1. OneWrite' BY <1>5 DEF HandOver, OneWrite
  <2>2. Quiet' BY <1>5 DEF HandOver, Quiet
  <2>3. ASSUME NEW b \in Booking PROVE Converging(b)'
    <3>1. OneJob(b)' BY <1>5 DEF HandOver, Quiet, OneJob
    <3>2. ~Waiting(b)' => ~Live(b)'
      <4> SUFFICES ASSUME Live(b) PROVE Waiting(b)' BY <1>5 DEF HandOver, Live
      <4>1. queued'[b] = Queue(queued, b, 0)[b] BY <1>5 DEF HandOver
      <4>2. Queue(queued, b, 0)[b][0] > 0 BY QueueMore, TriesTyped DEF TypeOK, Queues
      <4>3. queued'[b][0] > 0 BY <4>1, <4>2
      <4> QED BY <4>3, TriesTyped DEF Waiting
    <3>3. ~Live(b)' => Matches(b)' BY <1>5 DEF HandOver, Quiet, Matches
    <3>4. Settled(b)' BY <3>2, <3>3, <1>5 DEF HandOver, Quiet, Settled
    <3> QED BY <3>1, <3>4 DEF Converging
  <2> QED BY <2>1, <2>2, <2>3
<1>6. ASSUME NEW b \in Booking, CompleteManualBlock(b) PROVE CInv'
  <2>1. managed BY <1>6 DEF CompleteManualBlock, Requests, Quiet
  <2>2. OneWrite' BY <1>6 DEF CompleteManualBlock, OneWrite
  <2>3. Quiet' BY <2>1, <1>6 DEF CompleteManualBlock, Quiet
  <2>4. ASSUME NEW c \in Booking PROVE Converging(c)'
    <3>1. odd[c] \subseteq odd'[c] BY <1>6 DEF CompleteManualBlock, TypeOK
    <3>2. block \in [Booking -> Block] /\ block[b] \in Block BY DEF TypeOK
    <3>3. ASSUME NEW s \in BlockState
          PROVE  /\ [block[b] EXCEPT !.state = s, !.record = {}].state = s
                 /\ [block[b] EXCEPT !.state = s, !.record = {}].time = block[b].time
      BY <3>2 DEF Block
    <3>4. Answered(c)
      <4>1. CASE c # b BY <3>2, <4>1, <1>6 DEF CompleteManualBlock, Answered
      <4>2. CASE c = b /\ block[b].state = "action_required"
        <5>1. block'[b] = [block[b] EXCEPT !.state = "pushed", !.record = {}]
          BY <3>2, <4>2, <1>6 DEF CompleteManualBlock
        <5> QED BY <3>3, <4>2, <5>1 DEF Answered, BlockState
      <4>3. CASE c = b /\ block[b].state = "remove_required"
        <5>1. block'[b] = [block[b] EXCEPT !.state = "removed", !.record = {}]
          BY <3>2, <4>3, <1>6 DEF CompleteManualBlock
        <5> QED BY <3>3, <4>3, <5>1 DEF Answered, BlockState
      <4> QED BY <4>1, <4>2, <4>3, <1>6 DEF CompleteManualBlock, Requests
    <3> QED BY <3>1, <3>4, AnsweredKeeps, <1>6 DEF CompleteManualBlock
  <2> QED BY <2>2, <2>3, <2>4
<1>7. ASSUME UNCHANGED <<appt, managed, queued, push, block, dead, odd>>, managed \/ helper' = helper
      PROVE  CInv'
  <2>1. OneWrite' /\ Quiet' BY <1>7 DEF OneWrite, Quiet, Waiting
  <2>2. ASSUME NEW b \in Booking PROVE Converging(b)'
    BY <1>7, UntouchedKeeps
  <2> QED BY <2>1, <2>2
<1>8. ASSUME AgentPlan \/ ReadDay \/ SaveDay \/ CycleFails PROVE CInv'
  <2>1. managed BY <1>8 DEF AgentPlan, ReadDay, SaveDay, CycleFails, Quiet
  <2> QED BY <2>1, <1>7, <1>8 DEF AgentPlan, ReadDay, SaveDay, CycleFails
<1>9. ASSUME AgentReport PROVE CInv'
  <2>1. managed BY <1>9 DEF AgentReport, Quiet
  <2>2. OneWrite' /\ Quiet' BY <2>1, <1>9 DEF AgentReport, OneWrite, Quiet
  <2>3. ASSUME NEW b \in Booking PROVE Converging(b)'
    <3>1. block[b] \in Block BY DEF TypeOK
    <3>2. ASSUME NEW t \in helper.tasks, block'[b] = Reported(b, t) PROVE Answered(b)
      BY <3>1, <3>2 DEF Reported, Answered, Block
    <3>3. Answered(b)
      <4>1. CASE \E t \in helper.tasks : t.of = b
        <5>1. PICK t \in helper.tasks : block'[b] = Reported(b, t) BY <4>1, <1>9 DEF AgentReport
        <5> QED BY <5>1, <3>2
      <4>2. CASE ~ \E t \in helper.tasks : t.of = b BY <4>2, <1>9 DEF AgentReport, Answered
      <4> QED BY <4>1, <4>2
    <3> QED BY <3>3, AnsweredKeeps, <1>9 DEF AgentReport
  <2> QED BY <2>2, <2>3
<1>10. ASSUME NEW w \in Worker, NEW b \in Booking, StartPush(w, b) PROVE CInv'
  <2> PICK n \in Tries : /\ queued[b][n] > 0 /\ queued' = Taking(b, n)
                         /\ push' = [push EXCEPT ![w] = {[of |-> b, next |-> s, time |-> appt[b].time,
                                       tries |-> Attempt(n)] : s \in ReconcileManualBlock(b)}]
    BY <1>10 DEF StartPush
  <2> DEFINE writes == {[of |-> b, next |-> s, time |-> appt[b].time, tries |-> Attempt(n)] :
                        s \in ReconcileManualBlock(b)}
  <2>1. \A x \in writes : /\ x \in Write /\ x.of = b /\ x.time = appt[b].time
                           /\ x.next \in ReconcileManualBlock(b)
    <3>1. appt[b].time \in Time /\ Attempt(n) \in Tries BY TriesTyped DEF TypeOK, Appointment
    <3>2. ASSUME NEW s \in ReconcileManualBlock(b)
          PROVE  [of |-> b, next |-> s, time |-> appt[b].time, tries |-> Attempt(n)] \in Write
      BY <3>1, ReconciledTyped DEF Write
    <3> QED BY <3>2
  <2>2. \A x, y \in writes : x = y
    <3>1. block[b].state \in BlockState BY DEF TypeOK, Block
    <3>2. \A s, r \in ReconcileManualBlock(b) : s = r
      <4>1. \A s, r \in Wanted(b) : s = r BY <3>1 DEF Wanted, BlockState
      <4>2. \A s, r \in Unwanted(b) : s = r BY <3>1 DEF Unwanted, BlockState
      <4> QED BY <4>1, <4>2 DEF ReconcileManualBlock
    <3> QED BY <3>2
  <2>3. writes = {} <=> ReconcileManualBlock(b) = {} OBVIOUS
  <2>4. push' = [push EXCEPT ![w] = writes] OBVIOUS
  <2> HIDE DEF writes
  <2>5. managed
    <3>1. Waiting(b) BY DEF Waiting
    <3> QED BY <3>1 DEF Quiet
  <2>6. push'[w] = writes /\ \A v \in Worker \ {w} : push'[v] = push[v] BY <2>4 DEF TypeOK
  <2>7. OneWrite' BY <2>2, <2>6 DEF OneWrite
  <2>8. Quiet' BY <2>5, <1>10 DEF StartPush, Quiet
  <2>9. /\ odd[b] \subseteq odd'[b]
        /\ \A c \in Booking \ {b} : /\ odd'[c] = odd[c] /\ queued'[c] = queued[c]
                                     /\ (c \in dead => c \in dead')
    <3>1. odd[b] \subseteq odd'[b] /\ \A c \in Booking \ {b} : odd'[c] = odd[c]
      BY <1>10 DEF StartPush, Overlapping, TypeOK
    <3>2. \A c \in Booking \ {b} : queued'[c] = queued[c] BY QueueLess DEF TypeOK, Queues
    <3>3. dead' = dead \/ dead' = dead \ {b} BY <1>10 DEF StartPush
    <3> QED BY <3>1, <3>2, <3>3
  <2>10. ASSUME NEW c \in Booking, c # b PROVE Converging(c)'
    <3>1. ASSUME NEW v \in Worker, NEW x, x.of = c PROVE x \in push'[v] <=> x \in push[v]
      <4>1. push[w] = {} BY <1>10 DEF StartPush
      <4> QED BY <2>1, <2>6, <2>10, <3>1, <4>1
    <3>2. odd'[c] = odd[c] /\ queued'[c] = queued[c] /\ (c \in dead => c \in dead')
      <4>1. c \in Booking \ {b} BY <2>10
      <4> QED BY <2>9, <4>1
    <3>3. UNCHANGED <<appt, managed, block, helper>> BY <1>10 DEF StartPush
    <3> QED BY <3>1, <3>2, <3>3, UntouchedKeeps
  <2>11. Converging(b)'
    <3> SUFFICES ASSUME "overlap" \notin odd'[b] PROVE OneJob(b)' /\ Settled(b)'
      BY DEF Converging
    <3>1. \A v \in Worker : \A x \in push[v] : x.of # b BY <1>10 DEF StartPush, Overlapping, TypeOK
    <3>2. \A v \in Worker : \A x \in push'[v] : x.of = b => v = w BY <2>6, <3>1
    <3>3. OneJob(b)' BY <3>2 DEF OneJob
    <3>4. ASSUME NEW v \in Worker, NEW x \in push'[v], x.of = b PROVE WillMatch(b, x)'
      <4>1. x \in writes BY <2>6, <3>2, <3>4
      <4>2. WillMatch(b, x) BY <2>1, <2>5, <4>1, Decided
      <4> QED BY <4>2, <1>10 DEF StartPush, WillMatch, Live
    <3>5. JobsDone(b)' => Matches(b)'
      <4>1. JobsDone(b)' => writes = {} BY <2>1, <2>6 DEF JobsDone
      <4>2. writes = {} => Matches(b) BY <2>3, <2>5, Decided
      <4> QED BY <4>1, <4>2, <1>10 DEF StartPush, Matches, Live
    <3> QED BY <3>3, <3>4, <3>5 DEF Settled
  <2> QED BY <2>7, <2>8, <2>10, <2>11
<1>11. ASSUME NEW w \in Worker, FinishPush(w) \/ RetryPush(w) PROVE CInv'
  <2>1. PICK x \in push[w] :
           /\ push' = [push EXCEPT ![w] = {}]
           /\ \/ block' = Written(x) /\ queued' = queued /\ dead' = dead \ {x.of}
              \/ block' \in {block, Written(x)} /\ Again(queued, x.of, x.tries)
    BY <1>11 DEF FinishPush, RetryPush
  <2>2. UNCHANGED <<appt, managed, odd, helper>> BY <1>11 DEF FinishPush, RetryPush
  <2>3. x \in Write /\ x.of \in Booking /\ x.tries \in Tries BY DEF TypeOK, Write
  <2>4. push'[w] = {} /\ \A v \in Worker \ {w} : push'[v] = push[v] BY <2>1 DEF TypeOK
  <2>5. managed BY DEF Quiet
  <2>6. OneWrite' /\ Quiet' BY <2>2, <2>4, <2>5 DEF OneWrite, Quiet
  <2>7. \A y \in push[w] : y = x BY DEF OneWrite
  <2>a. queued \in Queues BY DEF TypeOK, Queues
  <2>8. ASSUME NEW c \in Booking, c # x.of PROVE Converging(c)'
    <3>1. block'[c] = block[c] BY <2>1, <2>3, <2>8, WrittenFields
    <3>2. queued'[c] = queued[c] BY <2>1, <2>3, <2>8, <2>a, QueueMore DEF Again
    <3>3. c \in dead => c \in dead' BY <2>1, <2>8 DEF Again
    <3>4. ASSUME NEW v \in Worker, NEW y, y.of = c PROVE y \in push'[v] <=> y \in push[v]
      BY <2>4, <2>7, <2>8, <3>4
    <3> QED BY <2>2, <3>1, <3>2, <3>3, <3>4, UntouchedKeeps
  <2>9. Converging(x.of)'
    <3> SUFFICES ASSUME "overlap" \notin odd[x.of] PROVE OneJob(x.of)' /\ Settled(x.of)'
      BY <2>2 DEF Converging
    <3>1. OneJob(x.of) /\ Settled(x.of) BY <2>3 DEF Converging
    <3>2. \A v \in Worker : \A y \in push'[v] : y.of # x.of BY <2>4, <3>1 DEF OneJob
    <3>3. OneJob(x.of)' BY <3>2 DEF OneJob
    <3>4. CASE Again(queued, x.of, x.tries)
      <4>1. Waiting(x.of)' \/ x.of \in dead' BY <2>3, <2>a, <3>4, QueueMore DEF Again, Waiting
      <4> QED BY <3>2, <3>3, <4>1 DEF Settled
    <3>5. CASE block' = Written(x) /\ queued' = queued
      <4> SUFFICES ASSUME ~Waiting(x.of) PROVE Matches(x.of)'
        BY <3>2, <3>3, <3>5 DEF Settled, Waiting
      <4>1. WillMatch(x.of, x) BY <2>3, <2>5, <3>1 DEF Settled
      <4> QED BY <2>2, <2>3, <3>5, <4>1, WrittenFields DEF WillMatch, Matches, Live
    <3> QED BY <2>1, <3>4, <3>5
  <2> QED BY <2>6, <2>8, <2>9
<1>13. ASSUME NEW w \in Worker, NEW b \in Booking, FailStart(w, b) PROVE CInv'
  <2>1. PICK n \in Tries : queued[b][n] > 0 /\ Again(Taking(b, n), b, Attempt(n))
    BY <1>13 DEF FailStart
  <2>2. /\ Taking(b, n) \in Queues /\ Attempt(n) \in Tries
        /\ \A c \in Booking : c # b => Taking(b, n)[c] = queued[c]
    BY <2>1, QueueLess, TriesTyped DEF TypeOK, Queues
  <2>3. managed
    <3>1. Waiting(b) BY <2>1 DEF Waiting
    <3> QED BY <3>1 DEF Quiet
  <2>4. OneWrite' /\ Quiet' BY <2>3, <1>13 DEF FailStart, OneWrite, Quiet
  <2>5. ASSUME NEW c \in Booking, c # b PROVE Converging(c)'
    <3>1. queued'[c] = queued[c] BY <2>1, <2>2, <2>5, QueueMore DEF Again
    <3>2. odd'[c] = odd[c] BY <2>5, <1>13 DEF FailStart, Overlapping, TypeOK
    <3>3. c \in dead => c \in dead' BY <2>1 DEF Again
    <3> QED BY <3>1, <3>2, <3>3, UntouchedKeeps, <1>13 DEF FailStart
  <2>6. Converging(b)'
    <3> SUFFICES ASSUME "overlap" \notin odd'[b] PROVE OneJob(b)' /\ Settled(b)'
      BY DEF Converging
    <3>1. \A v \in Worker : \A x \in push'[v] : x.of # b
      BY <1>13 DEF FailStart, Overlapping, TypeOK
    <3>2. Waiting(b)' \/ b \in dead' BY <2>1, <2>2, QueueMore DEF Again, Waiting
    <3> QED BY <3>1, <3>2 DEF OneJob, Settled
  <2> QED BY <2>4, <2>5, <2>6
<1>12. CASE UNCHANGED vars BY <1>7, <1>12 DEF vars
<1> QED
  BY <1>2, <1>3, <1>4, <1>5, <1>6, <1>8, <1>9, <1>10, <1>11, <1>12, <1>13 DEF Next, Push, Cycle

(* However jobs are delayed, fail, are lost, repeated or run in another     *)
(* order: when the jobs of a booking are done, its block is what it needs,  *)
(* unless two of them overlapped or the last one failed max_attempts times. *)
THEOREM PushConverges == Spec => []Convergent
<1>1. Init => TypeOK /\ CInv BY TypesStart, ConvergingStart
<1>2. TypeOK /\ CInv /\ [Next]_vars => (TypeOK /\ CInv)' BY TypesStep, ConvergingStep
<1>3. CInv => Convergent BY DEF CInv, Converging, Settled, Convergent, JobsDone
<1> QED BY <1>1, <1>2, <1>3, PTL DEF Spec
=============================================================================
