----------------------------- MODULE SlotBlock -----------------------------
(***************************************************************************)
(* Slots of the stylists held on a booking medium that has no write API:   *)
(* Salon OS asks for them to be closed (external_slot_blocks, one row per  *)
(* booking), a helper in the salon's Chrome closes and reopens them.       *)
(* Source: apps/api/src/modules/integrations/{push,agent}.ts,              *)
(* mail/manual.ts, mail/service.ts and infra/chrome-sync-agent.            *)
(*                                                                         *)
(* The medium is minimo on one day: it sells half-hour cells per stylist.  *)
(* The times of bookings do not overlap (the booking core sees to that),   *)
(* but two of them may need the same cell.                                 *)
(***************************************************************************)
EXTENDS Integers, FiniteSets

CONSTANTS
  Booking,     \* bookings taken elsewhere than on the medium
  Staff, Time, \* stylists, and the times a booking may have
  HalfHour,    \* half-hour cells of the day
  Span,        \* the half hours a time touches
  Own,         \* cells the salon itself keeps closed on the medium
  Worker,      \* slots of the workers that run push jobs
  MaxTries,    \* PUSH_MAX_ATTEMPTS
  MaxUpsets    \* bound: moves, cancellations, restorations and requests settled by
               \* hand, failed push jobs and failed cycles of the helper

Cell == Staff \X HalfHour

ASSUME SlotAssumption ==
  /\ Staff # {} /\ Time # {}
  /\ Span \in [Time -> SUBSET HalfHour]
  /\ Own \subseteq Cell
  /\ MaxTries \in Nat \ {0} /\ MaxUpsets \in Nat

VARIABLES
  appt,     \* appointments
  managed,  \* the connector has pushBlocks and agentManaged
  queued,   \* push jobs queued per booking and attempts made
  push,     \* what a running push job is about to write
  block,    \* external_slot_blocks; record is what external_block_id says the helper closed
  open,     \* the medium: cells on sale
  helper,   \* the cycle of the helper
  dead,     \* bookings the last of whose push jobs is dead
  had,      \* history: the times a booking has had
  odd,      \* history: what happened to a booking that the protocol does not cope with
  upsets    \* the counter behind the bound

vars == <<appt, managed, queued, push, block, open, helper, dead, had, odd, upsets>>

Tries == 0..MaxTries
Needs(p, t) == {p} \X Span[t]
Oddities == {"again", "overlap", "by_hand"}
BlockState == {"none", "action_required", "pushed", "remove_required", "removed"}
Appointment == [state: {"none", "live", "off"}, staff: Staff, time: Time]
Block == [state: BlockState, time: Time, record: SUBSET Cell]
Task == [of: Booking, state: {"action_required", "remove_required"}, staff: Staff, time: Time,
         record: SUBSET Cell]
Write == [of: Booking, next: BlockState \ {"none"}, time: Time, tries: Tries]
Resting == [at |-> "resting", tasks |-> {}, busy |-> {}, day |-> {},
            done |-> [b \in Booking |-> {}]]

TypeOK ==
  /\ appt \in [Booking -> Appointment] /\ managed \in BOOLEAN
  /\ queued \in [Booking -> [Tries -> Nat]] /\ push \in [Worker -> SUBSET Write]
  /\ block \in [Booking -> Block] /\ open \subseteq Cell
  /\ helper \in [at: {"resting", "planned", "read", "saved"}, tasks: SUBSET Task,
                 busy: SUBSET Cell, day: SUBSET Cell, done: [Booking -> SUBSET Cell]]
  /\ dead \subseteq Booking
  /\ had \in [Booking -> SUBSET Time] /\ odd \in [Booking -> SUBSET Oddities]
  /\ upsets \in 0..MaxUpsets

Somebody == CHOOSE p \in Staff : TRUE
Sometime == CHOOSE t \in Time : TRUE

Init ==
  /\ appt = [b \in Booking |-> [state |-> "none", staff |-> Somebody, time |-> Sometime]]
  /\ managed = FALSE
  /\ queued = [b \in Booking |-> [n \in Tries |-> 0]]
  /\ push = [w \in Worker |-> {}]
  /\ block = [b \in Booking |-> [state |-> "none", time |-> Sometime, record |-> {}]]
  /\ open = Cell \ Own
  /\ helper = Resting
  /\ dead = {}
  /\ had = [b \in Booking |-> {}]
  /\ odd = [b \in Booking |-> {}]
  /\ upsets = 0

Live(b) == appt[b].state = "live"
Busy == UNION {Needs(appt[b].staff, appt[b].time) : b \in {x \in Booking : Live(x)}}
Free(b, p, t) == \A x \in Booking \ {b} : Live(x) => <<appt[x].staff, appt[x].time>> # <<p, t>>

Upset == upsets < MaxUpsets /\ upsets' = upsets + 1

-----------------------------------------------------------------------------
(* Bookings.  Every change of a booking's slot or life queues a push job    *)
(* of its own (the key holds the version), when the connector pushes.       *)

Queue(q, b, n) == [q EXCEPT ![b] = [q[b] EXCEPT ![n] = @ + 1]]
Pushes(b) == IF managed THEN Queue(queued, b, 0) ELSE queued

(* A booking gets a time; `again' when it had that time before.             *)
Takes(b, p, t) ==
  /\ Free(b, p, t)
  /\ appt' = [appt EXCEPT ![b] = [state |-> "live", staff |-> p, time |-> t]]
  /\ had' = [had EXCEPT ![b] = @ \cup {t}]
  /\ odd' = IF t \in had[b] THEN [odd EXCEPT ![b] = @ \cup {"again"}] ELSE odd
  /\ queued' = Pushes(b)
  /\ UNCHANGED <<managed, push, block, open, helper, dead>>

Book(b, p, t) == appt[b].state = "none" /\ Takes(b, p, t) /\ UNCHANGED upsets

Reschedule(b, p, t) ==
  /\ Live(b) /\ <<p, t>> # <<appt[b].staff, appt[b].time>>
  /\ Takes(b, p, t) /\ Upset

CallOff(b) ==
  /\ Live(b) /\ Upset
  /\ appt' = [appt EXCEPT ![b].state = "off"]
  /\ queued' = Pushes(b)
  /\ UNCHANGED <<managed, push, block, open, helper, dead, had, odd>>

Restore(b) ==
  /\ appt[b].state = "off"
  /\ Takes(b, appt[b].staff, appt[b].time) /\ Upset

(* The connector is handed to the helper: a job for every live booking.     *)
HandOver ==
  /\ ~managed /\ managed' = TRUE
  /\ queued' = [b \in Booking |-> IF Live(b) THEN Queue(queued, b, 0)[b] ELSE queued[b]]
  /\ UNCHANGED <<appt, push, block, open, helper, dead, had, odd, upsets>>

-----------------------------------------------------------------------------
(* integration.push_block: one transaction reads the booking and its block, *)
(* another writes what reconcileManualBlock made of them.                   *)

(* Mutant: a request that is open is left alone although the booking moved. *)
WantedOnce(b) ==
  CASE block[b].state \in {"pushed", "action_required"} -> {}
    [] block[b].state = "remove_required" -> {"pushed"}
    [] OTHER -> {"action_required"}
Wanted(b) ==
  LET same == block[b].time = appt[b].time IN
  CASE block[b].state \in {"pushed", "action_required"} /\ same -> {}
    [] block[b].state = "remove_required" /\ same -> {"pushed"}
    [] OTHER -> {"action_required"}

Unwanted(b) ==
  CASE block[b].state = "action_required" -> {"removed"}
    [] block[b].state = "pushed" -> {"remove_required"}
    [] OTHER -> {}

ReconcileManualBlock(b) == IF managed /\ Live(b) THEN Wanted(b) ELSE Unwanted(b)

(* A job is taken from the queue; attempts at the limit and above count     *)
(* alike.                                                                   *)
Taking(b, n) == [queued EXCEPT ![b] = [queued[b] EXCEPT ![n] = @ - 1]]
Attempt(n) == IF n < MaxTries THEN n + 1 ELSE n
Overlapping(b) ==
  IF \E v \in Worker : \E x \in push[v] : x.of = b
  THEN [odd EXCEPT ![b] = @ \cup {"overlap"}] ELSE odd

(* Mutant: a job starts that another worker has taken.                      *)
StartPushTaken(w, b) ==
  /\ push[w] = {}
  /\ queued' = Taking(b, 0)
  /\ UNCHANGED <<appt, managed, push, block, open, helper, dead, had, odd, upsets>>
StartPush(w, b) ==
  \E n \in Tries :
    /\ push[w] = {} /\ queued[b][n] > 0
    /\ queued' = Taking(b, n)
    /\ push' = [push EXCEPT ![w] = {[of |-> b, next |-> s, time |-> appt[b].time, tries |-> Attempt(n)] :
                                      s \in ReconcileManualBlock(b)}]
    /\ dead' = IF ReconcileManualBlock(b) = {} THEN dead \ {b} ELSE dead
    /\ odd' = Overlapping(b)
    /\ UNCHANGED <<appt, managed, block, open, helper, had, upsets>>

Written(x) ==
  LET time == IF x.next = "action_required" THEN x.time ELSE block[x.of].time IN
  [block EXCEPT ![x.of] = [state |-> x.next, time |-> time, record |-> block[x.of].record]]

FinishPush(w) ==
  \E x \in push[w] :
    /\ block' = Written(x)
    /\ push' = [push EXCEPT ![w] = {}]
    /\ dead' = dead \ {x.of}
    /\ UNCHANGED <<appt, managed, queued, open, helper, had, odd, upsets>>

(* The n-th attempt at a job of b fails, or its worker is lost, and q is    *)
(* what else is queued: it is run again.  At the limit a job that fails is  *)
(* dead; one that is lost is run again all the same.                        *)
Again(q, b, n) ==
  \/ queued' = Queue(q, b, n) /\ dead' = dead
  \/ n = MaxTries /\ queued' = q /\ dead' = dead \cup {b}

(* It fails before it has read the booking ...                              *)
FailStart(w, b) ==
  \E n \in Tries :
    /\ push[w] = {} /\ queued[b][n] > 0 /\ Upset
    /\ Again(Taking(b, n), b, Attempt(n))
    /\ odd' = Overlapping(b)
    /\ UNCHANGED <<appt, managed, push, block, open, helper, had>>

(* ... or later, before or after it has written the block.                  *)
RetryPush(w) ==
  \E x \in push[w] :
    /\ Upset
    /\ block' \in {block, Written(x)}
    /\ push' = [push EXCEPT ![w] = {}]
    /\ Again(queued, x.of, x.tries)
    /\ UNCHANGED <<appt, managed, open, helper, had, odd>>

-----------------------------------------------------------------------------
(* A cycle of the helper: the requests and the busy times (POST             *)
(* /agent/plan), the day as the medium shows it, the whole day saved, the   *)
(* report (POST /agent/report).                                             *)

Requests == {b \in Booking : block[b].state \in {"action_required", "remove_required"}}

(* The stylist of a request is the booking's present one.                   *)
AgentPlan ==
  /\ helper.at = "resting" /\ managed /\ Requests # {}
  /\ helper' = [Resting EXCEPT !.at = "planned", !.busy = Busy,
                  !.tasks = {[of |-> b, state |-> block[b].state, staff |-> appt[b].staff,
                              time |-> block[b].time, record |-> block[b].record] : b \in Requests}]
  /\ UNCHANGED <<appt, managed, queued, push, block, open, dead, had, odd, upsets>>

ReadDay ==
  /\ helper.at = "planned"
  /\ helper' = [helper EXCEPT !.at = "read", !.day = open]
  /\ UNCHANGED <<appt, managed, queued, push, block, open, dead, had, odd, upsets>>

(* The cells to be closed for the request of a booking.                     *)
Closes(b) ==
  UNION {Needs(t.staff, t.time) : t \in {x \in helper.tasks : x.of = b /\ x.state = "action_required"}}
Closing == UNION {Closes(b) : b \in Booking}
(* What requests closed earlier is reopened unless a booking still needs it. *)
Reopening == UNION {t.record : t \in helper.tasks} \ (Closing \cup helper.busy)
(* The day after both, saved as a whole if it differs from what was read.   *)
Applied ==
  LET day == (helper.day \cup Reopening) \ Closing IN IF day = helper.day THEN open ELSE day

(* Mutant: a request records every cell of its booking.                     *)
TakenAll == {[b \in Booking |-> Closes(b)]}
(* What a request closes is recorded; a cell that two requests close is the *)
(* one's that comes first.                                                  *)
Taken ==
  LET cells == Closing \cap helper.day IN
  {f \in [Booking -> SUBSET cells] :
     /\ UNION {f[b] : b \in Booking} = cells
     /\ \A b \in Booking : f[b] \subseteq Closes(b)
     /\ \A b, c \in Booking : b # c => f[b] \cap f[c] = {}}

SaveDay ==
  /\ helper.at = "read"
  /\ open' = Applied
  /\ \E f \in Taken : helper' = [helper EXCEPT !.at = "saved", !.day = {}, !.busy = {}, !.done = f]
  /\ UNCHANGED <<appt, managed, queued, push, block, dead, had, odd, upsets>>

(* Mutant: a request counts as done although its booking moved meanwhile.   *)
ReportedDone(b, t) ==
  LET old == block[b] IN
  IF t.state = "remove_required"
  THEN IF old.state = "remove_required" THEN [old EXCEPT !.state = "removed", !.record = {}] ELSE old
  ELSE [old EXCEPT !.state = IF @ = "action_required" THEN "pushed" ELSE @, !.record = helper.done[b]]
Reported(b, t) ==
  LET old == block[b] IN
  IF t.state = "remove_required"
  THEN IF old.state = "remove_required" THEN [old EXCEPT !.state = "removed", !.record = {}] ELSE old
  ELSE IF old.state = "action_required" /\ old.time = t.time
       THEN [old EXCEPT !.state = "pushed", !.record = helper.done[b]]
       ELSE [old EXCEPT !.record = helper.done[b]]

AgentReport ==
  /\ helper.at = "saved"
  /\ block' = [b \in Booking |-> IF \E t \in helper.tasks : t.of = b
                                 THEN Reported(b, CHOOSE t \in helper.tasks : t.of = b)
                                 ELSE block[b]]
  /\ helper' = Resting
  /\ UNCHANGED <<appt, managed, queued, push, open, dead, had, odd, upsets>>

(* Chrome is closed, the medium refuses the save or answers too late, the   *)
(* report is lost: nothing reaches the requests.                            *)
CycleFails ==
  /\ helper.at # "resting" /\ Upset
  /\ open' \in IF helper.at = "read" THEN {open, Applied} ELSE {open}
  /\ helper' = Resting
  /\ UNCHANGED <<appt, managed, queued, push, block, dead, had, odd>>

(* Staff close or reopen the slots on the medium themselves and mark the    *)
(* request as done.                                                         *)
CompleteManualBlock(b) ==
  /\ b \in Requests /\ Upset
  /\ LET cells == Needs(appt[b].staff, block[b].time) IN
     IF block[b].state = "action_required"
     THEN /\ open' = open \ cells
          /\ block' = [block EXCEPT ![b] = [block[b] EXCEPT !.state = "pushed", !.record = {}]]
     ELSE /\ open' = open \cup (cells \ (Busy \cup Own))
          /\ block' = [block EXCEPT ![b] = [block[b] EXCEPT !.state = "removed", !.record = {}]]
  /\ odd' = [odd EXCEPT ![b] = @ \cup {"by_hand"}]
  /\ UNCHANGED <<appt, managed, queued, push, helper, dead, had>>

-----------------------------------------------------------------------------
Push(w) == (\E b \in Booking : StartPush(w, b)) \/ FinishPush(w)
Cycle == AgentPlan \/ ReadDay \/ SaveDay \/ AgentReport

Next ==
  \/ \E b \in Booking : \/ \E p \in Staff, t \in Time : Book(b, p, t) \/ Reschedule(b, p, t)
                        \/ CallOff(b) \/ Restore(b) \/ CompleteManualBlock(b)
  \/ HandOver \/ Cycle \/ CycleFails
  \/ \E w \in Worker : Push(w) \/ RetryPush(w) \/ \E b \in Booking : FailStart(w, b)

Spec == Init /\ [][Next]_vars

(* Workers run their jobs (JobQueue), and Chrome starts a cycle every ten   *)
(* minutes.                                                                 *)
FairSpec == Spec /\ WF_helper(Cycle) /\ WF_<<queued, push>>(\E w \in Worker : Push(w))

-----------------------------------------------------------------------------
(* push.ts: the job "reads the appointment's CURRENT state and makes the    *)
(* provider match it, so duplicate or out-of-order jobs are harmless".      *)
(* Once a booking's jobs are done, its block asks for or has what the       *)
(* booking needs, and asks for nothing when it needs nothing; unless two    *)
(* jobs of the booking overlapped, or the last of them has used up its      *)
(* attempts and is dead.                                                    *)
Matches(b) ==
  IF Live(b) THEN block[b].state \in {"action_required", "pushed"} /\ block[b].time = appt[b].time
  ELSE block[b].state \in {"none", "remove_required", "removed"}
Waiting(b) == \E n \in Tries : queued[b][n] > 0
JobsDone(b) == ~Waiting(b) /\ \A w \in Worker : \A x \in push[w] : x.of # b

Convergent ==
  \A b \in Booking : managed /\ JobsDone(b) /\ "overlap" \notin odd[b] /\ b \notin dead => Matches(b)

(* README of the helper: it reopens only slots that it has closed.  A cell  *)
(* that the salon itself keeps closed is never on sale.                     *)
OwnStayClosed == open \cap Own = {}

(* agent.ts: the helper holds the slots of the bookings on the medium.  In  *)
(* the end every live booking has its cells off sale for good, unless it    *)
(* came back to a time it had before, was settled by hand, had overlapping  *)
(* jobs or was left with a dead one.                                        *)
Held(b) == managed /\ Live(b) => Needs(appt[b].staff, appt[b].time) \cap open = {}
EndsHeld == \A b \in Booking : <>[](odd[b] = {} /\ b \notin dead => Held(b))
=============================================================================
