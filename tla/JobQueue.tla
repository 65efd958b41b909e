------------------------------ MODULE JobQueue ------------------------------
(***************************************************************************)
(* The durable job queue of apps/api/src/jobs/queue.ts: rows of the table  *)
(* "jobs", the business transactions that enqueue and cancel them, the     *)
(* worker processes that claim, run, finish and reap them, and the two     *)
(* operator actions of modules/ops/service.ts.                             *)
(*                                                                         *)
(* One action is one SQL transaction (or one statement of a transaction    *)
(* that stays open, where other transactions can run in between).  Time is *)
(* abstracted to two facts about a row: its run_at has passed ("due"), and *)
(* its locked_at is more than ten minutes old ("stale").                   *)
(***************************************************************************)
EXTENDS Naturals, FiniteSets, Functions

CONSTANTS
  Job,          \* identities of rows of the table "jobs"
  Key,          \* values of dedupe_key
  Worker,       \* worker processes (worker.ts)
  Slot,         \* the WORKER_CONCURRENCY places of a worker's "active" set
  Client,       \* connections running business transactions
  NoJob, NoKey, \* "no row" and SQL NULL
  MaxAttempts,  \* max_attempts of every row
  MaxFaults,    \* bound: crashes and shutdowns of workers
  MaxSlow,      \* bound: locks that age ten minutes under a live handler
  MaxRetries    \* bound: operator retries

ASSUME ConstantsAssumption ==
  /\ NoJob \notin Job
  /\ NoKey \notin Key
  /\ MaxAttempts \in Nat \ {0}
  /\ MaxFaults \in Nat
  /\ MaxSlow \in Nat
  /\ MaxRetries \in Nat

VARIABLES
  state,     \* jobs.state; "absent" before the row exists
  key,       \* jobs.dedupe_key
  attempts,  \* jobs.attempts
  due,       \* jobs.run_at <= now()
  stale,     \* jobs.locked_at < now() - 10 min, for a running row
  exec,      \* the handler invocations in the memory of each worker
  proc,      \* worker process: "up", "stopping" (SIGTERM seen), "down"
  tx,        \* business transactions between their enqueue and their commit
  owed,      \* history: a committed change of this key that no successful run has
             \* seen, by what its commit found: its own or another queued row
             \* ("covered"), only a running one ("midrun"), neither ("late")
  reaps,     \* history: times the row was reaped since its budget was reset
  faults, slow, retries   \* counters behind the bounds

rows == <<state, key, attempts, due, stale>>
bounds == <<faults, slow, retries>>
vars == <<state, key, attempts, due, stale, exec, proc, tx, owed, reaps, faults, slow, retries>>

States == {"absent", "queued", "running", "succeeded", "dead", "cancelled"}
Settled == {"succeeded", "dead", "cancelled"}

(* A handler invocation: the JobRow that claim() returned (its attempts are *)
(* a copy), and how its view of the data relates to committed changes.      *)
Execs == [job: Job \cup {NoJob}, attempts: Nat,
          phase: {"idle", "claimed", "fresh", "outdated"}]
Idle == [job |-> NoJob, attempts |-> 0, phase |-> "idle"]

NoTx == [open |-> FALSE, key |-> NoKey, row |-> NoJob]
Txs == [open: BOOLEAN, key: Key \cup {NoKey}, row: Job \cup {NoJob}]

TypeOK ==
  /\ state \in [Job -> States]
  /\ key \in [Job -> Key \cup {NoKey}]
  /\ attempts \in [Job -> Nat]
  /\ due \in [Job -> BOOLEAN]
  /\ stale \in [Job -> BOOLEAN]
  /\ exec \in [Worker -> [Slot -> Execs]]
  /\ proc \in [Worker -> {"up", "stopping", "down"}]
  /\ tx \in [Client -> Txs]
  /\ owed \in [Key -> {"none", "covered", "midrun", "late"}]
  /\ reaps \in [Job -> Nat]
  /\ faults \in Nat /\ slow \in Nat /\ retries \in Nat

Init ==
  /\ state = [j \in Job |-> "absent"]
  /\ key = [j \in Job |-> NoKey]
  /\ attempts = [j \in Job |-> 0]
  /\ due = [j \in Job |-> TRUE]
  /\ stale = [j \in Job |-> FALSE]
  /\ exec = [w \in Worker |-> [s \in Slot |-> Idle]]
  /\ proc = [w \in Worker |-> "up"]
  /\ tx = [c \in Client |-> NoTx]
  /\ owed = [k \in Key |-> "none"]
  /\ reaps = [j \in Job |-> 0]
  /\ faults = 0 /\ slow = 0 /\ retries = 0

-----------------------------------------------------------------------------
(* The partial unique index jobs_dedupe_idx: dedupe_key among queued rows.  *)

(* Mutant: the index of migration 0012, which ran over running rows too.     *)
UnsettledWith(k) == {j \in Job : state[j] \in {"queued", "running"} /\ key[j] = k}

QueuedWith(k) == {j \in Job : state[j] = "queued" /\ key[j] = k}

(* An uncommitted insert of key k: every other writer of k waits for it.    *)
Inserting(k) == \E c \in Client : tx[c].row # NoJob /\ tx[c].key = k

(* Mutant: the index has the wrong predicate (running rows only).           *)
NoRunningTwin(j) ==
  key[j] = NoKey \/ \A i \in Job \ {j} : state[i] = "running" => key[i] # key[j]

(* Row j may enter the index: no other queued row holds its key.            *)
IndexAdmits(j) == key[j] = NoKey \/ QueuedWith(key[j]) \subseteq {j}

(* Writing row j's index entry does not have to wait for a transaction.     *)
IndexFree(j) == key[j] = NoKey \/ ~Inserting(key[j])

-----------------------------------------------------------------------------
(* Business transactions.                                                   *)

(* enqueue(): INSERT ... ON CONFLICT DO NOTHING inside a transaction that   *)
(* stays open.  With a committed queued row of the same key there is        *)
(* nothing to insert; otherwise a new row is inserted, visible at commit.   *)
Enqueue(c, k, j) ==
  /\ ~tx[c].open
  /\ IF k # NoKey /\ QueuedWith(k) # {}
       THEN j = NoJob
       ELSE /\ j \in Job
            /\ state[j] = "absent"
            /\ \A d \in Client : tx[d].row # j
            /\ k = NoKey \/ ~Inserting(k)
  /\ tx' = [tx EXCEPT ![c] = [open |-> TRUE, key |-> k, row |-> j]]
  /\ UNCHANGED <<rows, exec, proc, owed, reaps, bounds>>

(* COMMIT: the row (runAt now or later) and the business change become      *)
(* visible together; runs of this key that already read are now outdated.   *)
Commit(c, now) ==
  LET k == tx[c].key
      j == tx[c].row
  IN /\ tx[c].open
     /\ IF j = NoJob
          THEN UNCHANGED rows
          ELSE /\ state' = [state EXCEPT ![j] = "queued"]
               /\ key' = [key EXCEPT ![j] = k]
               /\ due' = [due EXCEPT ![j] = now]
               /\ UNCHANGED <<attempts, stale>>
     /\ owed' = [x \in Key |->
                   IF x # k THEN owed[x]
                   ELSE IF j # NoJob \/ QueuedWith(k) # {} THEN "covered"
                   ELSE IF \E i \in Job : key[i] = k /\ state[i] = "running" THEN "midrun"
                   ELSE "late"]
     /\ exec' = [w \in Worker |-> [s \in Slot |->
                   IF /\ k # NoKey
                      /\ exec[w][s].phase = "fresh"
                      /\ key[exec[w][s].job] = k
                     THEN [exec[w][s] EXCEPT !.phase = "outdated"]
                     ELSE exec[w][s]]]
     /\ tx' = [tx EXCEPT ![c] = NoTx]
     /\ UNCHANGED <<proc, reaps, bounds>>

(* ROLLBACK: neither the change nor the job exists.                         *)
Rollback(c) ==
  /\ tx[c].open
  /\ tx' = [tx EXCEPT ![c] = NoTx]
  /\ UNCHANGED <<rows, exec, proc, owed, reaps, bounds>>

(* The work of the rows in J is given up on purpose: their changes too.     *)
Forgive(J) ==
  owed' = [k \in Key |-> IF \E j \in J : key[j] = k THEN "none" ELSE owed[k]]

(* Mutant: cancelJobs() without its condition on the state.                 *)
WithKeyIn(K) == {j \in Job : state[j] # "absent" /\ key[j] \in K}

(* The queued rows whose key starts with a prefix, that is, is in K.        *)
Cancellable(K) == {j \in Job : state[j] = "queued" /\ key[j] \in K}

(* cancelJobs().                                                            *)
CancelJobs(K) ==
  LET J == Cancellable(K)
  IN /\ J # {}
     /\ state' = [j \in Job |-> IF j \in J THEN "cancelled" ELSE state[j]]
     /\ Forgive(J)
     /\ UNCHANGED <<key, attempts, due, stale, exec, proc, tx, reaps, bounds>>

(* run_at passes.                                                           *)
BecomeDue(j) ==
  /\ state[j] = "queued" /\ ~due[j]
  /\ due' = [due EXCEPT ![j] = TRUE]
  /\ UNCHANGED <<state, key, attempts, stale, exec, proc, tx, owed, reaps, bounds>>

-----------------------------------------------------------------------------
(* Workers.                                                                 *)

(* Mutant: claim() also checks the budget.                                  *)
ReadyWithinBudget ==
  {j \in Job : state[j] = "queued" /\ due[j] /\ attempts[j] < MaxAttempts}

Ready == {j \in Job : state[j] = "queued" /\ due[j]}
FreeSlots(w) == {s \in Slot : exec[w][s].phase = "idle"}
Alive(j) == \E w \in Worker, s \in Slot : exec[w][s].job = j

(* claim(free): one UPDATE takes up to "free" ready rows; rows another      *)
(* transaction has locked are skipped, so any non-empty part may be taken.  *)
Claim(w, f) ==
  LET taken == Range(f)
  IN /\ proc[w] = "up"
     /\ state' = [j \in Job |-> IF j \in taken THEN "running" ELSE state[j]]
     /\ attempts' = [j \in Job |-> IF j \in taken THEN attempts[j] + 1 ELSE attempts[j]]
     /\ stale' = [j \in Job |-> IF j \in taken THEN FALSE ELSE stale[j]]
     /\ exec' = [exec EXCEPT ![w] = [s \in Slot |->
                   IF s \in DOMAIN f
                     THEN [job |-> f[s], attempts |-> attempts[f[s]] + 1, phase |-> "claimed"]
                     ELSE exec[w][s]]]
     /\ UNCHANGED <<key, due, proc, tx, owed, reaps, bounds>>

(* The batches a worker can claim: distinct ready rows in free slots.       *)
Batches(w) ==
  UNION {Injection(S, Ready) : S \in (SUBSET FreeSlots(w)) \ {{}}}

(* runJob(): the handler opens its transaction and reads committed data.    *)
Read(w, s) ==
  /\ exec[w][s].phase = "claimed"
  /\ exec' = [exec EXCEPT ![w][s].phase = "fresh"]
  /\ UNCHANGED <<rows, proc, tx, owed, reaps, bounds>>

(* The row that finish() writes, in slot s of worker w: UPDATE by id alone. *)
Running(w, s) == exec[w][s].phase # "idle"

(* Mutant: a finished run stays in the worker's active set.                 *)
Linger(w, s) == exec' = [exec EXCEPT ![w][s].phase = "finished"]

Vacate(w, s) == exec' = [exec EXCEPT ![w][s] = Idle]

(* Mutant: the budget is one attempt too large.                             *)
BudgetExceeded(e) == e.attempts > MaxAttempts

LastAttempt(e) == e.attempts >= MaxAttempts

(* finish() without an error.  The run served every change it had read.     *)
Succeed(w, s) ==
  LET e == exec[w][s]
  IN /\ e.phase \in {"fresh", "outdated"}
     /\ state' = [state EXCEPT ![e.job] = "succeeded"]
     /\ owed' = [k \in Key |->
                   IF e.phase = "fresh" /\ key[e.job] = k THEN "none" ELSE owed[k]]
     /\ Vacate(w, s)
     /\ UNCHANGED <<key, attempts, due, stale, proc, tx, reaps, bounds>>

(* finish() of a PermanentJobError (no handler registered, bad payload), or *)
(* of any error on the last attempt: the dead letter queue.                 *)
Die(w, s, permanent) ==
  LET e == exec[w][s]
  IN /\ Running(w, s)
     /\ permanent \/ LastAttempt(e)
     /\ state' = [state EXCEPT ![e.job] = "dead"]
     /\ Vacate(w, s)
     /\ UNCHANGED <<key, attempts, due, stale, proc, tx, owed, reaps, bounds>>

(* finish() of another error: back to the queue with a later run_at.        *)
Requeue(w, s) ==
  LET e == exec[w][s]
  IN /\ Running(w, s)
     /\ ~LastAttempt(e)
     /\ IndexFree(e.job) /\ IndexAdmits(e.job)
     /\ state' = [state EXCEPT ![e.job] = "queued"]
     /\ due' = [due EXCEPT ![e.job] = FALSE]
     /\ Vacate(w, s)
     /\ UNCHANGED <<key, attempts, stale, proc, tx, owed, reaps, bounds>>

(* The same UPDATE when a newer row of the key is queued: unique violation, *)
(* finish() throws, the row stays running.  runJob's promise rejects: it    *)
(* ends runWorker and with it the process, unless an earlier Promise.race   *)
(* or the final allSettled already handles that promise.                    *)
RequeueFails(w, s, ends) ==
  LET e == exec[w][s]
  IN /\ Running(w, s)
     /\ ~LastAttempt(e)
     /\ IndexFree(e.job) /\ ~IndexAdmits(e.job)
     /\ IF ends /\ proc[w] = "up"
          THEN /\ proc' = [proc EXCEPT ![w] = "down"]
               /\ exec' = [exec EXCEPT ![w] = [t \in Slot |-> Idle]]
          ELSE /\ Vacate(w, s)
               /\ UNCHANGED proc
     /\ UNCHANGED <<rows, tx, owed, reaps, bounds>>

(* Ten minutes pass since locked_at.  MaxSlow bounds how often that happens *)
(* while a handler of the row is still running somewhere.                   *)
LockAges(j) ==
  /\ state[j] = "running" /\ ~stale[j]
  /\ IF Alive(j)
       THEN slow < MaxSlow /\ slow' = slow + 1
       ELSE UNCHANGED slow
  /\ stale' = [stale EXCEPT ![j] = TRUE]
  /\ UNCHANGED <<state, key, attempts, due, exec, proc, tx, owed, reaps, faults, retries>>

(* Mutant: the reaper does not look at locked_at.                           *)
AllRunning == {j \in Job : state[j] = "running"}

Stale == {j \in Job : state[j] = "running" /\ stale[j]}

(* reapStaleJobs(): ONE UPDATE of every stale row.  If any of them finds    *)
(* its key in the index, the statement fails and none is re-queued (the     *)
(* worker logs "reap failed" and goes on: no change of state).              *)
ReapConflict ==
  \E i, j \in Job : /\ i # j
                    /\ key[i] = key[j] /\ key[j] # NoKey
                    /\ j \in Stale
                    /\ i \in Stale \/ state[i] = "queued"

Reap(w) ==
  /\ proc[w] = "up"
  /\ Stale # {}
  /\ \A j \in Stale : IndexFree(j)
  /\ ~ReapConflict
  /\ state' = [j \in Job |-> IF j \in Stale THEN "queued" ELSE state[j]]
  /\ reaps' = [j \in Job |-> IF j \in Stale THEN reaps[j] + 1 ELSE reaps[j]]
  /\ UNCHANGED <<key, attempts, due, stale, exec, proc, tx, owed, bounds>>

(* The process dies: its invocations vanish, its rows stay running.         *)
Crash(w) ==
  /\ proc[w] # "down"
  /\ faults < MaxFaults
  /\ faults' = faults + 1
  /\ proc' = [proc EXCEPT ![w] = "down"]
  /\ exec' = [exec EXCEPT ![w] = [s \in Slot |-> Idle]]
  /\ UNCHANGED <<rows, tx, owed, reaps, slow, retries>>

(* SIGTERM: runWorker leaves its loop and waits for the active runs.        *)
Stop(w) ==
  /\ proc[w] = "up"
  /\ faults < MaxFaults
  /\ faults' = faults + 1
  /\ proc' = [proc EXCEPT ![w] = "stopping"]
  /\ UNCHANGED <<rows, exec, tx, owed, reaps, slow, retries>>

(* Promise.allSettled(active) resolved: process.exit(0).                    *)
Exit(w) ==
  /\ proc[w] = "stopping"
  /\ FreeSlots(w) = Slot
  /\ proc' = [proc EXCEPT ![w] = "down"]
  /\ UNCHANGED <<rows, exec, tx, owed, reaps, bounds>>

(* The platform starts the worker again.                                    *)
Start(w) ==
  /\ proc[w] = "down"
  /\ proc' = [proc EXCEPT ![w] = "up"]
  /\ UNCHANGED <<rows, exec, tx, owed, reaps, bounds>>

-----------------------------------------------------------------------------
(* Operators (modules/ops/service.ts).                                      *)

(* retryJob(): a dead row, with no other queued or running row of its key,  *)
(* is queued again with a fresh budget.                                     *)
RetryJob(j) ==
  /\ retries < MaxRetries
  /\ state[j] = "dead"
  /\ \/ key[j] = NoKey
     \/ \A i \in Job \ {j} : key[i] = key[j] => state[i] \notin {"queued", "running"}
  /\ IndexFree(j)
  /\ state' = [state EXCEPT ![j] = "queued"]
  /\ attempts' = [attempts EXCEPT ![j] = 0]
  /\ due' = [due EXCEPT ![j] = TRUE]
  /\ stale' = [stale EXCEPT ![j] = FALSE]
  /\ reaps' = [reaps EXCEPT ![j] = 0]
  /\ retries' = retries + 1
  /\ UNCHANGED <<key, exec, proc, tx, owed, faults, slow>>

(* cancelJob().                                                             *)
CancelJob(j) ==
  /\ state[j] \in {"queued", "dead"}
  /\ state' = [state EXCEPT ![j] = "cancelled"]
  /\ Forgive({j})
  /\ UNCHANGED <<key, attempts, due, stale, exec, proc, tx, reaps, bounds>>

-----------------------------------------------------------------------------
ClientNext(c) ==
  \/ \E k \in Key \cup {NoKey}, j \in Job \cup {NoJob} : Enqueue(c, k, j)
  \/ \E now \in BOOLEAN : Commit(c, now)
  \/ Rollback(c)

Finish(w, s) ==
  \/ Succeed(w, s)
  \/ \E permanent \in BOOLEAN : Die(w, s, permanent)
  \/ Requeue(w, s)
  \/ \E ends \in BOOLEAN : RequeueFails(w, s, ends)

WorkerNext(w) ==
  \/ \E f \in Batches(w) : Claim(w, f)
  \/ \E s \in Slot : Read(w, s) \/ Finish(w, s)
  \/ Reap(w)
  \/ Crash(w)
  \/ Stop(w)
  \/ Exit(w)
  \/ Start(w)

ClockNext(j) == BecomeDue(j) \/ LockAges(j)

OperatorNext ==
  \/ \E K \in SUBSET Key : CancelJobs(K)
  \/ \E j \in Job : RetryJob(j) \/ CancelJob(j)

Next ==
  \/ \E c \in Client : ClientNext(c)
  \/ \E w \in Worker : WorkerNext(w)
  \/ \E j \in Job : ClockNext(j)
  \/ OperatorNext

Spec == Init /\ [][Next]_vars

(* What the code and its platform keep doing: transactions end, the loop of *)
(* a worker polls and reaps, a handler returns, time passes, a worker that  *)
(* is down is started again.  An UPDATE that waits for an uncommitted       *)
(* insert of its key is woken when that ends: strong fairness.              *)
Fairness ==
  /\ \A c \in Client : WF_vars(Rollback(c) \/ \E now \in BOOLEAN : Commit(c, now))
  /\ \A w \in Worker : /\ WF_vars(\E f \in Batches(w) : Claim(w, f))
                       /\ SF_vars(Reap(w))
                       /\ WF_vars(Start(w))
                       /\ WF_vars(Exit(w))
                       /\ \A s \in Slot : SF_vars(Finish(w, s))
  /\ \A j \in Job : WF_vars(BecomeDue(j)) /\ WF_vars(LockAges(j))

FairSpec == Spec /\ Fairness

-----------------------------------------------------------------------------
(* Properties.                                                              *)

(* A row is executed by one handler at a time, and while it is, the row is  *)
(* running and its attempts are the ones the handler was given: claim()'s   *)
(* row lock, the reaper and finish()'s UPDATE by id never hand one job to   *)
(* two workers.  (Assumes MaxSlow = 0: no handler outlives its lock.)       *)
ExclusiveExecution ==
  \A w \in Worker, s \in Slot : Running(w, s) =>
    LET e == exec[w][s]
    IN /\ state[e.job] = "running"
       /\ ~stale[e.job]
       /\ attempts[e.job] = e.attempts
       /\ \A v \in Worker, t \in Slot : exec[v][t].job = e.job => v = w /\ t = s

(* At most one queued row, committed or being inserted, per dedupe key,     *)
(* whatever enqueue, retry, reap and operator do (migration 0091).          *)
UniqueQueuedKey ==
  /\ \A i, j \in Job : /\ state[i] = "queued" /\ state[j] = "queued"
                       /\ key[i] = key[j] /\ key[j] # NoKey
                       => i = j
  /\ \A c \in Client, j \in Job : /\ tx[c].row # NoJob /\ tx[c].key # NoKey
                                  /\ state[j] = "queued"
                                  => key[j] # tx[c].key

(* The attempt budget: a row is claimed at most max_attempts times plus     *)
(* once for each time the reaper gave it back (queue.ts counts the lost     *)
(* runs but checks the budget only in finish()).                            *)
AttemptBudget ==
  \A j \in Job : /\ attempts[j] <= MaxAttempts + reaps[j]
                 /\ state[j] = "queued" => attempts[j] < MaxAttempts + reaps[j]

(* A change whose enqueue found or made a queued row still there at commit  *)
(* is not forgotten: until a successful run has read it, some row of the    *)
(* key is queued, in the DLQ, lost with its worker, or about to read it.    *)
Pending(j) ==
  \/ state[j] \in {"queued", "dead"}
  \/ /\ state[j] = "running"
     /\ \A w \in Worker, s \in Slot :
          exec[w][s].job = j => exec[w][s].phase # "outdated"

WillBeSeen(k) == \E j \in Job : key[j] = k /\ Pending(j)

CoveredChangeNotLost == \A k \in Key : owed[k] = "covered" => WillBeSeen(k)

(* The same for a change committed while a row of its key is running and    *)
(* none is queued: "(a change committed while the same job is running       *)
(* enqueues a fresh run instead of being lost)", queue.ts lines 11-12.      *)
MidRunChangeNotLost == \A k \in Key : owed[k] = "midrun" => WillBeSeen(k)

(* A settled job stays settled: succeeded and cancelled are final, and a    *)
(* dead job is only retried by an operator, with a fresh budget             *)
(* (architecture.md 5.1).                                                   *)
SettledIsFinal ==
  [][\A j \in Job :
       /\ state[j] \in {"succeeded", "cancelled"} => state'[j] = state[j]
       /\ state[j] = "dead" => \/ state'[j] \in {"dead", "cancelled"}
                               \/ state'[j] = "queued" /\ attempts'[j] = 0]_vars

(* Every committed job settles, through failures, crashes, shutdowns and    *)
(* handlers that outlive their lock.                                        *)
EveryJobSettles ==
  \A j \in Job : state[j] = "queued" ~> state[j] \in Settled

(* operations.md:124: a running job whose worker was killed goes back to    *)
(* the queue by itself after ten minutes.                                   *)
LostJobsComeBack ==
  \A j \in Job : (state[j] = "running" /\ ~Alive(j)) ~> state[j] # "running"
=============================================================================
