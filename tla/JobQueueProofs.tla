--------------------------- MODULE JobQueueProofs ---------------------------
(***************************************************************************)
(* Theorems about JobQueue for every set of rows, keys, workers, slots and *)
(* clients and every budget.  Those that assume MaxSlow = 0 assume that no *)
(* handler runs longer than the ten minutes of its lock.                   *)
(***************************************************************************)
EXTENDS JobQueue, TLAPS

(* Exactly the busy slots hold a row.                                       *)
SlotsOK ==
  \A w \in Worker, s \in Slot : exec[w][s].phase = "idle" <=> exec[w][s].job = NoJob

(* What claim() returns for a batch: in range, distinct, and ready.         *)
LEMMA BatchFacts ==
  ASSUME NEW w \in Worker, NEW f \in Batches(w)
  PROVE  /\ DOMAIN f \subseteq FreeSlots(w)
         /\ \A s \in DOMAIN f : f[s] \in Ready
         /\ Range(f) = {f[s] : s \in DOMAIN f}
         /\ \A s, t \in DOMAIN f : f[s] = f[t] => s = t
<1>1. PICK S \in (SUBSET FreeSlots(w)) \ {{}} : f \in Injection(S, Ready)
  BY DEF Batches
<1>2. f \in [S -> Ready] /\ IsInjective(f)
  BY <1>1 DEF Injection
<1> QED
  BY <1>2 DEF IsInjective, Range

-----------------------------------------------------------------------------
(* Type correctness, with the shape of the slots it rests on.               *)

TypeInv == TypeOK /\ SlotsOK

LEMMA TypeInit == Init => TypeInv
BY ConstantsAssumption
   DEF Init, TypeInv, TypeOK, SlotsOK, States, Execs, Idle, Txs, NoTx

LEMMA TypeStep == TypeInv /\ [Next]_vars => TypeInv'
<1> SUFFICES ASSUME TypeInv, [Next]_vars PROVE TypeInv'
  OBVIOUS
<1> USE ConstantsAssumption DEF TypeInv, TypeOK, SlotsOK, States, rows, bounds
<1>1. ASSUME NEW c \in Client, NEW k \in Key \cup {NoKey}, NEW j \in Job \cup {NoJob},
             Enqueue(c, k, j)
      PROVE  TypeInv'
  BY <1>1 DEF Enqueue, Txs
<1>2. ASSUME NEW c \in Client, NEW now \in BOOLEAN, Commit(c, now) PROVE TypeInv'
  <2>1. tx[c].key \in Key \cup {NoKey} /\ tx[c].row \in Job \cup {NoJob}
    BY DEF Txs
  <2>2. /\ state' \in [Job -> States] /\ key' \in [Job -> Key \cup {NoKey}]
        /\ due' \in [Job -> BOOLEAN] /\ attempts' \in [Job -> Nat]
        /\ stale' \in [Job -> BOOLEAN]
    BY <1>2, <2>1 DEF Commit
  <2>3. owed' \in [Key -> {"none", "covered", "midrun", "late"}]
    BY <1>2 DEF Commit
  <2>4. exec' \in [Worker -> [Slot -> Execs]] /\ SlotsOK'
    BY <1>2 DEF Commit, Execs
  <2>5. tx' \in [Client -> Txs]
    BY <1>2 DEF Commit, Txs, NoTx
  <2> QED
    BY <1>2, <2>2, <2>3, <2>4, <2>5 DEF Commit
<1>3. ASSUME NEW c \in Client, Rollback(c) PROVE TypeInv'
  BY <1>3 DEF Rollback, Txs, NoTx
<1>4. ASSUME NEW w \in Worker, NEW f \in Batches(w), Claim(w, f) PROVE TypeInv'
  <2>1. /\ state' \in [Job -> States]
        /\ attempts' \in [Job -> Nat]
        /\ stale' \in [Job -> BOOLEAN]
    <3>1. state' \in [Job -> States]
      BY <1>4 DEF Claim
    <3>2. attempts' \in [Job -> Nat]
      BY <1>4 DEF Claim
    <3>3. stale' = [j \in Job |-> IF j \in Range(f) THEN FALSE ELSE stale[j]]
      BY <1>4 DEF Claim
    <3>4. stale' \in [Job -> BOOLEAN]
      BY <3>3, Zenon
    <3> QED
      BY <3>1, <3>2, <3>4
  <2>2. \A s \in DOMAIN f : f[s] \in Job
    BY BatchFacts DEF Ready
  <2>3. exec' \in [Worker -> [Slot -> Execs]] /\ SlotsOK'
    BY <1>4, <2>2 DEF Claim, Execs
  <2> QED
    BY <1>4, <2>1, <2>3 DEF Claim
<1>5. ASSUME NEW w \in Worker, NEW s \in Slot, Read(w, s) PROVE TypeInv'
  <2>1. exec[w][s] \in Execs /\ exec[w][s].job # NoJob
    BY <1>5 DEF Read
  <2>2. exec' \in [Worker -> [Slot -> Execs]]
    BY <1>5, <2>1 DEF Read, Execs
  <2>3. SlotsOK'
    BY <1>5, <2>1 DEF Read, Execs
  <2> QED
    BY <1>5, <2>2, <2>3 DEF Read
<1>6. ASSUME NEW w \in Worker, NEW s \in Slot, Succeed(w, s) PROVE TypeInv'
  BY <1>6 DEF Succeed, Vacate, Idle, Execs
<1>7. ASSUME NEW w \in Worker, NEW s \in Slot, NEW b \in BOOLEAN, Die(w, s, b) PROVE TypeInv'
  BY <1>7 DEF Die, Vacate, Idle, Execs
<1>8. ASSUME NEW w \in Worker, NEW s \in Slot, Requeue(w, s) PROVE TypeInv'
  BY <1>8 DEF Requeue, Vacate, Idle, Execs
<1>9. ASSUME NEW w \in Worker, NEW s \in Slot, NEW b \in BOOLEAN, RequeueFails(w, s, b)
      PROVE  TypeInv'
  <2>1. exec' \in [Worker -> [Slot -> Execs]] /\ SlotsOK'
    <3>0. \/ exec' = [exec EXCEPT ![w] = [t \in Slot |-> Idle]]
          \/ exec' = [exec EXCEPT ![w][s] = Idle]
      BY <1>9, Zenon DEF RequeueFails, Vacate
    <3>1. CASE exec' = [exec EXCEPT ![w] = [t \in Slot |-> Idle]]
      BY <3>1 DEF Idle, Execs
    <3>2. CASE exec' = [exec EXCEPT ![w][s] = Idle]
      BY <3>2 DEF Idle, Execs
    <3> QED
      BY <3>0, <3>1, <3>2
  <2>2. proc' = [proc EXCEPT ![w] = "down"] \/ proc' = proc
    BY <1>9, Zenon DEF RequeueFails
  <2>3. UNCHANGED <<rows, tx, owed, reaps, bounds>>
    BY <1>9, Zenon DEF RequeueFails
  <2> QED
    BY <2>1, <2>2, <2>3
<1>10. ASSUME NEW w \in Worker, Reap(w) PROVE TypeInv'
  BY <1>10 DEF Reap
<1>11. ASSUME NEW w \in Worker, Crash(w) PROVE TypeInv'
  BY <1>11 DEF Crash, Idle, Execs
<1>12. ASSUME NEW w \in Worker, Stop(w) PROVE TypeInv'
  BY <1>12 DEF Stop
<1>13. ASSUME NEW w \in Worker, Exit(w) PROVE TypeInv'
  BY <1>13 DEF Exit
<1>14. ASSUME NEW w \in Worker, Start(w) PROVE TypeInv'
  BY <1>14 DEF Start
<1>15. ASSUME NEW j \in Job, BecomeDue(j) PROVE TypeInv'
  BY <1>15 DEF BecomeDue
<1>16. ASSUME NEW j \in Job, LockAges(j) PROVE TypeInv'
  BY <1>16 DEF LockAges
<1>17. ASSUME NEW K \in SUBSET Key, CancelJobs(K) PROVE TypeInv'
  BY <1>17 DEF CancelJobs, Forgive
<1>18. ASSUME NEW j \in Job, RetryJob(j) PROVE TypeInv'
  BY <1>18 DEF RetryJob
<1>19. ASSUME NEW j \in Job, CancelJob(j) PROVE TypeInv'
  BY <1>19 DEF CancelJob, Forgive
<1>20. CASE UNCHANGED vars
  BY <1>20 DEF vars
<1> QED
  BY <1>1, <1>2, <1>3, <1>4, <1>5, <1>6, <1>7, <1>8, <1>9, <1>10, <1>11, <1>12, <1>13,
     <1>14, <1>15, <1>16, <1>17, <1>18, <1>19, <1>20
  DEF Next, ClientNext, WorkerNext, Finish, ClockNext, OperatorNext

(* Every reachable state has the declared types.                            *)
THEOREM TypeCorrect == Spec => []TypeOK
<1>1. TypeInv => TypeOK
  BY DEF TypeInv
<1> QED
  BY TypeInit, TypeStep, <1>1, PTL DEF Spec

-----------------------------------------------------------------------------
(* The dedupe index.                                                        *)

(* Uncommitted inserts hold distinct rows that do not exist yet, and        *)
(* distinct keys (the second insert of a key waits).                        *)
TxRows ==
  \A c \in Client : tx[c].row # NoJob =>
    /\ state[tx[c].row] = "absent"
    /\ \A d \in Client : /\ tx[d].row # NoJob
                         /\ \/ tx[d].row = tx[c].row
                            \/ tx[d].key = tx[c].key /\ tx[c].key # NoKey
                         => d = c

(* Handlers run rows that exist.                                            *)
ExecRows ==
  \A w \in Worker, s \in Slot :
    exec[w][s].job # NoJob => state[exec[w][s].job] # "absent"

IndexInv == TxRows /\ ExecRows /\ UniqueQueuedKey

(* A step that queues no row, creates none and starts no handler.           *)
LEMMA IndexShrinks ==
  ASSUME TypeInv, TypeInv', IndexInv,
         UNCHANGED <<key, tx>>,
         \A j \in Job : /\ state'[j] = "queued" => state[j] = "queued"
                        /\ state'[j] = "absent" <=> state[j] = "absent",
         \A w \in Worker, s \in Slot : exec'[w][s].job \in {NoJob, exec[w][s].job}
  PROVE  IndexInv'
<1> USE DEF TypeInv, TypeOK, Execs, Txs
<1>1. TxRows'
  BY DEF IndexInv, TxRows
<1>2. ExecRows'
  BY DEF IndexInv, ExecRows
<1>3. UniqueQueuedKey'
  BY DEF IndexInv, UniqueQueuedKey
<1> QED
  BY <1>1, <1>2, <1>3 DEF IndexInv

(* A step that queues the rows of J, whose keys are free in the index.      *)
LEMMA IndexGrows ==
  ASSUME TypeInv, TypeInv', IndexInv,
         NEW J \in SUBSET Job,
         UNCHANGED <<key, tx>>,
         \A j \in Job : state'[j] = IF j \in J THEN "queued" ELSE state[j],
         \A j \in J : state[j] # "absent" /\ IndexFree(j) /\ IndexAdmits(j),
         \A i, j \in J : key[i] = key[j] /\ key[j] # NoKey => i = j,
         \A w \in Worker, s \in Slot : exec'[w][s].job \in {NoJob, exec[w][s].job}
  PROVE  IndexInv'
<1> USE DEF TypeInv, TypeOK, Execs, Txs
<1>1. TxRows'
  BY DEF IndexInv, TxRows
<1>2. ExecRows'
  BY DEF IndexInv, ExecRows
<1>3. UniqueQueuedKey'
  BY DEF IndexInv, UniqueQueuedKey, QueuedWith, IndexFree, IndexAdmits, Inserting
<1> QED
  BY <1>1, <1>2, <1>3 DEF IndexInv

LEMMA IndexInit == Init => IndexInv
BY ConstantsAssumption
   DEF Init, IndexInv, TxRows, ExecRows, UniqueQueuedKey, NoTx, Idle

LEMMA IndexStep == TypeInv /\ TypeInv' /\ IndexInv /\ [Next]_vars => IndexInv'
<1> SUFFICES ASSUME TypeInv, TypeInv', IndexInv, [Next]_vars PROVE IndexInv'
  OBVIOUS
<1> USE DEF rows, bounds
<1>0. \A w \in Worker, s \in Slot :
        /\ exec[w][s] \in Execs
        /\ Running(w, s) <=> exec[w][s].job # NoJob
        /\ Running(w, s) => exec[w][s].job \in Job
        /\ Running(w, s) => state[exec[w][s].job] # "absent"
  BY DEF TypeInv, TypeOK, SlotsOK, Running, IndexInv, ExecRows, Execs
<1>1. ASSUME NEW c \in Client, NEW k \in Key \cup {NoKey}, NEW j \in Job \cup {NoJob},
             Enqueue(c, k, j)
      PROVE  IndexInv'
  <2>1. UNCHANGED <<state, key, exec>>
    BY <1>1 DEF Enqueue
  <2>2. tx' = [tx EXCEPT ![c] = [open |-> TRUE, key |-> k, row |-> j]]
    BY <1>1 DEF Enqueue
  <2>3. j # NoJob => /\ state[j] = "absent"
                     /\ \A d \in Client : tx[d].row # j
                     /\ k # NoKey => ~Inserting(k) /\ QueuedWith(k) = {}
    BY <1>1 DEF Enqueue, QueuedWith
  <2>4. TxRows'
    BY <2>1, <2>2, <2>3 DEF IndexInv, TxRows, Inserting, TypeInv, TypeOK
  <2>5. ExecRows'
    BY <2>1 DEF IndexInv, ExecRows
  <2>6. UniqueQueuedKey'
    <3>1. \A d \in Client, i \in Job :
            /\ tx'[d].row # NoJob
            /\ tx'[d].key # NoKey
            /\ state[i] = "queued"
            => key[i] # tx'[d].key
      <4> SUFFICES ASSUME NEW d \in Client, NEW i \in Job,
                          tx'[d].row # NoJob, tx'[d].key # NoKey, state[i] = "queued"
                   PROVE  key[i] # tx'[d].key
        OBVIOUS
      <4>1. CASE d = c
        <5>1. tx'[d] = [open |-> TRUE, key |-> k, row |-> j]
          BY <2>2, <4>1 DEF TypeInv, TypeOK
        <5> QED
          BY <2>3, <5>1 DEF QueuedWith
      <4>2. CASE d # c
        BY <2>2, <4>2 DEF IndexInv, UniqueQueuedKey, TypeInv, TypeOK
      <4> QED
        BY <4>1, <4>2
    <3> QED
      BY <2>1, <3>1 DEF IndexInv, UniqueQueuedKey
  <2> QED
    BY <2>4, <2>5, <2>6 DEF IndexInv
<1>2. ASSUME NEW c \in Client, NEW now \in BOOLEAN, Commit(c, now) PROVE IndexInv'
  <2>1. tx' = [tx EXCEPT ![c] = NoTx]
    BY <1>2 DEF Commit
  <2>2. \A w \in Worker, s \in Slot : exec'[w][s].job = exec[w][s].job
    BY <1>2, <1>0 DEF Commit, TypeInv, TypeOK, Execs
  <2>3. tx[c].row \in Job \cup {NoJob}
    BY DEF TypeInv, TypeOK, Txs
  <2>4. CASE tx[c].row = NoJob
    <3>1. UNCHANGED <<state, key>>
      BY <1>2, <2>4 DEF Commit
    <3>2. \A d \in Client : tx'[d].row # NoJob => tx'[d] = tx[d]
      BY <2>1 DEF TypeInv, TypeOK, NoTx
    <3>3. TxRows'
      BY <3>1, <3>2 DEF IndexInv, TxRows
    <3>4. ExecRows'
      BY <2>2, <3>1 DEF IndexInv, ExecRows
    <3>5. UniqueQueuedKey'
      BY <3>1, <3>2 DEF IndexInv, UniqueQueuedKey
    <3> QED
      BY <3>3, <3>4, <3>5 DEF IndexInv
  <2>5. CASE tx[c].row # NoJob
    <3> DEFINE j == tx[c].row
    <3>1. /\ state' = [state EXCEPT ![j] = "queued"]
          /\ key' = [key EXCEPT ![j] = tx[c].key]
      BY <1>2, <2>5 DEF Commit
    <3>2. j \in Job /\ state[j] = "absent"
      BY <2>3, <2>5 DEF IndexInv, TxRows
    <3>3. \A x \in Job : tx[c].key # NoKey /\ state[x] = "queued" => key[x] # tx[c].key
      BY <2>5 DEF IndexInv, UniqueQueuedKey
    <3>4. TxRows'
      BY <2>1, <2>5, <3>1, <3>2 DEF IndexInv, TxRows, TypeInv, TypeOK, NoTx, Txs
    <3>5. ExecRows'
      <4>1. \A x \in Job : state'[x] = "absent" => state[x] = "absent"
        BY <3>1, <3>2 DEF TypeInv, TypeOK
      <4> QED
        BY <1>0, <2>2, <4>1 DEF IndexInv, ExecRows
    <3>6. UniqueQueuedKey'
      <4>1. \A x, y \in Job : /\ state'[x] = "queued" /\ state'[y] = "queued"
                              /\ key'[x] = key'[y] /\ key'[y] # NoKey
                              => x = y
        <5>1. \A x \in Job \ {j} : state'[x] = state[x] /\ key'[x] = key[x]
          BY <3>1 DEF TypeInv, TypeOK
        <5>2. key'[j] = tx[c].key
          BY <3>1, <3>2 DEF TypeInv, TypeOK
        <5>3. ASSUME NEW x \in Job \ {j}, state'[x] = "queued", key'[x] # NoKey
              PROVE  key'[x] # key'[j]
          BY <3>3, <5>1, <5>2, <5>3
        <5>4. \A x, y \in Job \ {j} : /\ state'[x] = "queued" /\ state'[y] = "queued"
                                      /\ key'[x] = key'[y] /\ key'[y] # NoKey
                                      => x = y
          BY <5>1 DEF IndexInv, UniqueQueuedKey
        <5> QED
          BY <5>3, <5>4
      <4>2. ASSUME NEW d \in Client, tx'[d].row # NoJob, tx'[d].key # NoKey,
                   NEW x \in Job, state'[x] = "queued", key'[x] = tx'[d].key
            PROVE  FALSE
        <5>1. d # c /\ tx'[d] = tx[d]
          BY <2>1, <4>2 DEF NoTx, TypeInv, TypeOK
        <5>2. tx[d].key # tx[c].key
          BY <2>5, <4>2, <5>1 DEF IndexInv, TxRows
        <5>3. x # j /\ state[x] = "queued" /\ key[x] = tx[d].key
          BY <3>1, <3>2, <4>2, <5>1, <5>2 DEF TypeInv, TypeOK
        <5> QED
          BY <4>2, <5>1, <5>3 DEF IndexInv, UniqueQueuedKey
      <4> QED
        BY <4>1, <4>2 DEF UniqueQueuedKey
    <3> QED
      BY <3>4, <3>5, <3>6 DEF IndexInv
  <2> QED
    BY <2>4, <2>5
<1>3. ASSUME NEW c \in Client, Rollback(c) PROVE IndexInv'
  <2>1. UNCHANGED <<state, key, exec>> /\ tx' = [tx EXCEPT ![c] = NoTx]
    BY <1>3 DEF Rollback
  <2> QED
    BY <2>1 DEF IndexInv, TxRows, ExecRows, UniqueQueuedKey, TypeInv, TypeOK, NoTx
<1>4. ASSUME NEW w \in Worker, NEW f \in Batches(w), Claim(w, f) PROVE IndexInv'
  <2>1. UNCHANGED <<key, tx>>
    BY <1>4 DEF Claim
  <2>2. \A j \in Job : /\ j \in Range(f) => state[j] = "queued" /\ state'[j] = "running"
                       /\ j \notin Range(f) => state'[j] = state[j]
    BY <1>4, BatchFacts DEF Claim, Ready
  <2>3. TxRows'
    <3>1. \A c \in Client : tx[c].row \in Job \cup {NoJob}
      BY DEF TypeInv, TypeOK, Txs
    <3>2. \A j \in Job : state[j] = "absent" => state'[j] = "absent"
      BY <2>2
    <3> QED
      BY <2>1, <3>1, <3>2 DEF IndexInv, TxRows
  <2>4. ASSUME NEW v \in Worker, NEW s \in Slot
        PROVE  \/ exec'[v][s].job = exec[v][s].job
               \/ exec'[v][s].job \in Range(f) /\ exec'[v][s].job \in Job
    BY <1>4, BatchFacts DEF Claim, Ready, TypeInv, TypeOK
  <2>5. ExecRows'
    <3> SUFFICES ASSUME NEW v \in Worker, NEW s \in Slot, exec'[v][s].job # NoJob
                 PROVE  state'[exec'[v][s].job] # "absent"
      BY DEF ExecRows
    <3>1. CASE exec'[v][s].job = exec[v][s].job
      BY <1>0, <2>2, <3>1
    <3>2. CASE exec'[v][s].job \in Range(f) /\ exec'[v][s].job \in Job
      BY <2>2, <3>2
    <3> QED
      BY <2>4, <3>1, <3>2
  <2>6. UniqueQueuedKey'
    <3>1. \A j \in Job : state'[j] = "queued" => state[j] = "queued"
      BY <2>2
    <3> QED
      BY <2>1, <3>1 DEF IndexInv, UniqueQueuedKey
  <2> QED
    BY <2>3, <2>5, <2>6 DEF IndexInv
<1>5. ASSUME NEW w \in Worker, NEW s \in Slot, Read(w, s) PROVE IndexInv'
  <2>1. UNCHANGED <<state, key, tx>>
    BY <1>5 DEF Read
  <2>2. \A v \in Worker, t \in Slot : exec'[v][t].job = exec[v][t].job
    BY <1>5 DEF Read, TypeInv, TypeOK, Execs
  <2> QED
    BY <2>1, <2>2, IndexShrinks
<1>6. ASSUME NEW w \in Worker, NEW s \in Slot, Succeed(w, s) PROVE IndexInv'
  <2>1. UNCHANGED <<key, tx>> /\ Running(w, s)
    BY <1>6 DEF Succeed, Running
  <2>2. state' = [state EXCEPT ![exec[w][s].job] = "succeeded"]
    BY <1>6 DEF Succeed
  <2>3. exec' = [exec EXCEPT ![w][s] = Idle]
    BY <1>6 DEF Succeed, Vacate
  <2> QED
    BY <1>0, <2>1, <2>2, <2>3, IndexShrinks DEF Idle, TypeInv, TypeOK
<1>7. ASSUME NEW w \in Worker, NEW s \in Slot, NEW b \in BOOLEAN, Die(w, s, b) PROVE IndexInv'
  BY <1>7, <1>0, IndexShrinks DEF Die, Vacate, Idle, TypeInv, TypeOK
<1>8. ASSUME NEW w \in Worker, NEW s \in Slot, Requeue(w, s) PROVE IndexInv'
  <2> DEFINE J == {exec[w][s].job}
  <2>1. J \in SUBSET Job /\ \A j \in J : state[j] # "absent" /\ IndexFree(j) /\ IndexAdmits(j)
    BY <1>8, <1>0 DEF Requeue
  <2>2. UNCHANGED <<key, tx>>
    BY <1>8 DEF Requeue
  <2>3. \A j \in Job : state'[j] = IF j \in J THEN "queued" ELSE state[j]
    BY <1>8 DEF Requeue, TypeInv, TypeOK
  <2>4. \A v \in Worker, t \in Slot : exec'[v][t].job \in {NoJob, exec[v][t].job}
    BY <1>8 DEF Requeue, Vacate, Idle, TypeInv, TypeOK
  <2> QED
    BY <2>1, <2>2, <2>3, <2>4, IndexGrows
<1>9. ASSUME NEW w \in Worker, NEW s \in Slot, NEW b \in BOOLEAN, RequeueFails(w, s, b)
      PROVE  IndexInv'
  <2>1. UNCHANGED <<state, key, tx>>
    BY <1>9, Zenon DEF RequeueFails
  <2>2. \/ exec' = [exec EXCEPT ![w] = [t \in Slot |-> Idle]]
        \/ exec' = [exec EXCEPT ![w][s] = Idle]
    BY <1>9, Zenon DEF RequeueFails, Vacate
  <2>3. \A v \in Worker, t \in Slot : exec'[v][t].job \in {NoJob, exec[v][t].job}
    <3>1. CASE exec' = [exec EXCEPT ![w] = [t \in Slot |-> Idle]]
      BY <3>1 DEF Idle, TypeInv, TypeOK
    <3>2. CASE exec' = [exec EXCEPT ![w][s] = Idle]
      BY <3>2 DEF Idle, TypeInv, TypeOK
    <3> QED
      BY <2>2, <3>1, <3>2
  <2> QED
    BY <2>1, <2>3, IndexShrinks
<1>10. ASSUME NEW w \in Worker, Reap(w) PROVE IndexInv'
  <2>1. /\ Stale \in SUBSET Job
        /\ \A j \in Stale : state[j] # "absent" /\ IndexFree(j) /\ IndexAdmits(j)
    BY <1>10 DEF Reap, Stale, ReapConflict, IndexAdmits, QueuedWith
  <2>2. \A i, j \in Stale : key[i] = key[j] /\ key[j] # NoKey => i = j
    BY <1>10 DEF Reap, Stale, ReapConflict
  <2>3. \A j \in Job : state'[j] = IF j \in Stale THEN "queued" ELSE state[j]
    BY <1>10 DEF Reap
  <2>4. UNCHANGED <<key, tx, exec>>
    BY <1>10 DEF Reap
  <2> QED
    BY <2>1, <2>2, <2>3, <2>4, IndexGrows
<1>11. ASSUME NEW w \in Worker, Crash(w) PROVE IndexInv'
  BY <1>11, IndexShrinks DEF Crash, Idle, TypeInv, TypeOK
<1>12. ASSUME NEW w \in Worker, Stop(w) \/ Exit(w) \/ Start(w) PROVE IndexInv'
  BY <1>12, IndexShrinks DEF Stop, Exit, Start
<1>13. ASSUME NEW j \in Job, BecomeDue(j) \/ LockAges(j) PROVE IndexInv'
  BY <1>13, IndexShrinks DEF BecomeDue, LockAges
<1>14. ASSUME NEW K \in SUBSET Key, CancelJobs(K) PROVE IndexInv'
  BY <1>14, IndexShrinks DEF CancelJobs, Cancellable
<1>15. ASSUME NEW j \in Job, RetryJob(j) PROVE IndexInv'
  <2>1. \A i \in {j} : state[i] # "absent" /\ IndexFree(i) /\ IndexAdmits(i)
    BY <1>15 DEF RetryJob, IndexAdmits, QueuedWith
  <2>2. \A i \in Job : state'[i] = IF i \in {j} THEN "queued" ELSE state[i]
    BY <1>15 DEF RetryJob, TypeInv, TypeOK
  <2>3. UNCHANGED <<key, tx, exec>>
    BY <1>15 DEF RetryJob
  <2> QED
    BY <2>1, <2>2, <2>3, IndexGrows
<1>16. ASSUME NEW j \in Job, CancelJob(j) PROVE IndexInv'
  BY <1>16, IndexShrinks DEF CancelJob, TypeInv, TypeOK
<1>17. CASE UNCHANGED vars
  BY <1>17, IndexShrinks DEF vars
<1> QED
  BY <1>1, <1>2, <1>3, <1>4, <1>5, <1>6, <1>7, <1>8, <1>9, <1>10, <1>11, <1>12, <1>13,
     <1>14, <1>15, <1>16, <1>17
  DEF Next, ClientNext, WorkerNext, Finish, ClockNext, OperatorNext

(* However enqueue, commit, retry, reap and the operator interleave, and    *)
(* even when handlers outlive their locks, no key is queued twice.          *)
THEOREM UniqueQueued == Spec => []UniqueQueuedKey
<1>1. IndexInv => UniqueQueuedKey
  BY DEF IndexInv
<1> QED
  BY TypeInit, TypeStep, IndexInit, IndexStep, <1>1, PTL DEF Spec

-----------------------------------------------------------------------------
(* Exclusive execution, when no handler outlives its lock.                  *)

(* The busy slots after a step were busy with the same run before it, and   *)
(* the step does not touch their rows.                                      *)
LEMMA ExclusiveFrame ==
  ASSUME ExclusiveExecution,
         \A w \in Worker, s \in Slot :
           \/ exec'[w][s].phase = "idle" /\ exec'[w][s].job = NoJob
           \/ /\ Running(w, s)
              /\ exec'[w][s].job = exec[w][s].job
              /\ exec'[w][s].attempts = exec[w][s].attempts
              /\ exec[w][s].job # NoJob
              /\ state'[exec[w][s].job] = state[exec[w][s].job]
              /\ stale'[exec[w][s].job] = stale[exec[w][s].job]
              /\ attempts'[exec[w][s].job] = attempts[exec[w][s].job]
  PROVE  ExclusiveExecution'
BY DEF ExclusiveExecution, Running

LEMMA ExclusiveInit == Init => ExclusiveExecution
BY DEF Init, ExclusiveExecution, Running, Idle

LEMMA ExclusiveStep ==
  ASSUME MaxSlow = 0, TypeInv, TypeInv', IndexInv, ExclusiveExecution, [Next]_vars
  PROVE  ExclusiveExecution'
<1> USE DEF rows, bounds
<1>0. \A w \in Worker, s \in Slot :
        /\ exec[w][s] \in Execs
        /\ \/ exec[w][s].phase = "idle" /\ exec[w][s].job = NoJob
           \/ /\ Running(w, s)
              /\ exec[w][s].job \in Job
              /\ exec[w][s].job # NoJob
              /\ state[exec[w][s].job] = "running"
              /\ ~stale[exec[w][s].job]
  BY DEF TypeInv, TypeOK, SlotsOK, Running, ExclusiveExecution, Execs
<1>1. ASSUME NEW c \in Client, NEW k \in Key \cup {NoKey}, NEW j \in Job \cup {NoJob},
             Enqueue(c, k, j) \/ Rollback(c)
      PROVE  ExclusiveExecution'
  BY <1>0, <1>1, ExclusiveFrame DEF Enqueue, Rollback
<1>2. ASSUME NEW c \in Client, NEW now \in BOOLEAN, Commit(c, now) PROVE ExclusiveExecution'
  <2>1. \A w \in Worker, s \in Slot : /\ exec'[w][s].job = exec[w][s].job
                                      /\ exec'[w][s].attempts = exec[w][s].attempts
                                      /\ exec'[w][s].phase = "idle" <=> exec[w][s].phase = "idle"
    BY <1>2, <1>0 DEF Commit, TypeInv, TypeOK, Execs, Running
  <2>2. \A i \in Job : state[i] = "running" => /\ state'[i] = state[i]
                                               /\ stale'[i] = stale[i]
                                               /\ attempts'[i] = attempts[i]
    <3>1. CASE tx[c].row = NoJob
      BY <1>2, <3>1 DEF Commit
    <3>2. CASE tx[c].row # NoJob
      <4>1. state[tx[c].row] = "absent"
        BY <3>2 DEF IndexInv, TxRows
      <4>2. /\ state' = [state EXCEPT ![tx[c].row] = "queued"]
            /\ UNCHANGED <<attempts, stale>>
        BY <1>2, <3>2 DEF Commit
      <4> QED
        BY <4>1, <4>2 DEF TypeInv, TypeOK
    <3> QED
      BY <3>1, <3>2
  <2> QED
    BY <1>0, <2>1, <2>2, ExclusiveFrame
<1>3. ASSUME NEW w \in Worker, NEW f \in Batches(w), Claim(w, f) PROVE ExclusiveExecution'
  <2>1. \A s \in DOMAIN f : s \in FreeSlots(w) /\ f[s] \in Ready /\ f[s] \in Range(f)
    BY BatchFacts
  <2>2. \A j \in Job : j \notin Range(f) => /\ state'[j] = state[j]
                                            /\ stale'[j] = stale[j]
                                            /\ attempts'[j] = attempts[j]
    BY <1>3 DEF Claim
  <2>3. \A j \in Job : j \in Range(f) => /\ state[j] = "queued"
                                         /\ state'[j] = "running"
                                         /\ stale'[j] = FALSE
                                         /\ attempts'[j] = attempts[j] + 1
    BY <1>3, BatchFacts DEF Claim, Ready
  <2>4. \A s \in Slot : s \in DOMAIN f => /\ exec'[w][s].job = f[s]
                                          /\ exec'[w][s].attempts = attempts[f[s]] + 1
    <3> SUFFICES ASSUME NEW s \in Slot, s \in DOMAIN f
                 PROVE  /\ exec'[w][s].job = f[s]
                        /\ exec'[w][s].attempts = attempts[f[s]] + 1
      OBVIOUS
    <3>1. exec'[w][s] =
            [job |-> f[s], attempts |-> attempts[f[s]] + 1, phase |-> "claimed"]
      BY <1>3 DEF Claim, TypeInv, TypeOK
    <3> QED
      BY <3>1
  <2>5. \A v \in Worker, s \in Slot : v # w \/ s \notin DOMAIN f => exec'[v][s] = exec[v][s]
    BY <1>3 DEF Claim, TypeInv, TypeOK
  <2> SUFFICES ASSUME NEW v \in Worker, NEW s \in Slot, Running(v, s)'
               PROVE  /\ state'[exec'[v][s].job] = "running"
                      /\ ~stale'[exec'[v][s].job]
                      /\ attempts'[exec'[v][s].job] = exec'[v][s].attempts
                      /\ \A u \in Worker, t \in Slot :
                           exec'[u][t].job = exec'[v][s].job => u = v /\ t = s
    BY Zenon DEF ExclusiveExecution
  <2>6. CASE v = w /\ s \in DOMAIN f
    <3>1. f[s] \in Job /\ f[s] \in Range(f)
      BY <2>1, <2>6 DEF Ready
    <3>2. exec'[v][s].job = f[s] /\ exec'[v][s].attempts = attempts[f[s]] + 1
      BY <2>4, <2>6
    <3>3. ASSUME NEW u \in Worker, NEW t \in Slot, exec'[u][t].job = f[s]
          PROVE  u = v /\ t = s
      <4>1. CASE u = w /\ t \in DOMAIN f
        BY <2>4, <2>6, <3>3, <4>1, BatchFacts
      <4>2. CASE u # w \/ t \notin DOMAIN f
        <5>1. exec[u][t].job = f[s]
          BY <2>5, <3>3, <4>2
        <5>2. f[s] # NoJob
          BY <3>1, ConstantsAssumption
        <5> QED
          BY <1>0, <2>3, <3>1, <5>1, <5>2
      <4> QED
        BY <4>1, <4>2
    <3> QED
      BY <2>3, <3>1, <3>2, <3>3
  <2>7. CASE v # w \/ s \notin DOMAIN f
    <3>1. exec'[v][s] = exec[v][s] /\ Running(v, s)
      BY <2>5, <2>7 DEF Running
    <3>2. exec[v][s].job \in Job /\ exec[v][s].job \notin Range(f)
      BY <1>0, <2>3, <3>1 DEF Running
    <3>3. ASSUME NEW u \in Worker, NEW t \in Slot, exec'[u][t].job = exec[v][s].job
          PROVE  u = v /\ t = s
      <4>1. u # w \/ t \notin DOMAIN f
        BY <2>1, <2>4, <3>2, <3>3
      <4> QED
        BY <2>5, <3>1, <3>3, <4>1 DEF ExclusiveExecution
    <3> QED
      BY <2>2, <3>1, <3>2, <3>3 DEF ExclusiveExecution
  <2> QED
    BY <2>6, <2>7
<1>4. ASSUME NEW w \in Worker, NEW s \in Slot, Read(w, s) PROVE ExclusiveExecution'
  <2>1. UNCHANGED <<state, stale, attempts>>
    BY <1>4 DEF Read
  <2>2. \A v \in Worker, t \in Slot : /\ exec'[v][t].job = exec[v][t].job
                                      /\ exec'[v][t].attempts = exec[v][t].attempts
                                      /\ exec'[v][t].phase = "idle" <=> exec[v][t].phase = "idle"
    BY <1>4, <1>0 DEF Read, TypeInv, TypeOK, Execs, Running
  <2> QED
    BY <1>0, <2>1, <2>2, ExclusiveFrame
<1>5. ASSUME NEW w \in Worker, NEW s \in Slot,
             Succeed(w, s) \/ (\E b \in BOOLEAN : Die(w, s, b)) \/ Requeue(w, s)
      PROVE  ExclusiveExecution'
  <2>1. /\ Running(w, s)
        /\ exec' = [exec EXCEPT ![w][s] = Idle]
        /\ \E x \in States : state' = [state EXCEPT ![exec[w][s].job] = x]
        /\ UNCHANGED <<attempts, stale>>
    BY <1>5 DEF Succeed, Die, Requeue, Running, Vacate, States
  <2>2. \A v \in Worker, t \in Slot : Running(v, t) /\ <<v, t>> # <<w, s>>
          => /\ exec'[v][t] = exec[v][t]
             /\ exec[v][t].job # exec[w][s].job
             /\ state'[exec[v][t].job] = state[exec[v][t].job]
    BY <1>0, <2>1 DEF ExclusiveExecution, TypeInv, TypeOK
  <2>3. exec'[w][s].phase = "idle" /\ exec'[w][s].job = NoJob
    BY <2>1 DEF Idle, TypeInv, TypeOK
  <2>4. \A v \in Worker, t \in Slot : ~Running(v, t) => exec'[v][t] = exec[v][t]
    BY <2>1 DEF TypeInv, TypeOK
  <2> QED
    BY <1>0, <2>1, <2>2, <2>3, <2>4, ExclusiveFrame
<1>6. ASSUME NEW w \in Worker, NEW s \in Slot, NEW b \in BOOLEAN, RequeueFails(w, s, b)
      PROVE  ExclusiveExecution'
  <2>1. UNCHANGED <<state, stale, attempts>>
    BY <1>6, Zenon DEF RequeueFails
  <2>2. \/ exec' = [exec EXCEPT ![w] = [t \in Slot |-> Idle]]
        \/ exec' = [exec EXCEPT ![w][s] = Idle]
    BY <1>6, Zenon DEF RequeueFails, Vacate
  <2>3. \A v \in Worker, t \in Slot : exec'[v][t] \in {Idle, exec[v][t]}
    <3>1. CASE exec' = [exec EXCEPT ![w] = [t \in Slot |-> Idle]]
      BY <3>1 DEF TypeInv, TypeOK
    <3>2. CASE exec' = [exec EXCEPT ![w][s] = Idle]
      BY <3>2 DEF TypeInv, TypeOK
    <3> QED
      BY <2>2, <3>1, <3>2
  <2> QED
    BY <1>0, <2>1, <2>3, ExclusiveFrame DEF Idle
<1>7. ASSUME NEW w \in Worker, Reap(w) PROVE ExclusiveExecution'
  <2>1. UNCHANGED <<exec, stale, attempts>>
    BY <1>7 DEF Reap
  <2>2. \A j \in Job : ~stale[j] => state'[j] = state[j]
    BY <1>7 DEF Reap, Stale
  <2> QED
    BY <1>0, <2>1, <2>2, ExclusiveFrame
<1>8. ASSUME NEW w \in Worker, Crash(w) PROVE ExclusiveExecution'
  <2>1. UNCHANGED <<state, stale, attempts>>
    BY <1>8 DEF Crash
  <2>2. \A v \in Worker, t \in Slot : exec'[v][t] \in {Idle, exec[v][t]}
    BY <1>8 DEF Crash, TypeInv, TypeOK
  <2> QED
    BY <1>0, <2>1, <2>2, ExclusiveFrame DEF Idle
<1>9. ASSUME NEW w \in Worker, Stop(w) \/ Exit(w) \/ Start(w) PROVE ExclusiveExecution'
  BY <1>0, <1>9, ExclusiveFrame DEF Stop, Exit, Start
<1>10. ASSUME NEW j \in Job, BecomeDue(j) PROVE ExclusiveExecution'
  BY <1>0, <1>10, ExclusiveFrame DEF BecomeDue
<1>11. ASSUME NEW j \in Job, LockAges(j) PROVE ExclusiveExecution'
  <2>1. ~Alive(j)
    BY <1>11, ConstantsAssumption DEF LockAges, TypeInv, TypeOK
  <2>2. \A w \in Worker, s \in Slot : exec[w][s].job # j
    BY <2>1 DEF Alive
  <2>3. UNCHANGED <<state, attempts, exec>> /\ stale' = [stale EXCEPT ![j] = TRUE]
    BY <1>11 DEF LockAges
  <2>4. \A i \in Job \ {j} : stale'[i] = stale[i]
    BY <2>3 DEF TypeInv, TypeOK
  <2> QED
    BY <1>0, <2>2, <2>3, <2>4, ExclusiveFrame
<1>12. ASSUME NEW K \in SUBSET Key, CancelJobs(K) PROVE ExclusiveExecution'
  <2>1. UNCHANGED <<attempts, stale, exec>>
    BY <1>12 DEF CancelJobs, Cancellable
  <2>2. \A j \in Job : state[j] = "running" => state'[j] = state[j]
    BY <1>12 DEF CancelJobs, Cancellable
  <2> QED
    BY <1>0, <2>1, <2>2, ExclusiveFrame
<1>13. ASSUME NEW j \in Job, RetryJob(j) \/ CancelJob(j) PROVE ExclusiveExecution'
  <2>1. UNCHANGED exec /\ state[j] # "running"
    BY <1>13 DEF RetryJob, CancelJob
  <2>2. \A i \in Job \ {j} : /\ state'[i] = state[i]
                             /\ stale'[i] = stale[i]
                             /\ attempts'[i] = attempts[i]
    BY <1>13 DEF RetryJob, CancelJob, TypeInv, TypeOK
  <2> QED
    BY <1>0, <2>1, <2>2, ExclusiveFrame
<1>14. CASE UNCHANGED vars
  BY <1>0, <1>14, ExclusiveFrame DEF vars
<1> QED
  BY <1>1, <1>2, <1>3, <1>4, <1>5, <1>6, <1>7, <1>8, <1>9, <1>10, <1>11, <1>12, <1>13, <1>14
  DEF Next, ClientNext, WorkerNext, Finish, ClockNext, OperatorNext

(* No job is ever executed by two handlers at once, and a handler always    *)
(* finishes the very attempt it was given.                                  *)
THEOREM Exclusive ==
  ASSUME MaxSlow = 0
  PROVE  Spec => []ExclusiveExecution
<1>1. Init => ExclusiveExecution
  BY ExclusiveInit
<1>2. TypeInv /\ TypeInv' /\ IndexInv /\ ExclusiveExecution /\ [Next]_vars
        => ExclusiveExecution'
  BY ExclusiveStep
<1> QED
  BY TypeInit, TypeStep, IndexInit, IndexStep, <1>1, <1>2, PTL DEF Spec

-----------------------------------------------------------------------------
(* The attempt budget.                                                      *)

BudgetInv ==
  /\ AttemptBudget
  /\ \A j \in Job : state[j] = "absent" => attempts[j] = 0

(* A step that queues no row and claims none.                               *)
LEMMA BudgetFrame ==
  ASSUME BudgetInv,
         UNCHANGED <<attempts, reaps>>,
         \A j \in Job : \/ state'[j] = state[j]
                        \/ state'[j] \notin {"queued", "absent"}
  PROVE  BudgetInv'
BY DEF BudgetInv, AttemptBudget

LEMMA BudgetInit == Init => BudgetInv
BY ConstantsAssumption DEF Init, BudgetInv, AttemptBudget

LEMMA BudgetStep ==
  ASSUME TypeInv, TypeInv', IndexInv, ExclusiveExecution, BudgetInv, [Next]_vars
  PROVE  BudgetInv'
<1> USE DEF rows, bounds
<1>0. /\ state \in [Job -> States] /\ attempts \in [Job -> Nat] /\ reaps \in [Job -> Nat]
      /\ MaxAttempts \in Nat \ {0}
  BY ConstantsAssumption DEF TypeInv, TypeOK
<1>1. ASSUME NEW c \in Client, NEW k \in Key \cup {NoKey}, NEW j \in Job \cup {NoJob},
             Enqueue(c, k, j) \/ Rollback(c)
      PROVE  BudgetInv'
  BY <1>1, BudgetFrame DEF Enqueue, Rollback
<1>2. ASSUME NEW c \in Client, NEW now \in BOOLEAN, Commit(c, now) PROVE BudgetInv'
  <2>1. UNCHANGED <<attempts, reaps>>
    BY <1>2 DEF Commit
  <2>2. CASE tx[c].row = NoJob
    BY <1>2, <2>1, <2>2, BudgetFrame DEF Commit
  <2>3. CASE tx[c].row # NoJob
    <3>1. state' = [state EXCEPT ![tx[c].row] = "queued"]
      BY <1>2, <2>3 DEF Commit
    <3>2. state[tx[c].row] = "absent"
      BY <2>3 DEF IndexInv, TxRows
    <3> QED
      BY <1>0, <2>1, <3>1, <3>2 DEF BudgetInv, AttemptBudget
  <2> QED
    BY <2>2, <2>3
<1>3. ASSUME NEW w \in Worker, NEW f \in Batches(w), Claim(w, f) PROVE BudgetInv'
  <2>1. /\ UNCHANGED reaps
        /\ \A j \in Job : IF j \in Range(f)
             THEN /\ state[j] = "queued"
                  /\ state'[j] = "running"
                  /\ attempts'[j] = attempts[j] + 1
             ELSE state'[j] = state[j] /\ attempts'[j] = attempts[j]
    BY <1>3, BatchFacts DEF Claim, Ready
  <2> QED
    BY <1>0, <2>1 DEF BudgetInv, AttemptBudget
<1>4. ASSUME NEW w \in Worker, NEW s \in Slot, Read(w, s) PROVE BudgetInv'
  BY <1>4, BudgetFrame DEF Read
<1>5. ASSUME NEW w \in Worker, NEW s \in Slot, Succeed(w, s) PROVE BudgetInv'
  BY <1>0, <1>5, BudgetFrame DEF Succeed
<1>6. ASSUME NEW w \in Worker, NEW s \in Slot, NEW b \in BOOLEAN, Die(w, s, b) PROVE BudgetInv'
  BY <1>0, <1>6, BudgetFrame DEF Die
<1>7. ASSUME NEW w \in Worker, NEW s \in Slot, Requeue(w, s) PROVE BudgetInv'
  <2> DEFINE j == exec[w][s].job
  <2>0. exec[w][s].attempts \in Nat
    BY DEF TypeInv, TypeOK, Execs
  <2>1. attempts[j] < MaxAttempts
    BY <1>0, <1>7, <2>0 DEF Requeue, ExclusiveExecution, LastAttempt
  <2>2. state' = [state EXCEPT ![j] = "queued"] /\ UNCHANGED <<attempts, reaps>>
    BY <1>7 DEF Requeue
  <2> QED
    BY <1>0, <2>1, <2>2 DEF BudgetInv, AttemptBudget
<1>8. ASSUME NEW w \in Worker, NEW s \in Slot, NEW b \in BOOLEAN, RequeueFails(w, s, b)
      PROVE  BudgetInv'
  <2>1. UNCHANGED <<state, attempts, reaps>>
    BY <1>8, Zenon DEF RequeueFails
  <2> QED
    BY <2>1, BudgetFrame
<1>9. ASSUME NEW w \in Worker, Reap(w) PROVE BudgetInv'
  <2>1. /\ UNCHANGED attempts
        /\ \A j \in Job : IF j \in Stale
             THEN state[j] = "running" /\ state'[j] = "queued" /\ reaps'[j] = reaps[j] + 1
             ELSE state'[j] = state[j] /\ reaps'[j] = reaps[j]
    BY <1>9 DEF Reap, Stale
  <2> QED
    BY <1>0, <2>1 DEF BudgetInv, AttemptBudget
<1>10. ASSUME NEW w \in Worker, Crash(w) \/ Stop(w) \/ Exit(w) \/ Start(w) PROVE BudgetInv'
  BY <1>10, BudgetFrame DEF Crash, Stop, Exit, Start
<1>11. ASSUME NEW j \in Job, BecomeDue(j) \/ LockAges(j) PROVE BudgetInv'
  BY <1>11, BudgetFrame DEF BecomeDue, LockAges
<1>12. ASSUME NEW K \in SUBSET Key, CancelJobs(K) PROVE BudgetInv'
  BY <1>12, BudgetFrame DEF CancelJobs
<1>13. ASSUME NEW j \in Job, RetryJob(j) PROVE BudgetInv'
  <2>1. /\ state' = [state EXCEPT ![j] = "queued"]
        /\ attempts' = [attempts EXCEPT ![j] = 0]
        /\ reaps' = [reaps EXCEPT ![j] = 0]
    BY <1>13 DEF RetryJob
  <2> QED
    BY <1>0, <2>1 DEF BudgetInv, AttemptBudget
<1>14. ASSUME NEW j \in Job, CancelJob(j) PROVE BudgetInv'
  BY <1>0, <1>14, BudgetFrame DEF CancelJob
<1>15. CASE UNCHANGED vars
  BY <1>15, BudgetFrame DEF vars
<1> QED
  BY <1>1, <1>2, <1>3, <1>4, <1>5, <1>6, <1>7, <1>8, <1>9, <1>10, <1>11, <1>12, <1>13,
     <1>14, <1>15
  DEF Next, ClientNext, WorkerNext, Finish, ClockNext, OperatorNext

(* Each claim beyond max_attempts is paid for by one visit of the reaper.   *)
THEOREM Budget ==
  ASSUME MaxSlow = 0
  PROVE  Spec => []AttemptBudget
<1>1. TypeInv /\ TypeInv' /\ IndexInv /\ ExclusiveExecution /\ [Next]_vars
        => ExclusiveExecution'
  BY ExclusiveStep
<1>2. TypeInv /\ TypeInv' /\ IndexInv /\ ExclusiveExecution /\ BudgetInv /\ [Next]_vars
        => BudgetInv'
  BY BudgetStep
<1>3. BudgetInv => AttemptBudget
  BY DEF BudgetInv
<1> QED
  BY TypeInit, TypeStep, IndexInit, IndexStep, ExclusiveInit, BudgetInit,
     <1>1, <1>2, <1>3, PTL DEF Spec

-----------------------------------------------------------------------------
(* Settled jobs.                                                            *)

SettledStep ==
  \A j \in Job :
    /\ state[j] \in {"succeeded", "cancelled"} => state'[j] = state[j]
    /\ state[j] = "dead" => \/ state'[j] \in {"dead", "cancelled"}
                            \/ state'[j] = "queued" /\ attempts'[j] = 0

(* A step that only moves rows out of "absent", "queued" or "running".      *)
LEMMA SettledFrame ==
  ASSUME \A j \in Job : \/ state'[j] = state[j]
                        \/ state[j] \notin Settled
  PROVE  SettledStep
BY DEF SettledStep, Settled

LEMMA NextSettles ==
  ASSUME TypeInv, IndexInv, ExclusiveExecution, [Next]_vars
  PROVE  SettledStep
<1> USE DEF rows, bounds
<1>0. /\ state \in [Job -> States] /\ attempts \in [Job -> Nat]
      /\ \A w \in Worker, s \in Slot : Running(w, s) => state[exec[w][s].job] = "running"
  BY DEF TypeInv, TypeOK, ExclusiveExecution
<1>1. ASSUME NEW c \in Client, NEW now \in BOOLEAN, Commit(c, now) PROVE SettledStep
  <2>1. CASE tx[c].row = NoJob
    BY <1>1, <2>1, SettledFrame DEF Commit
  <2>2. CASE tx[c].row # NoJob
    <3>1. state' = [state EXCEPT ![tx[c].row] = "queued"]
      BY <1>1, <2>2 DEF Commit
    <3>2. state[tx[c].row] = "absent"
      BY <2>2 DEF IndexInv, TxRows
    <3> QED
      BY <1>0, <3>1, <3>2, SettledFrame DEF Settled
  <2> QED
    BY <2>1, <2>2
<1>2. ASSUME NEW c \in Client, NEW k \in Key \cup {NoKey}, NEW j \in Job \cup {NoJob},
             Enqueue(c, k, j) \/ Rollback(c)
      PROVE  SettledStep
  BY <1>2, SettledFrame DEF Enqueue, Rollback
<1>3. ASSUME NEW w \in Worker, NEW f \in Batches(w), Claim(w, f) PROVE SettledStep
  <2>1. \A j \in Job : state'[j] = state[j] \/ state[j] = "queued"
    BY <1>3, BatchFacts DEF Claim, Ready
  <2> QED
    BY <2>1, SettledFrame DEF Settled
<1>4. ASSUME NEW w \in Worker, NEW s \in Slot,
             \/ Read(w, s) \/ Succeed(w, s) \/ Requeue(w, s)
             \/ \E b \in BOOLEAN : Die(w, s, b)
      PROVE  SettledStep
  <2>1. \/ UNCHANGED state
        \/ Running(w, s) /\ \E x \in States : state' = [state EXCEPT ![exec[w][s].job] = x]
    BY <1>4 DEF Read, Succeed, Requeue, Die, Running, States
  <2> QED
    BY <1>0, <2>1, SettledFrame DEF Settled
<1>5. ASSUME NEW w \in Worker, NEW s \in Slot, NEW b \in BOOLEAN, RequeueFails(w, s, b)
      PROVE  SettledStep
  <2>1. UNCHANGED state
    BY <1>5, Zenon DEF RequeueFails
  <2> QED
    BY <2>1, SettledFrame
<1>6. ASSUME NEW w \in Worker, Reap(w) \/ Crash(w) \/ Stop(w) \/ Exit(w) \/ Start(w)
      PROVE  SettledStep
  <2>1. \A j \in Job : state'[j] = state[j] \/ state[j] = "running"
    BY <1>6 DEF Reap, Stale, Crash, Stop, Exit, Start
  <2> QED
    BY <2>1, SettledFrame DEF Settled
<1>7. ASSUME NEW j \in Job, BecomeDue(j) \/ LockAges(j) PROVE SettledStep
  BY <1>7, SettledFrame DEF BecomeDue, LockAges
<1>8. ASSUME NEW K \in SUBSET Key, CancelJobs(K) PROVE SettledStep
  <2>1. \A j \in Job : state'[j] = state[j] \/ state[j] = "queued"
    BY <1>8 DEF CancelJobs, Cancellable
  <2> QED
    BY <2>1, SettledFrame DEF Settled
<1>9. ASSUME NEW j \in Job, RetryJob(j) PROVE SettledStep
  BY <1>0, <1>9 DEF RetryJob, SettledStep
<1>10. ASSUME NEW j \in Job, CancelJob(j) PROVE SettledStep
  BY <1>0, <1>10 DEF CancelJob, SettledStep
<1>11. CASE UNCHANGED vars
  BY <1>11, SettledFrame DEF vars
<1> QED
  BY <1>1, <1>2, <1>3, <1>4, <1>5, <1>6, <1>7, <1>8, <1>9, <1>10, <1>11
  DEF Next, ClientNext, WorkerNext, Finish, ClockNext, OperatorNext

(* Nothing but an operator's retry moves a settled job, and a retry starts  *)
(* from zero attempts.                                                      *)
THEOREM SettledStaysSettled ==
  ASSUME MaxSlow = 0
  PROVE  Spec => SettledIsFinal
<1>1. TypeInv /\ TypeInv' /\ IndexInv /\ ExclusiveExecution /\ [Next]_vars
        => ExclusiveExecution'
  BY ExclusiveStep
<1>2. TypeInv /\ IndexInv /\ ExclusiveExecution /\ [Next]_vars => [SettledStep]_vars
  BY NextSettles
<1>3. [][SettledStep]_vars => SettledIsFinal
  BY PTL DEF SettledIsFinal, SettledStep
<1> QED
  BY TypeInit, TypeStep, IndexInit, IndexStep, ExclusiveInit, <1>1, <1>2, <1>3, PTL DEF Spec

-----------------------------------------------------------------------------
(* Covered changes.                                                         *)

(* A step that makes no change covered, and leaves pending every row of a   *)
(* key that stays covered.                                                  *)
LEMMA CoverFrame ==
  ASSUME CoveredChangeNotLost,
         \A k \in Key : owed'[k] = "covered" => owed[k] = "covered",
         \A k \in Key, j \in Job :
           owed'[k] = "covered" /\ key[j] = k /\ Pending(j) => key'[j] = k /\ Pending(j)'
  PROVE  CoveredChangeNotLost'
<1> SUFFICES ASSUME NEW k \in Key, owed'[k] = "covered" PROVE WillBeSeen(k)'
  BY DEF CoveredChangeNotLost
<1>1. PICK j \in Job : key[j] = k /\ Pending(j)
  BY DEF CoveredChangeNotLost, WillBeSeen
<1> QED
  BY <1>1 DEF WillBeSeen

LEMMA CoverInit == Init => CoveredChangeNotLost
BY DEF Init, CoveredChangeNotLost

LEMMA CoverStep ==
  ASSUME TypeInv, TypeInv', IndexInv, ExclusiveExecution, CoveredChangeNotLost, [Next]_vars
  PROVE  CoveredChangeNotLost'
<1> USE DEF rows, bounds
<1>0. /\ state \in [Job -> States] /\ key \in [Job -> Key \cup {NoKey}]
      /\ exec \in [Worker -> [Slot -> Execs]] /\ owed \in [Key -> {"none", "covered", "midrun", "late"}]
      /\ \A w \in Worker, s \in Slot :
           \/ exec[w][s].phase = "idle" /\ exec[w][s].job = NoJob
           \/ /\ Running(w, s)
              /\ exec[w][s].job \in Job
              /\ state[exec[w][s].job] = "running"
  BY DEF TypeInv, TypeOK, SlotsOK, Running, ExclusiveExecution, Execs
<1>1. ASSUME NEW c \in Client, NEW k \in Key \cup {NoKey}, NEW j \in Job \cup {NoJob},
             Enqueue(c, k, j) \/ Rollback(c)
      PROVE  CoveredChangeNotLost'
  BY <1>1, CoverFrame DEF Enqueue, Rollback, Pending
<1>2. ASSUME NEW c \in Client, NEW now \in BOOLEAN, Commit(c, now)
      PROVE  CoveredChangeNotLost'
  <2> DEFINE i == tx[c].row
             x == tx[c].key
  <2>1. i # NoJob => /\ i \in Job
                     /\ state[i] = "absent"
                     /\ state' = [state EXCEPT ![i] = "queued"]
                     /\ key' = [key EXCEPT ![i] = x]
    BY <1>2 DEF Commit, IndexInv, TxRows, TypeInv, TypeOK, Txs
  <2>2. i = NoJob => UNCHANGED <<state, key>>
    BY <1>2 DEF Commit
  <2>3. \A j \in Job : state[j] # "absent" => state'[j] = state[j] /\ key'[j] = key[j]
    BY <1>0, <2>1, <2>2
  <2>4. \A w \in Worker, s \in Slot :
          /\ exec'[w][s].job = exec[w][s].job
          /\ exec'[w][s].phase = "outdated" =>
               \/ exec[w][s].phase = "outdated"
               \/ key[exec[w][s].job] = x
    BY <1>2, <1>0 DEF Commit, Execs
  <2> SUFFICES ASSUME NEW k \in Key, owed'[k] = "covered" PROVE WillBeSeen(k)'
    BY DEF CoveredChangeNotLost
  <2>5. CASE k = x
    <3>1. i # NoJob \/ QueuedWith(x) # {}
      BY <1>2, <2>5 DEF Commit
    <3>2. CASE i # NoJob
      <4>1. PICK r \in Job : r = i
        BY <2>1, <3>2
      <4>2. key'[r] = k /\ state'[r] = "queued"
        BY <1>0, <2>1, <2>5, <3>2, <4>1
      <4> QED
        BY <4>2 DEF WillBeSeen, Pending
    <3>3. CASE QueuedWith(x) # {}
      <4>1. PICK j \in Job : state[j] = "queued" /\ key[j] = x
        BY <3>3 DEF QueuedWith
      <4>2. key'[j] = k /\ Pending(j)'
        BY <2>3, <2>5, <4>1 DEF Pending
      <4> QED
        BY <4>2 DEF WillBeSeen
    <3> QED
      BY <3>1, <3>2, <3>3
  <2>6. CASE k # x
    <3>1. owed[k] = "covered"
      BY <1>2, <2>6 DEF Commit
    <3>2. PICK j \in Job : key[j] = k /\ Pending(j)
      BY <3>1 DEF CoveredChangeNotLost, WillBeSeen
    <3>3. state'[j] = state[j] /\ key'[j] = k
      BY <2>3, <3>2 DEF Pending
    <3>4. Pending(j)'
      BY <2>4, <2>6, <3>2, <3>3 DEF Pending
    <3> QED
      BY <3>3, <3>4 DEF WillBeSeen
  <2> QED
    BY <2>5, <2>6
<1>3. ASSUME NEW w \in Worker, NEW f \in Batches(w), Claim(w, f) PROVE CoveredChangeNotLost'
  <2>1. UNCHANGED <<key, owed>>
    BY <1>3 DEF Claim
  <2>2. \A j \in Job : IF j \in Range(f) THEN state[j] = "queued" /\ state'[j] = "running"
                                         ELSE state'[j] = state[j]
    BY <1>3, BatchFacts DEF Claim, Ready
  <2>3. \A v \in Worker, s \in Slot :
          \/ exec'[v][s] = exec[v][s]
          \/ exec'[v][s].job \in Range(f) /\ exec'[v][s].phase = "claimed"
    BY <1>3, BatchFacts DEF Claim, TypeInv, TypeOK
  <2>4. ASSUME NEW j \in Job, Pending(j) PROVE Pending(j)'
    <3>1. CASE j \in Range(f)
      BY <1>0, <2>2, <2>3, <3>1 DEF Pending
    <3>2. CASE j \notin Range(f)
      BY <2>2, <2>3, <2>4, <3>2 DEF Pending
    <3> QED
      BY <3>1, <3>2
  <2> QED
    BY <2>1, <2>4, CoverFrame
<1>4. ASSUME NEW w \in Worker, NEW s \in Slot, Read(w, s) PROVE CoveredChangeNotLost'
  <2>1. UNCHANGED <<state, key, owed>>
    BY <1>4 DEF Read
  <2>2. \A v \in Worker, t \in Slot : /\ exec'[v][t].job = exec[v][t].job
                                      /\ exec'[v][t].phase = "outdated"
                                           => exec[v][t].phase = "outdated"
    BY <1>0, <1>4 DEF Read, Execs
  <2> QED
    BY <2>1, <2>2, CoverFrame DEF Pending
<1>5. ASSUME NEW w \in Worker, NEW s \in Slot, Succeed(w, s) PROVE CoveredChangeNotLost'
  <2> DEFINE e == exec[w][s]
  <2>1. /\ e.phase \in {"fresh", "outdated"} /\ UNCHANGED key
        /\ state' = [state EXCEPT ![e.job] = "succeeded"]
        /\ exec' = [exec EXCEPT ![w][s] = Idle]
        /\ owed' = [k \in Key |-> IF e.phase = "fresh" /\ key[e.job] = k
                                    THEN "none" ELSE owed[k]]
    BY <1>5 DEF Succeed, Vacate
  <2>2. e.job \in Job /\ state[e.job] = "running"
    BY <1>0, <2>1
  <2>3. ASSUME NEW k \in Key, NEW j \in Job, owed'[k] = "covered", key[j] = k, Pending(j)
        PROVE  Pending(j)'
    <3>1. CASE j = e.job
      BY <2>1, <2>2, <2>3, <3>1 DEF Pending
    <3>2. CASE j # e.job
      <4>1. state'[j] = state[j]
        BY <1>0, <2>1, <3>2
      <4>2. \A v \in Worker, t \in Slot : exec'[v][t] = exec[v][t] \/ exec'[v][t].job = NoJob
        BY <1>0, <2>1 DEF Idle
      <4> QED
        BY <2>3, <4>1, <4>2, ConstantsAssumption DEF Pending
    <3> QED
      BY <3>1, <3>2
  <2>4. \A k \in Key : owed'[k] = "covered" => owed[k] = "covered"
    BY <2>1
  <2> QED
    BY <2>1, <2>3, <2>4, CoverFrame
<1>6. ASSUME NEW w \in Worker, NEW s \in Slot,
             (\E b \in BOOLEAN : Die(w, s, b)) \/ Requeue(w, s)
      PROVE  CoveredChangeNotLost'
  <2>1. /\ Running(w, s)
        /\ exec' = [exec EXCEPT ![w][s] = Idle]
        /\ \E x \in {"dead", "queued"} : state' = [state EXCEPT ![exec[w][s].job] = x]
        /\ UNCHANGED <<key, owed>>
    BY <1>6 DEF Die, Requeue, Vacate
  <2>2. ASSUME NEW j \in Job, Pending(j) PROVE Pending(j)'
    <3>1. \A v \in Worker, t \in Slot : exec'[v][t] = exec[v][t] \/ exec'[v][t].job = NoJob
      BY <1>0, <2>1 DEF Idle
    <3>2. state'[j] \in {"dead", "queued"} \/ state'[j] = state[j]
      BY <1>0, <2>1
    <3> QED
      BY <2>2, <3>1, <3>2, ConstantsAssumption DEF Pending
  <2> QED
    BY <2>1, <2>2, CoverFrame
<1>7. ASSUME NEW w \in Worker, UNCHANGED <<state, key, owed>>,
             \/ exec' = [exec EXCEPT ![w] = [t \in Slot |-> Idle]]
             \/ \E s \in Slot : exec' = [exec EXCEPT ![w][s] = Idle]
      PROVE  CoveredChangeNotLost'
  <2>1. \A v \in Worker, t \in Slot : exec'[v][t] = exec[v][t] \/ exec'[v][t].job = NoJob
    <3>1. CASE exec' = [exec EXCEPT ![w] = [t \in Slot |-> Idle]]
      BY <1>0, <3>1 DEF Idle
    <3>2. CASE \E s \in Slot : exec' = [exec EXCEPT ![w][s] = Idle]
      BY <1>0, <3>2 DEF Idle
    <3> QED
      BY <1>7, <3>1, <3>2
  <2>2. \A j \in Job : Pending(j) => Pending(j)'
    BY <1>7, <2>1, ConstantsAssumption DEF Pending
  <2> QED
    BY <1>7, <2>2, CoverFrame
<1>16. ASSUME NEW w \in Worker, NEW s \in Slot, NEW b \in BOOLEAN, RequeueFails(w, s, b)
       PROVE  CoveredChangeNotLost'
  <2>1. /\ UNCHANGED <<state, key, owed>>
        /\ \/ exec' = [exec EXCEPT ![w] = [t \in Slot |-> Idle]]
           \/ exec' = [exec EXCEPT ![w][s] = Idle]
    BY <1>16, Zenon DEF RequeueFails, Vacate
  <2> QED
    BY <1>7, <2>1
<1>17. ASSUME NEW w \in Worker, Crash(w) PROVE CoveredChangeNotLost'
  BY <1>7, <1>17 DEF Crash
<1>8. ASSUME NEW w \in Worker, Reap(w) PROVE CoveredChangeNotLost'
  <2>1. UNCHANGED <<key, owed, exec>>
        /\ \A j \in Job : state'[j] = state[j] \/ state'[j] = "queued"
    BY <1>8 DEF Reap
  <2> QED
    BY <2>1, CoverFrame DEF Pending
<1>9. ASSUME NEW w \in Worker, Stop(w) \/ Exit(w) \/ Start(w) PROVE CoveredChangeNotLost'
  BY <1>9, CoverFrame DEF Stop, Exit, Start, Pending
<1>10. ASSUME NEW j \in Job, BecomeDue(j) \/ LockAges(j) PROVE CoveredChangeNotLost'
  BY <1>10, CoverFrame DEF BecomeDue, LockAges, Pending
<1>11. ASSUME NEW J \in SUBSET Job, Forgive(J), UNCHANGED <<key, exec>>,
              \A j \in Job \ J : state'[j] = state[j]
       PROVE  CoveredChangeNotLost'
  <2>1. \A k \in Key : owed'[k] = "covered" => owed[k] = "covered" /\ \A j \in J : key[j] # k
    BY <1>11 DEF Forgive
  <2>2. \A j \in Job \ J : Pending(j) => Pending(j)'
    BY <1>11 DEF Pending
  <2> QED
    BY <1>11, <2>1, <2>2, CoverFrame
<1>12. ASSUME NEW K \in SUBSET Key, CancelJobs(K) PROVE CoveredChangeNotLost'
  <2> DEFINE J == {j \in Job : state[j] = "queued" /\ key[j] \in K}
  <2>1. /\ J \in SUBSET Job /\ Forgive(J) /\ UNCHANGED <<key, exec>>
        /\ \A j \in Job \ J : state'[j] = state[j]
    BY <1>12 DEF CancelJobs, Cancellable
  <2> QED
    BY <2>1, <1>11
<1>13. ASSUME NEW j \in Job, RetryJob(j) PROVE CoveredChangeNotLost'
  <2>1. UNCHANGED <<key, owed, exec>>
        /\ \A i \in Job : state'[i] = state[i] \/ state'[i] = "queued"
    BY <1>0, <1>13 DEF RetryJob
  <2> QED
    BY <2>1, CoverFrame DEF Pending
<1>14. ASSUME NEW j \in Job, CancelJob(j) PROVE CoveredChangeNotLost'
  <2>1. /\ {j} \in SUBSET Job /\ Forgive({j}) /\ UNCHANGED <<key, exec>>
        /\ \A i \in Job \ {j} : state'[i] = state[i]
    BY <1>0, <1>14 DEF CancelJob
  <2> QED
    BY <2>1, <1>11
<1>15. CASE UNCHANGED vars
  BY <1>15, CoverFrame DEF vars, Pending
<1> QED
  BY <1>1, <1>2, <1>3, <1>4, <1>5, <1>6, <1>8, <1>9, <1>10, <1>12, <1>13, <1>14, <1>15,
     <1>16, <1>17
  DEF Next, ClientNext, WorkerNext, Finish, ClockNext, OperatorNext

(* A change whose commit found a queued row of its key, its own or another, *)
(* is read by a later run, waits in the queue or the DLQ, or was cancelled. *)
THEOREM CoveredChangesAreSeen ==
  ASSUME MaxSlow = 0
  PROVE  Spec => []CoveredChangeNotLost
<1>1. TypeInv /\ TypeInv' /\ IndexInv /\ ExclusiveExecution /\ [Next]_vars
        => ExclusiveExecution'
  BY ExclusiveStep
<1>2. /\ TypeInv /\ TypeInv' /\ IndexInv /\ ExclusiveExecution
      /\ CoveredChangeNotLost /\ [Next]_vars
      => CoveredChangeNotLost'
  BY CoverStep
<1> QED
  BY TypeInit, TypeStep, IndexInit, IndexStep, ExclusiveInit, CoverInit,
     <1>1, <1>2, PTL DEF Spec
=============================================================================
