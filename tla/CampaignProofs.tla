--------------------------- MODULE CampaignProofs ---------------------------
(***************************************************************************)
(* Theorems about Campaign for any number of customers, workers and        *)
(* crashes, and any size of a batch: types, the bound on attempts, that a  *)
(* campaign is not reported as completed too early, how often a customer   *)
(* can get it, and that a cancelled message stays cancelled.               *)
(***************************************************************************)
EXTENDS Campaign, FiniteSetTheorems, TLAPS

(***************************************************************************)
(* Types                                                                   *)
(***************************************************************************)

LEMMA Tags ==
    /\ <<>> \in Seq({"later", "at", "again"})
    /\ <<"later">> \in Seq({"later", "at", "again"})
    /\ <<"at">> \in Seq({"later", "at", "again"})
    /\ \A t \in Seq({"later", "at", "again"}) : Append(t, "again") \in Seq({"later", "at", "again"})
  OBVIOUS

LEMMA JobTyped ==
  ASSUME NEW kind \in Kinds, NEW of \in SUBSET Customers,
         NEW tag \in Seq({"later", "at", "again"}), NEW wait \in BOOLEAN
  PROVE  /\ Job(kind, of, tag, wait) \in JobType
         /\ Job(kind, of, tag, wait).tries = 0
         /\ Job(kind, of, tag, wait).kind = kind
  BY DEF Job, JobType

LEMMA MulticastTyped ==
  ASSUME NEW of \in SUBSET Customers, NEW key \in Nat
  PROVE  /\ Multicast(of, key) \in JobType
         /\ Multicast(of, key).tries = 0
<1>1. "multicast" \in Kinds BY DEF Kinds
<1>2. Job("multicast", of, <<>>, FALSE) \in JobType /\ Job("multicast", of, <<>>, FALSE).tries = 0
  BY <1>1, JobTyped, Tags
<1> QED BY <1>2 DEF Multicast, JobType

LEMMA MulticastFields ==
  ASSUME NEW of, NEW key
  PROVE  Multicast(of, key).kind = "multicast" /\ Multicast(of, key).of = of
BY DEF Multicast, Job

LEMMA StatsTyped == /\ Stats \in JobType /\ Stats.tries = 0 /\ Stats.kind = "stats"
                    /\ StatsLater \in JobType /\ StatsLater.tries = 0
  BY JobTyped, Tags DEF Stats, StatsLater, Kinds

LEMMA DeliverTyped ==
  ASSUME NEW c \in Customers
  PROVE  Deliver(c) \in JobType /\ Deliver(c).tries = 0
  BY JobTyped, Tags DEF Deliver, Kinds

(* The jobs a page leaves behind are new jobs.                              *)
LEMMA PageJobsTyped ==
  ASSUME NEW page \in SUBSET Customers, drawn \in Nat
  PROVE  \A j \in PageJobs(page) : j \in JobType /\ j.tries = 0
<1> DEFINE groups == Multicasts(page)
<1>1. groups \subseteq SUBSET Customers BY DEF Multicasts
<1>2. ASSUME NEW c \in Customers
      PROVE  /\ Job("deliver", {c}, <<"at">>, TRUE) \in JobType
             /\ Job("deliver", {c}, <<"at">>, TRUE).tries = 0
  <2>1. {c} \in SUBSET Customers /\ "deliver" \in Kinds BY DEF Kinds
  <2> QED BY <2>1, JobTyped, Tags
<1>3. ASSUME NEW g \in groups
      PROVE  Multicast(g, drawn + 1) \in JobType /\ Multicast(g, drawn + 1).tries = 0
  <2>1. g \in SUBSET Customers /\ drawn + 1 \in Nat BY <1>1
  <2> QED BY <2>1, MulticastTyped
<1> HIDE DEF groups
<1> SUFFICES ASSUME NEW j \in PageJobs(page) PROVE j \in JobType /\ j.tries = 0
  OBVIOUS
<1>4. \/ j = Stats
      \/ \E c \in page : j = Job("deliver", {c}, <<"at">>, TRUE)
      \/ \E c \in page : j = Deliver(c)
      \/ \E g \in groups : j = Multicast(g, drawn + 1)
  BY DEF PageJobs, groups
<1> QED BY <1>2, <1>3, <1>4, StatsTyped, DeliverTyped

(* What a step does to the queue and to the slots, as far as types and      *)
(* attempts go.                                                             *)
Grows(new) == jobs' = Enqueued(jobs, new) /\ \A j \in new : j \in JobType /\ j.tries = 0

JobsFit == /\ jobs \subseteq JobType /\ lost \subseteq JobType
           /\ \A j \in jobs \cup lost : j.tries < MaxTries + crashes
SlotType == [pc : Steps, job : JobType, at : Nat, batch : SUBSET Customers]
SlotsFit == /\ worker \in [Workers -> SlotType]
            /\ \A w \in Workers : worker[w].job.tries <= MaxTries + crashes
            /\ \A w \in Workers : worker[w].pc = "retry" => worker[w].job.tries < MaxTries + crashes

(* The rest of TypeOK.                                                      *)
RestTyped ==
    /\ channel \in {"line", "email"}
    /\ campaign \in {"draft", "scheduled", "running", "completed", "cancelled"}
    /\ message \in [Customers -> MessageStates]
    /\ night \in BOOLEAN /\ later \subseteq Customers /\ reach \subseteq Customers
    /\ account \in {"ok", "no_template", "no_channel"}
    /\ keys \subseteq (SUBSET Customers) \X Nat /\ drawn \in Nat /\ got \in [Customers -> Nat]
    /\ crashes \in Nat /\ losses \in Nat /\ refusals \in Nat /\ nights \in Nat

Fits == JobsFit /\ SlotsFit /\ RestTyped

LEMMA FitsIsTyped == Fits => TypeOK /\ AttemptsBounded
  BY DEF Fits, JobsFit, SlotsFit, SlotType, RestTyped, TypeOK, AttemptsBounded

LEMMA GrowsFit ==
  ASSUME CampaignAssumption, Fits, NEW new, Grows(new), UNCHANGED <<lost, crashes>>
  PROVE  JobsFit'
  BY DEF CampaignAssumption, Fits, RestTyped, JobsFit, Grows, Enqueued

LEMMA SameJobsFit ==
  ASSUME Fits, UNCHANGED <<jobs, lost, crashes>>
  PROVE  JobsFit'
  BY DEF Fits, JobsFit

LEMMA SameSlotsFit ==
  ASSUME Fits, UNCHANGED <<worker, crashes>>
  PROVE  SlotsFit'
  BY DEF Fits, SlotsFit

LEMMA ReturnFit ==
  ASSUME CampaignAssumption, Fits, NEW w \in Workers, Return(w), UNCHANGED crashes
  PROVE  SlotsFit'
<1>1. Idle \in SlotType /\ Idle.job.tries = 0 /\ Idle.pc = "idle"
  BY StatsTyped DEF Idle, SlotType, Steps
<1> QED BY <1>1 DEF CampaignAssumption, Fits, RestTyped, SlotsFit, Return

LEMMA StepFit ==
  ASSUME Fits, NEW w \in Workers, NEW pc \in Steps, NEW at \in Nat,
         NEW batch \in SUBSET Customers, Step(w, pc, at, batch), UNCHANGED crashes,
         pc = "retry" => worker[w].job.tries < MaxTries + crashes
  PROVE  SlotsFit'
<1> DEFINE new == [pc |-> pc, job |-> worker[w].job, at |-> at, batch |-> batch]
<1>1. new \in SlotType /\ new.job = worker[w].job /\ new.pc = pc
  BY DEF SlotType, Fits, SlotsFit
<1>2. worker' = [worker EXCEPT ![w] = new] BY DEF Step
<1> HIDE DEF new
<1> QED BY <1>1, <1>2 DEF Fits, SlotsFit

LEMMA SettleFit ==
  ASSUME Fits, NEW S, NEW status \in MessageStates, Settle(S, status)
  PROVE  message' \in [Customers -> MessageStates]
  BY DEF Settle, Fits, RestTyped

LEMMA FurtherFit ==
  ASSUME Fits, NEW w \in Workers, NEW pc \in Steps, NEW P \in SUBSET Customers, NEW n,
         pc # "retry", Further(w, pc, P, n), CampaignAssumption, UNCHANGED crashes
  PROVE  SlotsFit'
<1>1. PICK last \in P : Step(w, pc, last, {}) BY DEF Further
<1>2. last \in Nat BY DEF CampaignAssumption
<1> QED BY <1>1, <1>2, StepFit

(***************************************************************************)
(* Fits is inductive: one lemma per group of actions                       *)
(***************************************************************************)

LEMMA InitFits == ASSUME CampaignAssumption, Init PROVE Fits
<1>1. Idle \in SlotType /\ Idle.job.tries = 0 /\ Idle.pc = "idle"
  BY StatsTyped DEF Idle, SlotType, Steps
<1>2. SlotsFit BY <1>1 DEF Init, SlotsFit, CampaignAssumption
<1>3. JobsFit BY DEF Init, JobsFit
<1>4. RestTyped BY DEF Init, RestTyped, MessageStates
<1> QED BY <1>2, <1>3, <1>4 DEF Fits

LEMMA WorldFits ==
  ASSUME CampaignAssumption, Fits,
         \/ ScheduleCampaign \/ CancelCampaign
         \/ \E c \in Customers : OptOut(c)
         \/ \E what \in {"no_template", "no_channel"} : Lose(what)
         \/ Dusk
  PROVE  Fits'
<1> USE DEF world, provider
<1>1. CASE ScheduleCampaign
  <2>0. "run" \in Kinds BY DEF Kinds
  <2> DEFINE new == Job("run", {}, <<>>, FALSE)
  <2>1. new \in JobType /\ new.tries = 0 BY <2>0, Tags DEF Job, JobType
  <2>a. jobs' = Enqueued(jobs, {new}) /\ UNCHANGED <<lost, crashes>> BY <1>1 DEF ScheduleCampaign
  <2> HIDE DEF new
  <2>2. JobsFit' BY <2>a, <2>1, GrowsFit DEF Grows
  <2>3. SlotsFit' BY <1>1, SameSlotsFit DEF ScheduleCampaign
  <2>4. RestTyped' BY <1>1 DEF ScheduleCampaign, Fits, RestTyped
  <2> QED BY <2>2, <2>3, <2>4 DEF Fits
<1>2. CASE CancelCampaign
  <2>1. jobs' \subseteq jobs BY <1>2 DEF CancelCampaign
  <2>2. JobsFit' BY <1>2, <2>1 DEF CancelCampaign, Fits, JobsFit
  <2>3. SlotsFit' BY <1>2, SameSlotsFit DEF CancelCampaign
  <2>4. RestTyped' BY <1>2 DEF CancelCampaign, Fits, RestTyped, MessageStates
  <2> QED BY <2>2, <2>3, <2>4 DEF Fits
<1>3. ASSUME NEW c \in Customers, OptOut(c) PROVE Fits'
  BY <1>3, SameJobsFit, SameSlotsFit DEF OptOut, Fits, RestTyped
<1>4. ASSUME NEW what \in {"no_template", "no_channel"}, Lose(what) PROVE Fits'
  BY <1>4, SameJobsFit, SameSlotsFit DEF Lose, Fits, RestTyped
<1>5. CASE Dusk
  BY <1>5, SameJobsFit, SameSlotsFit DEF Dusk, Fits, RestTyped
<1> QED BY <1>1, <1>2, <1>3, <1>4, <1>5

(* Dawn and the steps of the queue itself, which only move jobs.            *)
LEMMA DawnFits == ASSUME CampaignAssumption, Fits, Dawn PROVE Fits'
<1>1. \A j \in JobType : /\ [j EXCEPT !.wait = FALSE] \in JobType
                         /\ [j EXCEPT !.wait = FALSE].tries = j.tries
  BY DEF JobType
<1>2. JobsFit' BY <1>1 DEF Dawn, Fits, JobsFit
<1>3. SlotsFit' BY SameSlotsFit DEF Dawn
<1>4. RestTyped' BY DEF Dawn, Fits, RestTyped, provider
<1> QED BY <1>2, <1>3, <1>4 DEF Fits

LEMMA QueueFits ==
  ASSUME CampaignAssumption, Fits, NEW w \in Workers,
         (\E kind \in Kinds : Claim(w, kind)) \/ Retry(w) \/ Crash(w) \/ Reap
  PROVE  Fits'
<1> USE DEF world, provider
<1>0. /\ MaxTries \in Nat /\ crashes \in Nat /\ Idle \in SlotType /\ Idle.job.tries = 0 /\ Idle.pc = "idle"
      /\ \A j \in JobType : j.tries \in Nat
  BY StatsTyped DEF Idle, SlotType, Steps, CampaignAssumption, Fits, RestTyped, JobType
<1>1. ASSUME NEW kind \in Kinds, Claim(w, kind) PROVE Fits'
  <2>1. PICK j \in jobs : /\ jobs' = jobs \ {j}
                          /\ worker' = [worker EXCEPT ![w] = [pc |-> "load", job |-> [j EXCEPT !.tries = @ + 1],
                                                             at |-> 0, batch |-> {}]]
    BY <1>1 DEF Claim
  <2> DEFINE slot == [pc |-> "load", job |-> [j EXCEPT !.tries = @ + 1], at |-> 0, batch |-> {}]
  <2>2. j \in JobType /\ j.tries < MaxTries + crashes BY DEF Fits, JobsFit
  <2>3. [j EXCEPT !.tries = @ + 1] \in JobType /\ [j EXCEPT !.tries = @ + 1].tries = j.tries + 1
    BY <2>2 DEF JobType
  <2>4. slot \in SlotType /\ slot.pc = "load" /\ slot.job.tries = j.tries + 1
    BY <2>3 DEF SlotType, Steps
  <2>5. worker' = [worker EXCEPT ![w] = slot] BY <2>1
  <2> HIDE DEF slot
  <2>a. UNCHANGED crashes BY <1>1 DEF Claim
  <2>b. j.tries \in Nat BY <1>0, <2>2
  <2>c. worker \in [Workers -> SlotType] BY DEF Fits, SlotsFit
  <2>d. \A v \in Workers : worker'[v] = IF v = w THEN slot ELSE worker[v] BY <2>5, <2>c
  <2>e. slot.job.tries <= MaxTries + crashes BY <1>0, <2>2, <2>4, <2>b
  <2>f. worker' \in [Workers -> SlotType] BY <2>4, <2>5, <2>c
  <2>6. SlotsFit' BY <2>4, <2>a, <2>d, <2>e, <2>f DEF Fits, SlotsFit
  <2>7. JobsFit' BY <1>1, <2>1 DEF Claim, Fits, JobsFit
  <2> QED BY <1>1, <2>6, <2>7 DEF Claim, Fits, RestTyped
<1>2. CASE Retry(w)
  <2>1. worker[w].job \in JobType /\ worker[w].job.tries < MaxTries + crashes
    BY <1>2 DEF Retry, Fits, SlotsFit, SlotType
  <2>2. JobsFit' BY <1>2, <2>1 DEF Retry, Fits, JobsFit
  <2>3. SlotsFit' BY <1>2, ReturnFit DEF Retry, Return
  <2> QED BY <1>2, <2>2, <2>3 DEF Retry, Fits, RestTyped
<1>3. CASE Crash(w)
  <2>1. worker[w].job \in JobType /\ worker[w].job.tries <= MaxTries + crashes
    BY <1>3 DEF Crash, Fits, SlotsFit, SlotType
  <2>2. worker[w].job.tries \in Nat /\ \A j \in jobs \cup lost : j.tries \in Nat
    BY <1>0, <2>1 DEF Fits, JobsFit
  <2>3. JobsFit' BY <1>0, <1>3, <2>1, <2>2 DEF Crash, Fits, JobsFit
  <2>4. \A v \in Workers : worker[v].job.tries \in Nat BY <1>0 DEF Fits, SlotsFit, SlotType
  <2>5. SlotsFit' BY <1>0, <1>3, <2>4 DEF Crash, Fits, SlotsFit
  <2> QED BY <1>3, <2>3, <2>5 DEF Crash, Fits, RestTyped
<1>4. CASE Reap
  <2>1. JobsFit' BY <1>4 DEF Reap, Fits, JobsFit
  <2>2. SlotsFit' BY <1>4, SameSlotsFit DEF Reap
  <2> QED BY <1>4, <2>1, <2>2 DEF Reap, Fits, RestTyped
<1> QED BY <1>1, <1>2, <1>3, <1>4

(* The snapshot and the dispatch.                                           *)
LEMMA RunFits ==
  ASSUME CampaignAssumption, Fits, NEW w \in Workers,
         StartCampaign(w) \/ SnapshotRead(w) \/ SnapshotWrite(w) \/ EndSnapshot(w)
  PROVE  Fits'
<1> USE DEF world, provider
<1>0. /\ {"load", "read", "write", "end"} \subseteq Steps /\ 0 \in Nat
      /\ worker[w].at \in Nat /\ worker[w].batch \in SUBSET Customers
  BY DEF Steps, Fits, SlotsFit, SlotType
<1>1. CASE StartCampaign(w)
  <2>1. SlotsFit' BY <1>0, <1>1, StepFit, ReturnFit DEF StartCampaign
  <2>2. JobsFit' BY <1>1, SameJobsFit DEF StartCampaign
  <2> QED BY <1>1, <2>1, <2>2 DEF StartCampaign, Fits, RestTyped
<1>2. CASE SnapshotRead(w)
  <2>1. SlotsFit' BY <1>0, <1>2, StepFit DEF SnapshotRead
  <2>2. JobsFit' BY <1>2, SameJobsFit DEF SnapshotRead
  <2> QED BY <1>2, <2>1, <2>2 DEF SnapshotRead, Fits, RestTyped
<1>3. CASE SnapshotWrite(w)
  <2>1. SlotsFit' BY <1>0, <1>3, StepFit, FurtherFit DEF SnapshotWrite
  <2>2. JobsFit' BY <1>3, SameJobsFit DEF SnapshotWrite
  <2>3. message' \in [Customers -> MessageStates] BY <1>3 DEF SnapshotWrite, Fits, RestTyped, MessageStates
  <2> QED BY <1>3, <2>1, <2>2, <2>3 DEF SnapshotWrite, Fits, RestTyped
<1>4. CASE EndSnapshot(w)
  <2>0. "dispatch" \in Kinds BY DEF Kinds
  <2> DEFINE new == Job("dispatch", {}, <<>>, FALSE)
  <2>1. new \in JobType /\ new.tries = 0 BY <2>0, Tags DEF Job, JobType
  <2>a. jobs' = Enqueued(jobs, {new}) /\ UNCHANGED <<lost, crashes>> BY <1>4 DEF EndSnapshot
  <2> HIDE DEF new
  <2>2. JobsFit' BY <2>a, <2>1, GrowsFit DEF Grows
  <2>3. SlotsFit' BY <1>4, ReturnFit DEF EndSnapshot
  <2> QED BY <1>4, <2>2, <2>3 DEF EndSnapshot, Fits, RestTyped
<1> QED BY <1>1, <1>2, <1>3, <1>4

LEMMA DispatchFits ==
  ASSUME CampaignAssumption, Fits, NEW w \in Workers, DispatchPage(w) \/ EndDispatch(w)
  PROVE  Fits'
<1> USE DEF world, provider
<1>0. {"load", "end"} \subseteq Steps /\ 0 \in Nat BY DEF Steps
<1>1. CASE DispatchPage(w) /\ campaign # "running"
  <2>0. Step(w, "end", 0, {}) /\ UNCHANGED crashes BY <1>1 DEF DispatchPage
  <2>1. SlotsFit' BY <1>0, <2>0, StepFit
  <2>2. JobsFit' BY <1>1, SameJobsFit DEF DispatchPage
  <2> QED BY <1>1, <2>1, <2>2 DEF DispatchPage, Fits, RestTyped
<1>2. CASE DispatchPage(w) /\ campaign = "running"
  <2>1. PICK page \in SUBSET Customers :
          /\ message' = [c \in Customers |->
                 IF c \in page /\ Prepared(c) = "skip" THEN "skipped"
                 ELSE IF c \in UNION Multicasts(page) THEN "sending"
                 ELSE message[c]]
          /\ later' = later \cup {c \in page : Prepared(c) = "defer"}
          /\ jobs' = Enqueued(jobs, PageJobs(page))
          /\ \/ Cardinality(page) < Page /\ Step(w, "end", 0, {})
             \/ Further(w, "load", page, Page)
    BY <1>2 DEF DispatchPage
  <2>2. /\ UNCHANGED <<campaign, lost, crashes, world, keys, got, losses, refusals>>
        /\ drawn' = drawn \/ drawn' = drawn + 1
    BY <1>2 DEF DispatchPage
  <2>a. drawn \in Nat /\ drawn' \in Nat BY <2>2 DEF Fits, RestTyped
  <2>b. \A j \in PageJobs(page) : j \in JobType /\ j.tries = 0 BY <2>a, PageJobsTyped
  <2>3. JobsFit' BY <2>1, <2>2, <2>b, GrowsFit DEF Grows
  <2>4. SlotsFit' BY <1>0, <2>1, <2>2, StepFit, FurtherFit
  <2>5. message' \in [Customers -> MessageStates] BY <2>1 DEF Fits, RestTyped, MessageStates
  <2> QED BY <2>1, <2>2, <2>a, <2>3, <2>4, <2>5 DEF Fits, RestTyped
<1>3. CASE EndDispatch(w)
  <2>1. JobsFit' BY <1>3, StatsTyped, GrowsFit DEF EndDispatch, Grows
  <2>2. SlotsFit' BY <1>3, ReturnFit DEF EndDispatch
  <2> QED BY <1>3, <2>1, <2>2 DEF EndDispatch, Fits, RestTyped
<1> QED BY <1>1, <1>2, <1>3

LEMMA StatsFits == ASSUME CampaignAssumption, Fits, NEW w \in Workers, RefreshStats(w) PROVE Fits'
<1>1. PICK j \in jobs : jobs' = jobs \ {j} \/ jobs' = Enqueued(jobs \ {j}, {StatsLater})
  BY DEF RefreshStats
<1>2. JobsFit'
  BY <1>1, StatsTyped DEF RefreshStats, CampaignAssumption, Fits, RestTyped, JobsFit, Enqueued
<1>3. SlotsFit' BY SameSlotsFit DEF RefreshStats
<1> QED BY <1>2, <1>3 DEF RefreshStats, Fits, RestTyped, world, provider

(* Deliveries and multicasts.                                               *)
LEMMA LoadFits ==
  ASSUME CampaignAssumption, Fits, NEW w \in Workers, LoadMessage(w) \/ LoadBatch(w)
  PROVE  Fits'
<1> USE DEF world, provider
<1>0. "call" \in Steps /\ 0 \in Nat /\ {"skipped", "failed", "sending"} \subseteq MessageStates
  BY DEF Steps, MessageStates
<1>1. CASE LoadMessage(w)
  <2>1. worker[w].job \in JobType BY DEF Fits, SlotsFit, SlotType
  <2>2. worker[w].job.of \subseteq Customers /\ worker[w].job.tag \in Seq({"later", "at", "again"})
    BY <2>1 DEF JobType
  <2>3. UNCHANGED <<campaign, lost, crashes, world, provider>> BY <1>1 DEF LoadMessage
  <2>4. PICK c \in worker[w].job.of :
          \/ /\ Return(w) /\ UNCHANGED <<message, later, jobs>>
          \/ /\ Settle({c}, "skipped") /\ jobs' = Enqueued(jobs, {Stats}) /\ Return(w) /\ UNCHANGED later
          \/ /\ Settle({c}, "failed") /\ jobs' = Enqueued(jobs, {Stats}) /\ Return(w) /\ UNCHANGED later
          \/ /\ later' = later \cup {c}
             /\ jobs' = Enqueued(jobs, {Job("deliver", {c}, Append(worker[w].job.tag, "again"), night)})
             /\ Return(w) /\ UNCHANGED message
          \/ /\ Settle({c}, "sending") /\ Step(w, "call", 0, {c}) /\ UNCHANGED <<later, jobs>>
    BY <1>1 DEF LoadMessage
  <2>5. c \in Customers /\ {c} \in SUBSET Customers BY <2>2
  <2> DEFINE again == Job("deliver", {c}, Append(worker[w].job.tag, "again"), night)
  <2>6. again \in JobType /\ again.tries = 0
    <3>1. "deliver" \in Kinds /\ night \in BOOLEAN BY DEF Kinds, Fits, RestTyped
    <3> QED BY <3>1, <2>2, <2>5, Tags DEF Job, JobType
  <2> HIDE DEF again
  <2>7. JobsFit'
    <3>1. UNCHANGED jobs \/ jobs' = Enqueued(jobs, {Stats}) \/ jobs' = Enqueued(jobs, {again})
      BY <2>4 DEF again
    <3>2. CASE UNCHANGED jobs BY <2>3, <3>2, SameJobsFit
    <3>3. CASE jobs' = Enqueued(jobs, {Stats}) BY <2>3, <3>3, StatsTyped, GrowsFit DEF Grows
    <3>4. CASE jobs' = Enqueued(jobs, {again}) BY <2>3, <2>6, <3>4, GrowsFit DEF Grows
    <3> QED BY <3>1, <3>2, <3>3, <3>4
  <2>8. SlotsFit'
    <3>1. Return(w) \/ Step(w, "call", 0, {c}) BY <2>4
    <3> QED BY <1>0, <2>3, <2>5, <3>1, ReturnFit, StepFit
  <2>9. message' \in [Customers -> MessageStates]
    <3>1. UNCHANGED message \/ \E status \in MessageStates : Settle({c}, status) BY <1>0, <2>4
    <3> QED BY <3>1, SettleFit DEF Fits, RestTyped
  <2>10. later' \subseteq Customers BY <2>4, <2>5 DEF Fits, RestTyped
  <2> QED BY <2>3, <2>7, <2>8, <2>9, <2>10 DEF Fits, RestTyped
<1>2. CASE LoadBatch(w)
  <2> DEFINE batch == {c \in worker[w].job.of : message[c] = "sending"}
  <2>1. worker[w].job \in JobType BY DEF Fits, SlotsFit, SlotType
  <2>2. batch \in SUBSET Customers BY <2>1 DEF JobType
  <2>3. UNCHANGED <<campaign, lost, later, crashes, world, provider>> BY <1>2 DEF LoadBatch
  <2>4. \/ Return(w) /\ UNCHANGED <<message, jobs>>
        \/ Settle(batch, "failed") /\ jobs' = Enqueued(jobs, {Stats}) /\ Return(w)
        \/ Step(w, "call", 0, batch) /\ UNCHANGED <<message, jobs>>
    BY <1>2 DEF LoadBatch
  <2> HIDE DEF batch
  <2>5. JobsFit' BY <2>3, <2>4, StatsTyped, SameJobsFit, GrowsFit DEF Grows
  <2>6. SlotsFit' BY <1>0, <2>2, <2>3, <2>4, ReturnFit, StepFit
  <2>7. message' \in [Customers -> MessageStates]
    <3>1. UNCHANGED message \/ \E status \in MessageStates : Settle(batch, status) BY <1>0, <2>4
    <3> QED BY <3>1, SettleFit DEF Fits, RestTyped
  <2> QED BY <2>3, <2>5, <2>6, <2>7 DEF Fits, RestTyped
<1> QED BY <1>1, <1>2

LEMMA CallFits ==
  ASSUME CampaignAssumption, Fits, NEW w \in Workers,
         Accepted(w) \/ AnswerLost(w) \/ \E how \in {"error", "rejected"} : Refused(w, how)
  PROVE  Fits'
<1> USE DEF world, provider
<1>0. /\ {"ok", "error", "rejected"} \subseteq Steps /\ 0 \in Nat
      /\ worker[w].batch \in SUBSET Customers
      /\ worker[w].job \in JobType
  BY DEF Steps, Fits, SlotsFit, SlotType
<1>1. RetryKey(w) \in (SUBSET Customers) \X Nat BY <1>0 DEF RetryKey, JobType
<1>2. ASSUME Arrives(w) PROVE keys' \subseteq (SUBSET Customers) \X Nat /\ got' \in [Customers -> Nat]
  <2>1. keys \subseteq (SUBSET Customers) \X Nat BY DEF Fits, RestTyped
  <2>a. got \in [Customers -> Nat] BY DEF Fits, RestTyped
  <2>2. keys' = keys \/ keys' = keys \cup {RetryKey(w)} BY <1>2 DEF Arrives
  <2>3. ASSUME NEW c \in Customers PROVE got[c] + 1 \in Nat
    <3>1. got[c] \in Nat BY <2>a
    <3> QED BY <3>1
  <2>4. got' = got \/ got' = [c \in Customers |-> IF c \in worker[w].batch THEN got[c] + 1 ELSE got[c]]
    BY <1>2 DEF Arrives
  <2>5. keys' \subseteq (SUBSET Customers) \X Nat
    <3> SUFFICES ASSUME NEW k \in keys' PROVE k \in (SUBSET Customers) \X Nat OBVIOUS
    <3>1. k \in keys \/ k = RetryKey(w) BY <2>2
    <3>2. CASE k \in keys BY <2>1, <3>2
    <3>3. CASE k = RetryKey(w) BY <1>1, <3>3
    <3> QED BY <3>1, <3>2, <3>3
  <2>6. got' \in [Customers -> Nat]
    <3>1. [c \in Customers |-> IF c \in worker[w].batch THEN got[c] + 1 ELSE got[c]] \in [Customers -> Nat]
      BY <2>a, <2>3
    <3> QED BY <2>a, <2>4, <3>1
  <2> QED BY <2>5, <2>6
<1>3. CASE Accepted(w)
  <2>1. SlotsFit' BY <1>0, <1>3, StepFit DEF Accepted
  <2>2. JobsFit' BY <1>3, SameJobsFit DEF Accepted
  <2> QED BY <1>2, <1>3, <2>1, <2>2 DEF Accepted, Fits, RestTyped
<1>4. CASE AnswerLost(w)
  <2>1. SlotsFit' BY <1>0, <1>4, StepFit DEF AnswerLost
  <2>2. JobsFit' BY <1>4, SameJobsFit DEF AnswerLost
  <2> QED BY <1>2, <1>4, <2>1, <2>2 DEF AnswerLost, Fits, RestTyped
<1>5. ASSUME NEW how \in {"error", "rejected"}, Refused(w, how) PROVE Fits'
  <2>0. Step(w, how, 0, worker[w].batch) /\ how \in Steps /\ how # "retry" /\ UNCHANGED crashes
    BY <1>0, <1>5 DEF Refused
  <2>1. SlotsFit' BY <1>0, <2>0, StepFit
  <2>2. JobsFit' BY <1>5, SameJobsFit DEF Refused
  <2> QED BY <1>5, <2>1, <2>2 DEF Refused, Fits, RestTyped
<1> QED BY <1>3, <1>4, <1>5

LEMMA OutcomeFits ==
  ASSUME CampaignAssumption, Fits, NEW w \in Workers, MarkSent(w) \/ AwaitRetry(w) \/ MarkFailed(w)
  PROVE  Fits'
<1> USE DEF world, provider
<1>0. {"sent", "queued", "failed"} \subseteq MessageStates /\ "retry" \in Steps /\ 0 \in Nat
  BY DEF MessageStates, Steps
<1>1. CASE MarkSent(w)
  <2>1. JobsFit' BY <1>1, StatsTyped, GrowsFit DEF MarkSent, Grows
  <2>2. SlotsFit' BY <1>1, ReturnFit DEF MarkSent
  <2>3. message' \in [Customers -> MessageStates] BY <1>0, <1>1, SettleFit DEF MarkSent
  <2> QED BY <1>1, <2>1, <2>2, <2>3 DEF MarkSent, Fits, RestTyped
<1>2. CASE AwaitRetry(w)
  <2>1. JobsFit' BY <1>2, SameJobsFit DEF AwaitRetry
  <2>2. worker[w].job.tries < MaxTries /\ worker[w].job \in JobType /\ MaxTries \in Nat /\ crashes \in Nat
    BY <1>2 DEF AwaitRetry, CanRetry, Fits, SlotsFit, SlotType, RestTyped, CampaignAssumption
  <2>3. worker[w].job.tries < MaxTries + crashes
    <3>1. worker[w].job.tries \in Nat BY <2>2 DEF JobType
    <3> QED BY <2>2, <3>1
  <2>4. SlotsFit' BY <1>0, <1>2, <2>3, StepFit DEF AwaitRetry
  <2>5. message' \in [Customers -> MessageStates] BY <1>0, <1>2, SettleFit DEF AwaitRetry
  <2> QED BY <1>2, <2>1, <2>4, <2>5 DEF AwaitRetry, Fits, RestTyped
<1>3. CASE MarkFailed(w)
  <2>1. JobsFit' BY <1>3, StatsTyped, GrowsFit DEF MarkFailed, Grows
  <2>2. SlotsFit' BY <1>3, ReturnFit DEF MarkFailed
  <2>3. message' \in [Customers -> MessageStates] BY <1>0, <1>3, SettleFit DEF MarkFailed
  <2> QED BY <1>3, <2>1, <2>2, <2>3 DEF MarkFailed, Fits, RestTyped
<1> QED BY <1>1, <1>2, <1>3

LEMMA NextFits == ASSUME CampaignAssumption, Fits, [Next]_vars PROVE Fits'
<1>1. CASE ScheduleCampaign \/ CancelCampaign \/ Dusk BY <1>1, WorldFits
<1>2. CASE \E c \in Customers : OptOut(c) BY <1>2, WorldFits
<1>3. CASE \E what \in {"no_template", "no_channel"} : Lose(what) BY <1>3, WorldFits
<1>4. CASE Dawn BY <1>4, DawnFits
<1>5. CASE Reap
  <2>1. JobsFit' BY <1>5 DEF Reap, Fits, JobsFit
  <2>2. SlotsFit' BY <1>5, SameSlotsFit DEF Reap
  <2> QED BY <1>5, <2>1, <2>2 DEF Reap, Fits, RestTyped, world, provider
<1>6. ASSUME NEW w \in Workers, Handler(w) PROVE Fits'
  BY <1>6, RunFits, DispatchFits, LoadFits, CallFits, OutcomeFits, QueueFits DEF Handler
<1>7. ASSUME NEW w \in Workers, Crash(w) PROVE Fits' BY <1>7, QueueFits
<1>8. ASSUME NEW w \in Workers, RefreshStats(w) PROVE Fits' BY <1>8, StatsFits
<1>9. ASSUME NEW w \in Workers, NEW kind \in Kinds \ {"stats"}, Claim(w, kind) PROVE Fits'
  BY <1>9, QueueFits
<1>10. CASE UNCHANGED vars BY <1>10 DEF vars, Fits, JobsFit, SlotsFit, RestTyped
<1> QED BY <1>1, <1>2, <1>3, <1>4, <1>5, <1>6, <1>7, <1>8, <1>9, <1>10 DEF Next

LEMMA AlwaysFits == ASSUME CampaignAssumption PROVE Spec => []Fits
<1>1. Init => Fits BY InitFits
<1>2. Fits /\ [Next]_vars => Fits' BY NextFits
<1> QED BY <1>1, <1>2, PTL DEF Spec

(* Every variable keeps its type.                                           *)
THEOREM TypeCorrect == ASSUME CampaignAssumption PROVE Spec => []TypeOK
<1>1. Fits => TypeOK BY FitsIsTyped
<1> QED BY <1>1, AlwaysFits, PTL

(* No job is claimed more often than max_attempts, crashes aside: of a      *)
(* provider that goes on failing, every retry comes to an end.              *)
THEOREM AttemptsStayBounded == ASSUME CampaignAssumption PROVE Spec => []AttemptsBounded
<1>1. Fits => AttemptsBounded BY FitsIsTyped
<1> QED BY <1>1, AlwaysFits, PTL

(***************************************************************************)
(* A campaign is completed only when every message is settled.  The        *)
(* statistics count messages, so they must not be taken while customers    *)
(* have none yet: until the snapshot is complete there is no job but       *)
(* campaign.run, and it is complete when its last batch is short.          *)
(***************************************************************************)

Missing == {c \in Customers : message[c] = "none"}

OnlyRun == /\ \A j \in jobs \cup lost : j.kind = "run"
           /\ \A w \in Workers : Busy(w) => worker[w].job.kind = "run"

NotStarted ==
    campaign \in {"draft", "scheduled"} => OnlyRun /\ \A w \in Workers : Busy(w) => worker[w].pc = "load"

Collecting ==
    campaign = "running" /\ Missing # {} =>
        OnlyRun /\ \A w \in Workers : Busy(w) => worker[w].pc \in {"load", "read", "write"}

OnSnapshot(w) == worker[w].job.kind = "run" /\ worker[w].pc \in {"read", "write"}

CursorsFit ==
    \A w \in Workers : OnSnapshot(w) =>
        /\ \A c \in Customers : c <= worker[w].at => c \notin Missing
        /\ worker[w].pc = "write" => IsPage(worker[w].batch, Customers, worker[w].at, Batch)

CInv == Fits /\ NotStarted /\ Collecting /\ CursorsFit /\ CompletedIsSettled

(* What most steps have in common: a job other than campaign.run is at      *)
(* work, no message appears or disappears, no campaign starts.              *)
Past == /\ campaign \notin {"draft", "scheduled"}
        /\ campaign = "running" => Missing = {}

Onward == /\ Missing' \subseteq Missing
          /\ campaign' \notin {"draft", "scheduled"}
          /\ campaign' = "running" => campaign = "running"
          /\ \A v \in Workers : OnSnapshot(v)' => worker'[v] = worker[v]

LEMMA OnwardKeeps == ASSUME CInv, Past, Onward, Fits', CompletedIsSettled' PROVE CInv'
<1>1. NotStarted' BY DEF NotStarted, Onward
<1>2. Collecting' BY DEF Collecting, Onward, Past
<1>3. CursorsFit' BY DEF CInv, CursorsFit, Onward, OnSnapshot, IsPage
<1> QED BY <1>1, <1>2, <1>3 DEF CInv

LEMMA PastJob ==
  ASSUME CInv, (\E j \in jobs \cup lost : j.kind # "run")
               \/ \E w \in Workers : Busy(w) /\ worker[w].job.kind # "run"
  PROVE  Past
  BY DEF CInv, Past, NotStarted, Collecting, OnlyRun

(* A slot that returns, or goes on with a job that is no campaign.run.      *)
LEMMA SlotMoves ==
  ASSUME CInv, NEW w \in Workers, worker[w].job.kind # "run",
         Return(w) \/ \E pc, at, batch : Step(w, pc, at, batch)
  PROVE  \A v \in Workers : OnSnapshot(v)' => worker'[v] = worker[v]
<1>1. worker \in [Workers -> SlotType] BY DEF CInv, Fits, SlotsFit
<1>2. Idle.job.kind # "run" BY StatsTyped DEF Idle
<1>3. CASE Return(w) BY <1>1, <1>2, <1>3 DEF Return, OnSnapshot
<1>4. ASSUME NEW pc, NEW at, NEW batch, Step(w, pc, at, batch)
      PROVE  \A v \in Workers : OnSnapshot(v)' => worker'[v] = worker[v]
  BY <1>1, <1>4 DEF Step, OnSnapshot
<1> QED BY <1>3, <1>4

LEMMA SettleMoves ==
  ASSUME CInv, NEW S, NEW status \in MessageStates \ {"none"}, Settle(S, status)
  PROVE  Missing' \subseteq Missing
  BY DEF Settle, Missing, CInv, Fits, RestTyped

(* Settling messages leaves a completed campaign settled.                   *)
LEMMA StaysSettled ==
  ASSUME CInv, NEW S, NEW status, Settle(S, status),
         status \in Settled \/ S \cap {c \in Customers : message[c] \in Settled} = {},
         campaign' = campaign
  PROVE  CompletedIsSettled'
  BY DEF Settle, CInv, CompletedIsSettled, Fits, RestTyped

LEMMA SameSettled == ASSUME CInv, UNCHANGED <<campaign, message>> PROVE CompletedIsSettled'
  BY DEF CInv, CompletedIsSettled

(* Steps that move no message: jobs and slots keep their kinds.             *)
LEMMA QuietKeeps ==
  ASSUME CInv, Fits', UNCHANGED <<campaign, message>>,
         OnlyRun => OnlyRun',
         \A w \in Workers : Busy(w)' => worker'[w] = worker[w] \/ worker'[w].pc = "load"
  PROVE  CInv'
<1>1. NotStarted' BY DEF CInv, NotStarted, Busy
<1>2. Collecting' BY DEF CInv, Collecting, Missing, Busy
<1>3. CursorsFit' BY DEF CInv, CursorsFit, OnSnapshot, Missing, IsPage, Busy
<1>4. CompletedIsSettled' BY SameSettled
<1> QED BY <1>1, <1>2, <1>3, <1>4 DEF CInv

LEMMA WorldKeeps ==
  ASSUME CampaignAssumption, CInv, Fits',
         \/ ScheduleCampaign \/ CancelCampaign
         \/ \E c \in Customers : OptOut(c)
         \/ \E what \in {"no_template", "no_channel"} : Lose(what)
         \/ Dusk \/ Dawn \/ Reap
  PROVE  CInv'
<1>1. CASE ScheduleCampaign
  <2>1. OnlyRun /\ \A w \in Workers : Busy(w) => worker[w].pc = "load"
    BY <1>1 DEF ScheduleCampaign, CInv, NotStarted
  <2>2. campaign' = "scheduled" /\ UNCHANGED <<message, lost, worker>> BY <1>1 DEF ScheduleCampaign
  <2>3. \A j \in jobs' : j \in jobs \/ j.kind = "run"
    BY <1>1 DEF ScheduleCampaign, Enqueued, Job
  <2>4. NotStarted' BY <2>1, <2>2, <2>3 DEF NotStarted, OnlyRun, Busy
  <2>5. Collecting' /\ CompletedIsSettled' BY <2>2 DEF Collecting, CompletedIsSettled
  <2>6. CursorsFit' BY <2>2 DEF CInv, CursorsFit, OnSnapshot, Missing, IsPage
  <2> QED BY <2>4, <2>5, <2>6 DEF CInv
<1>2. CASE CancelCampaign
  <2>1. campaign' = "cancelled" /\ UNCHANGED worker BY <1>2 DEF CancelCampaign
  <2>2. NotStarted' /\ Collecting' /\ CompletedIsSettled'
    BY <2>1 DEF NotStarted, Collecting, CompletedIsSettled
  <2>3. Missing' \subseteq Missing BY <1>2 DEF CancelCampaign, Missing, CInv, Fits, RestTyped
  <2>4. CursorsFit'
    <3> SUFFICES ASSUME NEW w \in Workers, OnSnapshot(w)'
                 PROVE  /\ \A c \in Customers : c <= worker'[w].at => c \notin Missing'
                        /\ worker'[w].pc = "write" => IsPage(worker'[w].batch, Customers, worker'[w].at, Batch)
      BY DEF CursorsFit
    <3>1. worker' = worker /\ OnSnapshot(w) BY <2>1 DEF OnSnapshot
    <3>2. /\ \A c \in Customers : c <= worker[w].at => c \notin Missing
          /\ worker[w].pc = "write" => IsPage(worker[w].batch, Customers, worker[w].at, Batch)
      BY <3>1 DEF CInv, CursorsFit
    <3> QED BY <2>3, <3>1, <3>2
  <2> QED BY <2>2, <2>4 DEF CInv
<1>3. ASSUME NEW c \in Customers, OptOut(c) PROVE CInv'
  BY <1>3, QuietKeeps DEF OptOut, OnlyRun, Busy
<1>4. ASSUME NEW what \in {"no_template", "no_channel"}, Lose(what) PROVE CInv'
  BY <1>4, QuietKeeps DEF Lose, OnlyRun, Busy
<1>5. CASE Dusk BY <1>5, QuietKeeps DEF Dusk, OnlyRun, Busy
<1>6. CASE Dawn
  <2>1. \A j \in JobType : [j EXCEPT !.wait = FALSE].kind = j.kind BY DEF JobType
  <2>2. OnlyRun => OnlyRun' BY <1>6, <2>1 DEF Dawn, OnlyRun, Busy, CInv, Fits, JobsFit
  <2> QED BY <1>6, <2>2, QuietKeeps DEF Dawn
<1>7. CASE Reap BY <1>7, QuietKeeps DEF Reap, OnlyRun, Busy
<1> QED BY <1>1, <1>2, <1>3, <1>4, <1>5, <1>6, <1>7

LEMMA QueueKeeps ==
  ASSUME CampaignAssumption, CInv, Fits', NEW w \in Workers,
         (\E kind \in Kinds : Claim(w, kind)) \/ Retry(w) \/ Crash(w)
  PROVE  CInv'
<1>0. worker \in [Workers -> SlotType] /\ Idle.pc = "idle" BY DEF CInv, Fits, SlotsFit, Idle
<1>1. ASSUME NEW kind \in Kinds, Claim(w, kind) PROVE CInv'
  <2>1. PICK j \in jobs : /\ j.kind = kind
                          /\ jobs' = jobs \ {j}
                          /\ worker' = [worker EXCEPT ![w] = [pc |-> "load", job |-> [j EXCEPT !.tries = @ + 1],
                                                             at |-> 0, batch |-> {}]]
    BY <1>1 DEF Claim
  <2>2. [j EXCEPT !.tries = @ + 1].kind = j.kind BY DEF CInv, Fits, JobsFit, JobType
  <2>3. worker'[w].pc = "load" /\ worker'[w].job.kind = j.kind
    BY <1>0, <2>1, <2>2
  <2>4. \A v \in Workers \ {w} : worker'[v] = worker[v] BY <1>0, <2>1
  <2>5. OnlyRun => OnlyRun' BY <1>1, <2>1, <2>3, <2>4 DEF Claim, OnlyRun, Busy
  <2> QED BY <1>1, <2>3, <2>4, <2>5, QuietKeeps DEF Claim
<1>2. ASSUME worker' = [worker EXCEPT ![w] = Idle], UNCHANGED <<campaign, message>>, Busy(w),
             jobs' \cup lost' = jobs \cup lost \cup {worker[w].job}
      PROVE  CInv'
  <2>1. OnlyRun => OnlyRun' BY <1>0, <1>2 DEF OnlyRun, Busy
  <2>2. \A v \in Workers : Busy(v)' => worker'[v] = worker[v] BY <1>0, <1>2 DEF Busy
  <2> QED BY <1>2, <2>1, <2>2, QuietKeeps
<1>3. CASE Retry(w) BY <1>2, <1>3 DEF Retry, Busy
<1>4. CASE Crash(w) BY <1>2, <1>4 DEF Crash
<1> QED BY <1>1, <1>3, <1>4

LEMMA StatsKeeps == ASSUME CInv, Fits', NEW w \in Workers, RefreshStats(w) PROVE CInv'
<1>1. Past BY PastJob DEF RefreshStats
<1>2. /\ UNCHANGED <<message, worker>>
      /\ \/ campaign' = campaign
         \/ campaign \in {"running", "completed"} /\ Pending = {} /\ campaign' = "completed"
  BY DEF RefreshStats
<1>3. Onward
  <2>1. Missing' \subseteq Missing BY <1>2 DEF Missing
  <2> QED BY <1>1, <1>2, <2>1 DEF Onward, Past
<1>4. CompletedIsSettled'
  <2>1. CASE campaign' = campaign BY <1>2, <2>1, SameSettled
  <2>2. CASE campaign = "completed" BY <1>2, <2>2 DEF CInv, CompletedIsSettled
  <2>3. CASE campaign = "running" /\ Pending = {}
    <3>1. \A c \in Customers : message[c] \in MessageStates \ {"none", "queued", "sending"}
      BY <1>1, <2>3 DEF Past, Missing, Pending, CInv, Fits, RestTyped
    <3> QED BY <1>2, <3>1 DEF CompletedIsSettled, MessageStates, Settled
  <2> QED BY <1>2, <2>1, <2>2, <2>3
<1> QED BY <1>1, <1>3, <1>4, OnwardKeeps

(* The snapshot itself.                                                     *)
LEMMA SnapshotKeeps ==
  ASSUME CampaignAssumption, CInv, Fits', NEW w \in Workers,
         StartCampaign(w) \/ SnapshotRead(w) \/ SnapshotWrite(w) \/ EndSnapshot(w)
  PROVE  CInv'
<1>0. /\ worker \in [Workers -> SlotType]
      /\ Idle.pc = "idle" /\ Idle.job.kind # "run"
      /\ worker[w].at \in Nat
  BY StatsTyped DEF CInv, Fits, SlotsFit, SlotType, Idle
<1>1. Customers \subseteq Nat /\ Batch \in Nat BY DEF CampaignAssumption
<1>2. CASE StartCampaign(w)
  <2>1. CASE campaign = "scheduled"
    <3>1. campaign' = "running" /\ UNCHANGED <<jobs, lost, message>> /\ Step(w, "read", 0, {})
      BY <1>2, <2>1 DEF StartCampaign
    <3>2. OnlyRun /\ \A v \in Workers : Busy(v) => worker[v].pc = "load"
      BY <2>1 DEF CInv, NotStarted
    <3>3. /\ worker'[w].pc = "read" /\ worker'[w].at = 0 /\ worker'[w].job = worker[w].job
          /\ \A v \in Workers \ {w} : worker'[v] = worker[v]
      BY <1>0, <3>1 DEF Step
    <3>4. worker[w].job.kind = "run" BY <1>2 DEF StartCampaign, At
    <3>5. Collecting' BY <3>1, <3>2, <3>3, <3>4 DEF Collecting, OnlyRun, Busy
    <3>6. \A c \in Customers : ~ (c <= 0) BY DEF CampaignAssumption
    <3>7. CursorsFit' BY <3>1, <3>2, <3>3, <3>6 DEF CursorsFit, OnSnapshot, Busy
    <3>8. NotStarted' /\ CompletedIsSettled' BY <3>1 DEF NotStarted, CompletedIsSettled
    <3> QED BY <3>5, <3>7, <3>8 DEF CInv
  <2>2. CASE campaign # "scheduled"
    <3>1. UNCHANGED <<campaign, jobs, lost, message>> /\ Return(w) BY <1>2, <2>2 DEF StartCampaign
    <3>2. \A v \in Workers : Busy(v)' => worker'[v] = worker[v] BY <1>0, <3>1 DEF Return, Busy
    <3>3. OnlyRun => OnlyRun' BY <3>1, <3>2 DEF OnlyRun, Busy
    <3> QED BY <3>1, <3>2, <3>3, QuietKeeps
  <2> QED BY <2>1, <2>2
<1>3. CASE SnapshotRead(w)
  <2>0. worker[w].pc = "read" /\ worker[w].job.kind = "run" /\ Busy(w) /\ UNCHANGED <<campaign, jobs, lost, message>>
    BY <1>3 DEF SnapshotRead, At, Busy
  <2>1. campaign \notin {"draft", "scheduled"} BY <2>0 DEF CInv, NotStarted
  <2>2. CASE campaign = "running"
    <3>1. PICK P \in SUBSET Customers : /\ IsPage(P, Customers, worker[w].at, Batch)
                                        /\ Step(w, "write", worker[w].at, P)
      BY <1>3, <2>2 DEF SnapshotRead
    <3>2. /\ worker'[w].pc = "write" /\ worker'[w].at = worker[w].at /\ worker'[w].batch = P
          /\ worker'[w].job = worker[w].job
          /\ \A v \in Workers \ {w} : worker'[v] = worker[v]
      BY <1>0, <3>1 DEF Step
    <3>c. Missing' = Missing BY <2>0 DEF Missing
    <3>3. Collecting' BY <2>0, <3>2, <3>c DEF CInv, Collecting, OnlyRun, Busy
    <3>d. \A c \in Customers : c <= worker[w].at => c \notin Missing
      BY <2>0 DEF CInv, CursorsFit, OnSnapshot
    <3>e. IsPage(worker'[w].batch, Customers, worker'[w].at, Batch) BY <3>1, <3>2
    <3>4. CursorsFit'
      <4> SUFFICES ASSUME NEW v \in Workers, OnSnapshot(v)'
                   PROVE  /\ \A c \in Customers : c <= worker'[v].at => c \notin Missing'
                          /\ worker'[v].pc = "write" => IsPage(worker'[v].batch, Customers, worker'[v].at, Batch)
        BY DEF CursorsFit
      <4>1. CASE v = w BY <3>2, <3>c, <3>d, <3>e, <4>1
      <4>2. CASE v # w BY <3>2, <3>c, <4>2 DEF CInv, CursorsFit, OnSnapshot
      <4> QED BY <4>1, <4>2
    <3>5. NotStarted' BY <2>0, <2>1 DEF NotStarted
    <3> QED BY <2>0, <3>3, <3>4, <3>5, SameSettled DEF CInv
  <2>3. CASE campaign # "running"
    <3>1. Step(w, "end", 0, {}) BY <1>3, <2>3 DEF SnapshotRead
    <3>2. worker'[w].pc = "end" /\ \A v \in Workers \ {w} : worker'[v] = worker[v]
      BY <1>0, <3>1 DEF Step
    <3>3. Past BY <2>1, <2>3 DEF Past
    <3>4. Onward BY <2>0, <2>1, <3>2 DEF Onward, OnSnapshot, Missing
    <3> QED BY <2>0, <3>3, <3>4, OnwardKeeps, SameSettled
  <2> QED BY <2>2, <2>3
<1>4. CASE SnapshotWrite(w)
  <2> DEFINE batch == worker[w].batch
             beyond == {c \in Customers : c > worker[w].at}
  <2>0. worker[w].pc = "write" /\ worker[w].job.kind = "run" /\ Busy(w) /\ UNCHANGED <<campaign, jobs, lost>>
    BY <1>4 DEF SnapshotWrite, At, Busy
  <2>1. campaign \notin {"draft", "scheduled"} BY <2>0 DEF CInv, NotStarted
  <2>2. /\ \A c \in Customers : c <= worker[w].at => c \notin Missing
        /\ IsPage(batch, Customers, worker[w].at, Batch)
    BY <2>0 DEF CInv, CursorsFit, OnSnapshot
  <2>3. Missing' = Missing \ batch /\ CompletedIsSettled'
    BY <1>4, <2>0 DEF SnapshotWrite, Missing, CInv, Fits, RestTyped, CompletedIsSettled, Settled
  <2>4. CASE Cardinality(batch) < Batch /\ Step(w, "end", 0, {})
    <3>1. batch = beyond BY <1>1, <2>2, <2>4 DEF IsPage
    <3>2. ASSUME NEW c \in Customers PROVE c <= worker[w].at \/ c \in beyond
      <4>1. c \in Nat /\ worker[w].at \in Nat BY <1>0, <1>1
      <4>2. c <= worker[w].at \/ c > worker[w].at BY <4>1
      <4> QED BY <4>2
    <3>3. Missing' = {} BY <2>2, <2>3, <3>1, <3>2 DEF Missing
    <3>4. worker'[w].pc = "end" /\ \A v \in Workers \ {w} : worker'[v] = worker[v]
      BY <1>0, <2>4 DEF Step
    <3>5. CursorsFit' BY <3>3, <3>4 DEF CInv, CursorsFit, OnSnapshot, IsPage
    <3>6. NotStarted' /\ Collecting' BY <2>0, <2>1, <3>3 DEF NotStarted, Collecting
    <3> QED BY <2>3, <3>5, <3>6 DEF CInv
  <2>5. CASE Further(w, "read", batch, Batch)
    <3>1. PICK last \in batch : (\A c \in batch : c <= last) /\ Step(w, "read", last, {})
      BY <2>5 DEF Further
    <3>2. /\ worker'[w].pc = "read" /\ worker'[w].at = last /\ worker'[w].job = worker[w].job
          /\ \A v \in Workers \ {w} : worker'[v] = worker[v]
      BY <1>0, <3>1 DEF Step
    <3>3. last \in Customers /\ last \in Nat /\ worker[w].at \in Nat
      BY <1>0, <1>1 DEF SlotType
    <3>4. ASSUME NEW c \in Customers, c <= last PROVE c \notin Missing'
      <4>1. CASE c <= worker[w].at BY <2>2, <2>3, <4>1
      <4>2. CASE c > worker[w].at
        <5>1. c \in batch
          <6>1. CASE c = last BY <6>1
          <6>2. CASE c < last BY <2>2, <4>2, <6>2 DEF IsPage
          <6>3. c \in Nat BY <1>1
          <6>4. c = last \/ c < last BY <3>3, <3>4, <6>3
          <6> QED BY <6>1, <6>2, <6>4
        <5> QED BY <2>3, <5>1
      <4>3. c \in Nat BY <1>1
      <4>4. c <= worker[w].at \/ c > worker[w].at BY <3>3, <4>3
      <4> QED BY <4>1, <4>2, <4>4
    <3>5. CursorsFit' BY <2>3, <3>2, <3>4 DEF CInv, CursorsFit, OnSnapshot, IsPage
    <3>6. Collecting' BY <2>0, <2>3, <3>2 DEF CInv, Collecting, OnlyRun, Busy
    <3>7. NotStarted' BY <2>0, <2>1 DEF NotStarted
    <3> QED BY <2>3, <3>5, <3>6, <3>7 DEF CInv
  <2> QED BY <1>4, <2>4, <2>5 DEF SnapshotWrite
<1>5. CASE EndSnapshot(w)
  <2>0. worker[w].pc = "end" /\ Busy(w) /\ UNCHANGED <<campaign, message>> /\ Return(w)
    BY <1>5 DEF EndSnapshot, At, Busy
  <2>1. Past BY <2>0 DEF CInv, NotStarted, Collecting, Past
  <2>2. \A v \in Workers : OnSnapshot(v)' => worker'[v] = worker[v]
    BY <1>0, <2>0 DEF Return, OnSnapshot
  <2>3. Onward BY <2>0, <2>1, <2>2 DEF Onward, Past, Missing
  <2> QED BY <2>0, <2>1, <2>3, OnwardKeeps, SameSettled
<1> QED BY <1>2, <1>3, <1>4, <1>5

(* Dispatch, deliveries and multicasts: jobs of other kinds.                *)
LEMMA DispatchKeeps ==
  ASSUME CInv, Fits', NEW w \in Workers, DispatchPage(w) \/ EndDispatch(w)
  PROVE  CInv'
<1>0. Busy(w) /\ worker[w].job.kind = "dispatch" /\ UNCHANGED campaign
  BY DEF DispatchPage, EndDispatch, At, Busy
<1>1. Past BY <1>0, PastJob
<1>2. Return(w) \/ \E pc, at, batch : Step(w, pc, at, batch)
  BY DEF DispatchPage, EndDispatch, Further
<1>3. \A v \in Workers : OnSnapshot(v)' => worker'[v] = worker[v] BY <1>0, <1>2, SlotMoves
<1>4. Missing' \subseteq Missing
  BY DEF DispatchPage, EndDispatch, Missing, CInv, Fits, RestTyped
<1>5. Onward BY <1>0, <1>1, <1>3, <1>4 DEF Onward, Past
<1>6. CompletedIsSettled'
  <2>1. UNCHANGED message \/ campaign = "running" BY DEF DispatchPage, EndDispatch
  <2> QED BY <1>0, <2>1, SameSettled DEF CompletedIsSettled
<1> QED BY <1>1, <1>5, <1>6, OnwardKeeps

(* Any step of a delivery or a multicast.                                   *)
LEMMA DeliveryKeeps ==
  ASSUME CInv, Fits', NEW w \in Workers, Busy(w), worker[w].job.kind # "run",
         UNCHANGED campaign,
         Return(w) \/ \E pc, at, batch : Step(w, pc, at, batch),
         \/ UNCHANGED message
         \/ \E S, status : /\ Settle(S, status) /\ status \in MessageStates \ {"none"}
                           /\ \/ status \in Settled
                              \/ S \cap {c \in Customers : message[c] \in Settled} = {}
  PROVE  CInv'
<1>1. Past BY PastJob
<1>2. \A v \in Workers : OnSnapshot(v)' => worker'[v] = worker[v] BY SlotMoves
<1>3. CASE UNCHANGED message
  <2>1. Onward BY <1>1, <1>2, <1>3 DEF Onward, Past, Missing
  <2> QED BY <1>1, <1>3, <2>1, SameSettled, OnwardKeeps
<1>4. ASSUME NEW S, NEW status, Settle(S, status), status \in MessageStates \ {"none"},
             status \in Settled \/ S \cap {c \in Customers : message[c] \in Settled} = {}
      PROVE  CInv'
  <2>1. Missing' \subseteq Missing BY <1>4, SettleMoves
  <2>2. Onward BY <1>1, <1>2, <2>1 DEF Onward, Past
  <2>3. CompletedIsSettled' BY <1>4, StaysSettled
  <2> QED BY <1>1, <2>2, <2>3, OnwardKeeps
<1> QED BY <1>3, <1>4

LEMMA HandlerKeeps ==
  ASSUME CampaignAssumption, CInv, Fits', NEW w \in Workers, Handler(w)
  PROVE  CInv'
<1>0. /\ {"sent", "failed", "skipped"} \subseteq Settled
      /\ {"sent", "failed", "skipped", "queued", "sending"} \subseteq MessageStates \ {"none"}
      /\ {"queued", "sending"} \cap Settled = {}
  BY DEF Settled, MessageStates
<1>1. CASE StartCampaign(w) \/ SnapshotRead(w) \/ SnapshotWrite(w) \/ EndSnapshot(w)
  BY <1>1, SnapshotKeeps
<1>2. CASE DispatchPage(w) \/ EndDispatch(w) BY <1>2, DispatchKeeps
<1>3. CASE LoadMessage(w)
  <2>1. Busy(w) /\ worker[w].job.kind # "run" /\ UNCHANGED campaign
    BY <1>3 DEF LoadMessage, At, Busy
  <2>2. Return(w) \/ \E pc, at, batch : Step(w, pc, at, batch) BY <1>3 DEF LoadMessage
  <2>3. \/ UNCHANGED message
        \/ \E c : Settle({c}, "skipped") \/ Settle({c}, "failed")
        \/ \E c : Settle({c}, "sending") /\ message[c] \in {"queued", "sending"}
    BY <1>3 DEF LoadMessage, Loaded, Deliverable
  <2>4. CASE \E c : Settle({c}, "sending") /\ message[c] \in {"queued", "sending"}
    <3>1. PICK c : Settle({c}, "sending") /\ message[c] \in {"queued", "sending"} BY <2>4
    <3>2. {c} \cap {d \in Customers : message[d] \in Settled} = {} BY <1>0, <3>1
    <3> QED BY <1>0, <2>1, <2>2, <3>1, <3>2, DeliveryKeeps
  <2> QED BY <1>0, <2>1, <2>2, <2>3, <2>4, DeliveryKeeps
<1>4. CASE LoadBatch(w)
  <2>1. Busy(w) /\ worker[w].job.kind # "run" /\ UNCHANGED campaign
    BY <1>4 DEF LoadBatch, At, Busy
  <2>2. Return(w) \/ \E pc, at, batch : Step(w, pc, at, batch) BY <1>4 DEF LoadBatch
  <2>3. UNCHANGED message \/ \E S : Settle(S, "failed") BY <1>4 DEF LoadBatch
  <2> QED BY <1>0, <2>1, <2>2, <2>3, DeliveryKeeps
<1>5. CASE Accepted(w) \/ AnswerLost(w) \/ \E how \in {"error", "rejected"} : Refused(w, how)
  <2>1. worker[w].pc = "call" /\ UNCHANGED <<campaign, message, jobs, lost>>
        /\ \E pc, at, batch : Step(w, pc, at, batch)
    BY <1>5 DEF Accepted, AnswerLost, Refused, Calls
  <2>2. Past BY <2>1 DEF CInv, NotStarted, Collecting, Past, Busy
  <2>3. \A v \in Workers : OnSnapshot(v)' => worker'[v] = worker[v]
    <3>0. worker \in [Workers -> SlotType] BY DEF CInv, Fits, SlotsFit
    <3>1. worker'[w].pc \in {"ok", "error", "rejected"} /\ \A v \in Workers \ {w} : worker'[v] = worker[v]
      BY <1>5, <3>0 DEF Accepted, AnswerLost, Refused, Step
    <3> QED BY <3>1 DEF OnSnapshot
  <2>4. Onward BY <2>1, <2>2, <2>3 DEF Onward, Past, Missing
  <2> QED BY <2>1, <2>2, <2>4, SameSettled, OnwardKeeps
<1>6. CASE MarkSent(w) \/ AwaitRetry(w) \/ MarkFailed(w)
  <2>1. Busy(w) /\ worker[w].job.kind # "run" /\ UNCHANGED campaign
    BY <1>6 DEF MarkSent, AwaitRetry, MarkFailed, Outcome, Busy
  <2>2. Return(w) \/ \E pc, at, batch : Step(w, pc, at, batch)
    BY <1>6 DEF MarkSent, AwaitRetry, MarkFailed
  <2>3. CASE AwaitRetry(w)
    <3>1. BackToQueue(w) \cap {c \in Customers : message[c] \in Settled} = {} BY <1>0 DEF BackToQueue
    <3> QED BY <1>0, <2>1, <2>2, <2>3, <3>1, DeliveryKeeps DEF AwaitRetry
  <2>4. CASE MarkSent(w) BY <1>0, <2>1, <2>2, <2>4, DeliveryKeeps DEF MarkSent
  <2>5. CASE MarkFailed(w) BY <1>0, <2>1, <2>2, <2>5, DeliveryKeeps DEF MarkFailed
  <2> QED BY <1>6, <2>3, <2>4, <2>5
<1>7. CASE Retry(w) BY <1>7, QueueKeeps
<1> QED BY <1>1, <1>2, <1>3, <1>4, <1>5, <1>6, <1>7 DEF Handler

LEMMA InitKeeps == ASSUME CampaignAssumption, Init PROVE CInv
<1>1. \A w \in Workers : ~ Busy(w) /\ ~ OnSnapshot(w) BY DEF Init, Busy, Idle, OnSnapshot
<1> QED BY <1>1, InitFits DEF Init, CInv, NotStarted, Collecting, CursorsFit, CompletedIsSettled, OnlyRun

LEMMA NextKeeps == ASSUME CampaignAssumption, CInv, [Next]_vars PROVE CInv'
<1>0. Fits' BY NextFits DEF CInv
<1>1. CASE \/ ScheduleCampaign \/ CancelCampaign
           \/ \E c \in Customers : OptOut(c)
           \/ \E what \in {"no_template", "no_channel"} : Lose(what)
           \/ Dusk \/ Dawn \/ Reap
  BY <1>0, <1>1, WorldKeeps
<1>2. ASSUME NEW w \in Workers, Handler(w) PROVE CInv' BY <1>0, <1>2, HandlerKeeps
<1>3. ASSUME NEW w \in Workers, Crash(w) PROVE CInv' BY <1>0, <1>3, QueueKeeps
<1>4. ASSUME NEW w \in Workers, RefreshStats(w) PROVE CInv' BY <1>0, <1>4, StatsKeeps
<1>5. ASSUME NEW w \in Workers, NEW kind \in Kinds \ {"stats"}, Claim(w, kind) PROVE CInv'
  BY <1>0, <1>5, QueueKeeps
<1>6. CASE UNCHANGED vars BY <1>0, <1>6, QuietKeeps DEF vars, OnlyRun, Busy
<1> QED BY <1>1, <1>2, <1>3, <1>4, <1>5, <1>6 DEF Next

(* A campaign is shown as completed only when the message of every customer *)
(* of its segment is sent, failed, skipped or cancelled, whatever workers   *)
(* were lost and whatever batch and page sizes are used.                    *)
THEOREM CompletedOnlyWhenSettled == ASSUME CampaignAssumption PROVE Spec => []CompletedIsSettled
<1>1. Init => CInv BY InitKeeps
<1>2. CInv /\ [Next]_vars => CInv' BY NextKeeps
<1>3. CInv => CompletedIsSettled BY DEF CInv
<1> QED BY <1>1, <1>2, <1>3, PTL DEF Spec

(***************************************************************************)
(* How often a customer gets the campaign.  A road to customer c is a job, *)
(* waiting, lost or at work, that may still lead to a message for c: the   *)
(* snapshot, a dispatch that has not come to c yet, a delivery, or a       *)
(* multicast with c in it.  It is open while a call of it would count: LINE*)
(* has not accepted its retry key, and its own call is still to come.      *)
(***************************************************************************)

Deliveries == {"deliver", "multicast"}

Carries(c, j) ==
    \/ j.kind = "run" /\ campaign = "scheduled"
    \/ j.kind = "dispatch"
    \/ j.kind \in Deliveries /\ c \in j.of

Carrying(c, w) ==
    \/ /\ worker[w].job.kind = "run"
       /\ \/ worker[w].pc = "load" /\ campaign = "scheduled"
          \/ worker[w].pc \in {"read", "write", "end"}
    \/ worker[w].job.kind = "dispatch" /\ worker[w].pc = "load" /\ worker[w].at < c
    \/ worker[w].job.kind \in Deliveries /\ worker[w].pc # "idle" /\ c \in worker[w].job.of

Roads(c) ==
    {<<"draft", d>> : d \in {campaign} \cap {"draft"}}
    \cup {<<"queue", j>> : j \in {i \in jobs : Carries(c, i)}}
    \cup {<<"lost", j>> : j \in {i \in lost : Carries(c, i)}}
    \cup {<<"worker", w>> : w \in {v \in Workers : Carrying(c, v)}}

Spent(j) == channel = "line" /\ j.kind \in Deliveries /\ <<j.of, j.key>> \in keys
Called(w) == worker[w].job.kind \in Deliveries /\ worker[w].pc \in {"ok", "rejected"}

IsOpen(r) == /\ r[1] \in {"queue", "lost"} => ~ Spent(r[2])
             /\ r[1] = "worker" => ~ Called(r[2]) /\ ~ Spent(worker[r[2]].job)

Open(c) == {r \in Roads(c) : IsOpen(r)}

(* The roads after a step are roads before it, moved; an open one was open. *)
Follows(c) ==
    \E m : \A y \in Roads(c)' : \E x \in Roads(c) :
        y = m[x] /\ (IsOpen(y)' => IsOpen(x))

(* One road moves, from x to y, or is given up.                             *)
LEMMA MoveFollows ==
  ASSUME NEW c, NEW x, NEW y,
         \A r \in Roads(c)' : \/ r = y /\ x \in Roads(c) /\ (IsOpen(y)' => IsOpen(x))
                              \/ r \in Roads(c) /\ r # x /\ (IsOpen(r)' => IsOpen(r))
  PROVE  Follows(c)
<1> DEFINE m == [r \in Roads(c) |-> IF r = x THEN y ELSE r]
<1>1. ASSUME NEW r \in Roads(c)'
      PROVE  \E z \in Roads(c) : r = m[z] /\ (IsOpen(r)' => IsOpen(z))
  <2>1. CASE r = y /\ x \in Roads(c) /\ (IsOpen(y)' => IsOpen(x))
    <3>1. m[x] = y BY <2>1
    <3>2. IsOpen(r)' => IsOpen(x) BY <2>1
    <3> QED BY <2>1, <3>1, <3>2
  <2>2. CASE r \in Roads(c) /\ r # x /\ (IsOpen(r)' => IsOpen(r))
    <3>1. m[r] = r BY <2>2
    <3> QED BY <2>2, <3>1
  <2> QED BY <2>1, <2>2
<1> HIDE DEF m
<1> QED BY <1>1 DEF Follows

(* No road moves.                                                           *)
Stays(c) == \A r \in Roads(c)' : r \in Roads(c) /\ (IsOpen(r)' => IsOpen(r))

LEMMA SameFollows == ASSUME NEW c, Stays(c) PROVE Follows(c)
<1> DEFINE m == [r \in Roads(c) |-> r]
<1>1. \A r \in Roads(c)' : \E z \in Roads(c) : r = m[z] /\ (IsOpen(r)' => IsOpen(z))
  BY DEF Stays
<1> HIDE DEF m
<1> QED BY <1>1 DEF Follows

(* Moved roads do not become more.                                          *)
LEMMA MappedCount ==
  ASSUME NEW S, IsFiniteSet(S), NEW T, NEW m, \A t \in T : \E s \in S : t = m[s]
  PROVE  IsFiniteSet(T) /\ Cardinality(T) <= Cardinality(S)
<1> DEFINE U == {s \in S : m[s] \in T}
           f == [s \in U |-> m[s]]
<1>1. IsFiniteSet(U) /\ Cardinality(U) <= Cardinality(S) BY FS_Subset
<1>2. f \in Surjection(U, T) BY DEF Surjection
<1>3. IsFiniteSet(T) /\ Cardinality(T) <= Cardinality(U) BY <1>1, <1>2, FS_Surjection
<1>4. Cardinality(S) \in Nat /\ Cardinality(T) \in Nat /\ Cardinality(U) \in Nat
  BY <1>1, <1>3, FS_CardinalityType
<1> QED BY <1>1, <1>3, <1>4

LEMMA FewerCount ==
  ASSUME NEW S, IsFiniteSet(S), NEW x \in S, NEW T, T \subseteq S \ {x}
  PROVE  IsFiniteSet(T) /\ Cardinality(T) + 1 <= Cardinality(S)
<1>1. IsFiniteSet(S \ {x}) /\ Cardinality(S \ {x}) = Cardinality(S) - 1 BY FS_RemoveElement
<1>2. IsFiniteSet(T) /\ Cardinality(T) <= Cardinality(S \ {x}) BY <1>1, FS_Subset
<1>3. Cardinality(S) \in Nat /\ Cardinality(T) \in Nat BY <1>2, FS_CardinalityType
<1> QED BY <1>1, <1>2, <1>3

LEMMA MoreCount ==
  ASSUME NEW S, IsFiniteSet(S), NEW y, NEW T, T \subseteq S \cup {y}
  PROVE  IsFiniteSet(T) /\ Cardinality(T) <= Cardinality(S) + 1
<1>0. Cardinality(S) \in Nat BY FS_CardinalityType
<1>1. /\ IsFiniteSet(S \cup {y})
      /\ Cardinality(S \cup {y}) = IF y \in S THEN Cardinality(S) ELSE Cardinality(S) + 1
  BY FS_AddElement
<1>2. IsFiniteSet(T) /\ Cardinality(T) <= Cardinality(S \cup {y}) BY <1>1, FS_Subset
<1>3. Cardinality(T) \in Nat /\ Cardinality(S \cup {y}) \in Nat
  BY <1>1, <1>2, FS_CardinalityType
<1> QED BY <1>0, <1>1, <1>2, <1>3

Allowance == 1 + crashes + IF channel = "line" THEN 0 ELSE losses

(* Messages that arrived and open roads: at most the allowance.             *)
Bounded(c) == IsFiniteSet(Roads(c)) /\ Cardinality(Open(c)) + got[c] <= Allowance

(* Until a worker is lost there is at most one road to a customer.          *)
Alone(c) == crashes = 0 => \A x, y \in Roads(c) : x = y

LEMMA SumGrows ==
  ASSUME NEW n \in Nat, NEW k \in Nat, NEW l \in Nat, k <= l
  PROVE  1 + n + k \in Nat /\ 1 + n + l \in Nat /\ 1 + n + k <= 1 + n + l
OBVIOUS

LEMMA AllowanceGrows ==
  ASSUME crashes \in Nat, losses \in Nat, losses' \in Nat,
         crashes' = crashes, losses <= losses', channel' = channel
  PROVE  Allowance \in Nat /\ Allowance' \in Nat /\ Allowance <= Allowance'
<1>1. PICK l \in Nat : l = losses' OBVIOUS
<1>2. losses <= l BY <1>1
<1>3. CASE channel = "line"
  <2>1. Allowance = 1 + crashes /\ Allowance' = 1 + crashes BY <1>3 DEF Allowance
  <2>2. 1 + crashes \in Nat OBVIOUS
  <2> QED BY <2>1, <2>2
<1>4. CASE channel # "line"
  <2>1. Allowance = 1 + crashes + losses /\ Allowance' = 1 + crashes + losses' BY <1>4 DEF Allowance
  <2>2. Allowance' = 1 + crashes + l BY <1>1, <2>1
  <2>3. 1 + crashes + losses \in Nat /\ 1 + crashes + l \in Nat /\ 1 + crashes + losses <= 1 + crashes + l
    BY <1>1, <1>2, SumGrows
  <2> QED BY <2>1, <2>2, <2>3
<1> QED BY <1>3, <1>4

LEMMA FollowsKeeps ==
  ASSUME Fits, Fits', NEW c \in Customers, Follows(c), Bounded(c), Alone(c),
         got'[c] = got[c], crashes' = crashes, losses <= losses', channel' = channel
  PROVE  Bounded(c)' /\ Alone(c)'
<1>1. PICK m : \A y \in Roads(c)' : \E x \in Roads(c) : y = m[x] /\ (IsOpen(y)' => IsOpen(x))
  BY DEF Follows
<1>2. \A y \in Open(c)' : \E x \in Open(c) : y = m[x] BY <1>1 DEF Open
<1>3. IsFiniteSet(Roads(c)') BY <1>1, MappedCount DEF Bounded
<1>4. IsFiniteSet(Open(c)) BY FS_Subset DEF Bounded, Open
<1>5. IsFiniteSet(Open(c)') /\ Cardinality(Open(c)') <= Cardinality(Open(c))
  BY <1>2, <1>4, MappedCount
<1>6. Cardinality(Open(c)) \in Nat /\ Cardinality(Open(c)') \in Nat
  BY <1>4, <1>5, FS_CardinalityType
<1>7. got[c] \in Nat /\ crashes \in Nat /\ losses \in Nat /\ losses' \in Nat
  BY DEF Fits, RestTyped
<1>8. Cardinality(Open(c)') + got'[c] <= Allowance'
  <2>1. Allowance <= Allowance' /\ Allowance \in Nat /\ Allowance' \in Nat
    BY <1>7, AllowanceGrows
  <2>2. Cardinality(Open(c)) + got[c] <= Allowance BY DEF Bounded
  <2>3. got'[c] = got[c] OBVIOUS
  <2>4. Cardinality(Open(c)') + got'[c] <= Cardinality(Open(c)) + got[c] BY <1>5, <1>6, <1>7, <2>3
  <2>5. Cardinality(Open(c)') + got'[c] \in Nat /\ Cardinality(Open(c)) + got[c] \in Nat
    BY <1>6, <1>7, <2>3
  <2> QED BY <2>1, <2>2, <2>4, <2>5
<1>9. Alone(c)' BY <1>1 DEF Alone
<1> QED BY <1>3, <1>8, <1>9 DEF Bounded

(* What is a road, after a step that only slot w takes part in.             *)
LEMMA RoadKinds ==
  ASSUME NEW c
  PROVE  /\ \A r \in Roads(c) : \/ r = <<"draft", "draft">> /\ campaign = "draft"
                                \/ \E j \in jobs : Carries(c, j) /\ r = <<"queue", j>>
                                \/ \E j \in lost : Carries(c, j) /\ r = <<"lost", j>>
                                \/ \E w \in Workers : Carrying(c, w) /\ r = <<"worker", w>>
         /\ campaign = "draft" => <<"draft", "draft">> \in Roads(c)
         /\ \A j \in jobs : Carries(c, j) => <<"queue", j>> \in Roads(c)
         /\ \A j \in lost : Carries(c, j) => <<"lost", j>> \in Roads(c)
         /\ \A w \in Workers : Carrying(c, w) => <<"worker", w>> \in Roads(c)
<1>1. \A r \in Roads(c) : \/ r = <<"draft", "draft">> /\ campaign = "draft"
                          \/ \E j \in jobs : Carries(c, j) /\ r = <<"queue", j>>
                          \/ \E j \in lost : Carries(c, j) /\ r = <<"lost", j>>
                          \/ \E w \in Workers : Carrying(c, w) /\ r = <<"worker", w>>
  BY DEF Roads
<1>2. campaign = "draft" => <<"draft", "draft">> \in Roads(c) BY DEF Roads
<1>3. \A j \in jobs : Carries(c, j) => <<"queue", j>> \in Roads(c) BY DEF Roads
<1>4. \A j \in lost : Carries(c, j) => <<"lost", j>> \in Roads(c) BY DEF Roads
<1>5. \A w \in Workers : Carrying(c, w) => <<"worker", w>> \in Roads(c) BY DEF Roads
<1> QED BY <1>1, <1>2, <1>3, <1>4, <1>5

LEMMA RoadKindsNext ==
  ASSUME NEW c
  PROVE  \A r \in Roads(c)' : \/ r = <<"draft", "draft">> /\ campaign' = "draft"
                              \/ \E j \in jobs' : Carries(c, j)' /\ r = <<"queue", j>>
                              \/ \E j \in lost' : Carries(c, j)' /\ r = <<"lost", j>>
                              \/ \E w \in Workers : Carrying(c, w)' /\ r = <<"worker", w>>
BY DEF Roads

LEMMA OpenKinds ==
  /\ IsOpen(<<"draft", "draft">>)
  /\ \A j : IsOpen(<<"queue", j>>) <=> ~ Spent(j)
  /\ \A j : IsOpen(<<"lost", j>>) <=> ~ Spent(j)
  /\ \A w : IsOpen(<<"worker", w>>) <=> ~ Called(w) /\ ~ Spent(worker[w].job)
BY DEF IsOpen

LEMMA OpenKindsNext ==
  /\ \A j : IsOpen(<<"queue", j>>)' <=> ~ Spent(j)'
  /\ \A j : IsOpen(<<"lost", j>>)' <=> ~ Spent(j)'
  /\ \A w : IsOpen(<<"worker", w>>)' <=> ~ Called(w)' /\ ~ Spent(worker[w].job)'
BY DEF IsOpen

(***************************************************************************)
(* What each step does with the roads to one customer                      *)
(***************************************************************************)

(* What a step of a handler of slot w leaves alone.                         *)
Aside(w) ==
    /\ \A v \in Workers \ {w} : worker'[v] = worker[v]
    /\ keys \subseteq keys' /\ channel' = channel
    /\ campaign' \in {"draft", "scheduled"} => campaign' = campaign

(* The other roads stay, or are closed.                                     *)
LEMMA AsideKeeps ==
  ASSUME NEW c, NEW w \in Workers, Aside(w)
  PROVE  /\ \A j : Carries(c, j)' => Carries(c, j)
         /\ \A j : Spent(j) => Spent(j)'
         /\ \A v \in Workers \ {w} : /\ Carrying(c, v)' => Carrying(c, v)
                                     /\ IsOpen(<<"worker", v>>)' => IsOpen(<<"worker", v>>)
<1>1. \A j : Carries(c, j)' => Carries(c, j) BY DEF Aside, Carries
<1>2. \A j : Spent(j) => Spent(j)' BY DEF Aside, Spent
<1>3. ASSUME NEW v \in Workers \ {w} PROVE Carrying(c, v)' => Carrying(c, v)
  <2>1. worker'[v] = worker[v] BY DEF Aside
  <2> QED BY <2>1 DEF Aside, Carrying
<1>4. ASSUME NEW v \in Workers \ {w}
      PROVE  IsOpen(<<"worker", v>>)' => IsOpen(<<"worker", v>>)
  <2>1. worker'[v] = worker[v] BY DEF Aside
  <2>2. Called(v) => Called(v)' BY <2>1 DEF Called
  <2>3. Spent(worker[v].job) => Spent(worker[v].job)' BY <2>1 DEF Aside, Spent
  <2> QED BY <2>2, <2>3, OpenKinds, OpenKindsNext
<1> QED BY <1>1, <1>2, <1>3, <1>4

(* The slot goes on with its job, or drops it.                              *)
LEMMA SlotGoesOn ==
  ASSUME NEW c, NEW w \in Workers, Aside(w), lost' = lost,
         \A j \in jobs' : j \in jobs \/ ~ Carries(c, j)',
         Carrying(c, w)' => Carrying(c, w),
         Carrying(c, w)' /\ IsOpen(<<"worker", w>>)' => IsOpen(<<"worker", w>>)
  PROVE  Stays(c) /\ Follows(c)
<1>1. ASSUME NEW r \in Roads(c)' PROVE r \in Roads(c) /\ (IsOpen(r)' => IsOpen(r))
  <2>1. CASE r = <<"draft", "draft">> /\ campaign' = "draft"
    BY <2>1, RoadKinds, OpenKinds DEF Aside
  <2>2. CASE \E j \in jobs' : Carries(c, j)' /\ r = <<"queue", j>>
    BY <2>2, RoadKinds, OpenKinds, OpenKindsNext, AsideKeeps
  <2>3. CASE \E j \in lost' : Carries(c, j)' /\ r = <<"lost", j>>
    BY <2>3, RoadKinds, OpenKinds, OpenKindsNext, AsideKeeps
  <2>4. CASE \E v \in Workers : Carrying(c, v)' /\ r = <<"worker", v>>
    BY <2>4, RoadKinds, AsideKeeps
  <2> QED BY <2>1, <2>2, <2>3, <2>4, RoadKindsNext
<1> QED BY <1>1, SameFollows DEF Stays

(* The slot hands its road on to a new job k, waiting or lost.              *)
LEMMA SlotHandsOn ==
  ASSUME NEW c, NEW w \in Workers, Aside(w), NEW k,
         \/ /\ lost' = lost
            /\ \A j \in jobs' : j \in jobs \/ j = k \/ ~ Carries(c, j)'
         \/ jobs' = jobs /\ lost' \subseteq lost \cup {k},
         ~ Carrying(c, w)',
         Carrying(c, w),
         \/ Spent(k)
         \/ ~ Called(w) /\ ~ Spent(worker[w].job)
  PROVE  Follows(c)
<1> DEFINE x == <<"worker", w>>
<1>1. x \in Roads(c) /\ (~ Spent(k)' => IsOpen(x))
  BY RoadKinds, OpenKinds, AsideKeeps
<1>2. \A r \in Roads(c)' : r # x
  BY RoadKindsNext
<1>3. ASSUME lost' = lost, \A j \in jobs' : j \in jobs \/ j = k \/ ~ Carries(c, j)'
      PROVE  Follows(c)
  <2> DEFINE y == <<"queue", k>>
  <2>1. ASSUME NEW r \in Roads(c)'
        PROVE  \/ r = y /\ x \in Roads(c) /\ (IsOpen(y)' => IsOpen(x))
               \/ r \in Roads(c) /\ r # x /\ (IsOpen(r)' => IsOpen(r))
    <3>1. CASE r = <<"draft", "draft">> /\ campaign' = "draft"
      BY <3>1, <1>2, RoadKinds, OpenKinds DEF Aside
    <3>2. CASE \E j \in jobs' : Carries(c, j)' /\ r = <<"queue", j>>
      BY <1>1, <1>2, <1>3, <3>2, RoadKinds, OpenKinds, OpenKindsNext, AsideKeeps
    <3>3. CASE \E j \in lost' : Carries(c, j)' /\ r = <<"lost", j>>
      BY <1>2, <1>3, <3>3, RoadKinds, OpenKinds, OpenKindsNext, AsideKeeps
    <3>4. CASE \E v \in Workers : Carrying(c, v)' /\ r = <<"worker", v>>
      BY <1>2, <3>4, RoadKinds, AsideKeeps
    <3> QED BY <3>1, <3>2, <3>3, <3>4, RoadKindsNext
  <2> HIDE DEF x, y
  <2> QED BY <2>1, MoveFollows
<1>4. ASSUME jobs' = jobs, lost' \subseteq lost \cup {k}
      PROVE  Follows(c)
  <2> DEFINE y == <<"lost", k>>
  <2>1. ASSUME NEW r \in Roads(c)'
        PROVE  \/ r = y /\ x \in Roads(c) /\ (IsOpen(y)' => IsOpen(x))
               \/ r \in Roads(c) /\ r # x /\ (IsOpen(r)' => IsOpen(r))
    <3>1. CASE r = <<"draft", "draft">> /\ campaign' = "draft"
      BY <3>1, <1>2, RoadKinds, OpenKinds DEF Aside
    <3>2. CASE \E j \in jobs' : Carries(c, j)' /\ r = <<"queue", j>>
      BY <1>2, <1>4, <3>2, RoadKinds, OpenKinds, OpenKindsNext, AsideKeeps
    <3>3. CASE \E j \in lost' : Carries(c, j)' /\ r = <<"lost", j>>
      BY <1>1, <1>2, <1>4, <3>3, RoadKinds, OpenKinds, OpenKindsNext, AsideKeeps
    <3>4. CASE \E v \in Workers : Carrying(c, v)' /\ r = <<"worker", v>>
      BY <1>2, <3>4, RoadKinds, AsideKeeps
    <3> QED BY <3>1, <3>2, <3>3, <3>4, RoadKindsNext
  <2> HIDE DEF x, y
  <2> QED BY <2>1, MoveFollows
<1> QED BY <1>3, <1>4

(* The job a page makes for a customer.                                     *)
JobOnPage(page, c) ==
    IF Prepared(c) = "defer" THEN Job("deliver", {c}, <<"at">>, TRUE)
    ELSE IF \E g \in Multicasts(page) : c \in g /\ Cardinality(g) > 1
         THEN Multicast(CHOOSE g \in Multicasts(page) : c \in g /\ Cardinality(g) > 1, drawn + 1)
         ELSE Deliver(c)

(* Customers with one text share one multicast.                             *)
LEMMA OneGroupEach ==
  ASSUME NEW page, NEW c, NEW g \in Multicasts(page), NEW h \in Multicasts(page), c \in g, c \in h
  PROVE  /\ g = h /\ g \subseteq page /\ Prepared(c) = "send"
<1> DEFINE sent == {d \in page : Prepared(d) = "send" /\ channel = "line"}
           class(d) == {e \in sent : Texts[e] = Texts[d]}
<1>1. PICK a \in sent : g = class(a) BY DEF Multicasts
<1>2. PICK b \in sent : h = class(b) BY DEF Multicasts
<1>3. c \in sent /\ Texts[c] = Texts[a] /\ Texts[c] = Texts[b] BY <1>1, <1>2
<1>4. g = h BY <1>1, <1>2, <1>3
<1>5. g \subseteq page BY <1>1
<1>6. Prepared(c) = "send" BY <1>3
<1> QED BY <1>4, <1>5, <1>6

(* Of one page, one job at most is about a customer, who is on it.          *)
LEMMA OneJobEach ==
  ASSUME NEW page, NEW c, NEW j \in PageJobs(page),
         \/ j.kind = "run" \/ j.kind = "dispatch"
         \/ j.kind \in Deliveries /\ c \in j.of
  PROVE  c \in page /\ j = JobOnPage(page, c)
<1> DEFINE groups == Multicasts(page)
<1>1. \/ j = Stats
      \/ \E d \in page : Prepared(d) = "defer" /\ j = Job("deliver", {d}, <<"at">>, TRUE)
      \/ \E d \in page : Prepared(d) \in {"send", "fail"} /\ d \notin UNION groups /\ j = Deliver(d)
      \/ \E d \in page : {d} \in groups /\ j = Deliver(d)
      \/ \E g \in groups : Cardinality(g) > 1 /\ j = Multicast(g, drawn + 1)
  BY DEF PageJobs
<1> HIDE DEF groups
<1>2. j # Stats BY StatsTyped DEF Deliveries
<1>3. ASSUME NEW d \in page, Prepared(d) = "defer", j = Job("deliver", {d}, <<"at">>, TRUE)
      PROVE  c \in page /\ j = JobOnPage(page, c)
  <2>1. c = d BY <1>3 DEF Job, Deliveries
  <2> QED BY <1>3, <2>1 DEF JobOnPage
<1>4. ASSUME NEW d \in page, Prepared(d) \in {"send", "fail"}, d \notin UNION groups, j = Deliver(d)
      PROVE  c \in page /\ j = JobOnPage(page, c)
  <2>1. c = d BY <1>4 DEF Job, Deliver, Deliveries
  <2>2. ~ \E g \in groups : c \in g BY <1>4, <2>1
  <2> QED BY <1>4, <2>1, <2>2 DEF JobOnPage, groups
<1>5. ASSUME NEW d \in page, {d} \in groups, j = Deliver(d)
      PROVE  c \in page /\ j = JobOnPage(page, c)
  <2>1. c = d BY <1>5 DEF Job, Deliver, Deliveries
  <2>2. \A g \in groups : c \in g => g = {d} BY <1>5, <2>1, OneGroupEach DEF groups
  <2>3. Prepared(c) = "send" BY <1>5, <2>1, OneGroupEach DEF groups
  <2>4. ~ \E g \in groups : c \in g /\ Cardinality(g) > 1
    <3> SUFFICES ASSUME NEW g \in groups, c \in g, Cardinality(g) > 1 PROVE FALSE OBVIOUS
    <3>1. g = {d} BY <2>2
    <3>2. Cardinality(g) = 1 BY <3>1, FS_Singleton
    <3> QED BY <3>2
  <2> QED BY <1>5, <2>1, <2>3, <2>4 DEF JobOnPage, groups
<1>6. ASSUME NEW g \in groups, Cardinality(g) > 1, j = Multicast(g, drawn + 1)
      PROVE  c \in page /\ j = JobOnPage(page, c)
  <2>1. c \in g BY <1>6, MulticastFields
  <2>2. g \subseteq page /\ Prepared(c) = "send" BY <2>1, OneGroupEach DEF groups
  <2>3. \A h \in groups : c \in h => h = g BY <2>1, OneGroupEach DEF groups
  <2>4. (CHOOSE h \in groups : c \in h /\ Cardinality(h) > 1) = g BY <1>6, <2>1, <2>3
  <2>5. JobOnPage(page, c) = j
    <3>1. \E h \in groups : c \in h /\ Cardinality(h) > 1 BY <1>6, <2>1
    <3> QED BY <1>6, <2>2, <2>4, <3>1 DEF JobOnPage, groups
  <2> QED BY <2>1, <2>2, <2>5
<1> QED BY <1>1, <1>2, <1>3, <1>4, <1>5, <1>6

(***************************************************************************)
(* The invariant of the deliveries                                         *)
(***************************************************************************)

(* In draft there is nothing yet.                                           *)
DraftEmpty == campaign = "draft" => jobs = {} /\ lost = {} /\ \A w \in Workers : ~ Busy(w)

(* A call is about members of its job, which are 'sending' until it ends.   *)
Holding(w) == worker[w].pc \in {"call", "ok", "error", "rejected", "retry"}

HoldsFit(w) ==
    Holding(w) =>
        /\ worker[w].job.kind \in Deliveries /\ worker[w].batch \subseteq worker[w].job.of
        /\ crashes = 0 => \A c \in worker[w].batch : message[c] = "sending"

(* A delivery is about one customer, and its retry key is its message's.    *)
ForOne(j) == j.kind = "deliver" => j.key = 0 /\ \E c \in Customers : j.of = {c}

DeliverOne == /\ \A j \in jobs \cup lost : ForOne(j)
              /\ \A w \in Workers : ForOne(worker[w].job)

DInv == /\ CInv /\ DraftEmpty /\ DeliverOne
        /\ \A w \in Workers : HoldsFit(w)
        /\ \A c \in Customers : Bounded(c) /\ Alone(c)

LEMMA DInvInit == ASSUME CampaignAssumption, Init PROVE DInv
<1>1. CInv BY InitKeeps
<1>2. DraftEmpty BY DEF Init, DraftEmpty, Busy, Idle
<1>3. DeliverOne BY StatsTyped DEF Init, DeliverOne, ForOne, Idle
<1>4. \A w \in Workers : HoldsFit(w) BY DEF Init, HoldsFit, Holding, Idle
<1>5. ASSUME NEW c \in Customers PROVE Bounded(c) /\ Alone(c)
  <2>1. \A w \in Workers : ~ Carrying(c, w) BY StatsTyped DEF Init, Carrying, Idle, Deliveries
  <2>2. Roads(c) = {<<"draft", "draft">>} BY <2>1 DEF Init, Roads
  <2>3. IsFiniteSet(Roads(c)) /\ Cardinality(Roads(c)) = 1
    <3>1. IsFiniteSet({<<"draft", "draft">>}) /\ Cardinality({<<"draft", "draft">>}) = 1
      BY FS_Singleton
    <3> QED BY <2>2, <3>1
  <2>4. Cardinality(Open(c)) <= 1 /\ Cardinality(Open(c)) \in Nat
    <3>1. Open(c) \in SUBSET Roads(c) BY DEF Open
    <3>2. IsFiniteSet(Open(c)) /\ Cardinality(Open(c)) <= Cardinality(Roads(c)) BY <2>3, <3>1, FS_Subset
    <3> QED BY <2>3, <3>2, FS_CardinalityType
  <2>5. got[c] = 0 /\ Allowance \in Nat /\ Allowance >= 1 BY DEF Init, Allowance
  <2> QED BY <2>2, <2>3, <2>4, <2>5 DEF Bounded, Alone
<1> QED BY <1>1, <1>2, <1>3, <1>4, <1>5 DEF DInv

(* The slots and jobs a handler's step leaves behind: Aside, and the shape  *)
(* of what it does to its own slot.                                         *)
LEMMA SlotStep ==
  ASSUME Fits, NEW w \in Workers
  PROVE  /\ Return(w) => /\ worker'[w] = Idle
                         /\ \A v \in Workers \ {w} : worker'[v] = worker[v]
         /\ \A pc, at, batch : Step(w, pc, at, batch) =>
              /\ worker'[w].pc = pc /\ worker'[w].job = worker[w].job
              /\ worker'[w].at = at /\ worker'[w].batch = batch
              /\ \A v \in Workers \ {w} : worker'[v] = worker[v]
<1>1. worker \in [Workers -> SlotType] BY DEF Fits, SlotsFit
<1> QED BY <1>1 DEF Return, Step

LEMMA IdleFacts == /\ Idle.pc = "idle" /\ Idle.job = Stats /\ Idle.job.kind = "stats"
                   /\ "stats" \notin Deliveries
BY StatsTyped DEF Idle, Deliveries

(* A slot that has returned is no road.                                     *)
LEMMA ReturnedCarriesNothing ==
  ASSUME NEW w \in Workers, worker'[w] = Idle, NEW c PROVE ~ Carrying(c, w)'
BY IdleFacts DEF Carrying

(* Steps of campaign.run.                                                   *)
LEMMA RunFollows ==
  ASSUME CampaignAssumption, DInv, NEW w \in Workers, NEW c \in Customers,
         StartCampaign(w) \/ SnapshotRead(w) \/ SnapshotWrite(w) \/ EndSnapshot(w)
  PROVE  Follows(c) /\ UNCHANGED <<got, crashes, losses, channel>>
<1> USE DEF world, provider
<1>0. Fits /\ worker[w].job.kind = "run" /\ "run" \notin Deliveries /\ Busy(w)
  BY DEF DInv, CInv, StartCampaign, SnapshotRead, SnapshotWrite, EndSnapshot, At, Busy, Deliveries
<1>1. UNCHANGED <<got, crashes, losses, channel, keys, lost>>
  BY DEF StartCampaign, SnapshotRead, SnapshotWrite, EndSnapshot
<1>2. CASE StartCampaign(w)
  <2>1. CASE campaign = "scheduled"
    <3>1. campaign' = "running" /\ Step(w, "read", 0, {}) /\ jobs' = jobs /\ worker[w].pc = "load"
      BY <1>2, <2>1 DEF StartCampaign, At
    <3>2. Aside(w) BY <1>0, <1>1, <3>1, SlotStep DEF Aside
    <3>3. Carrying(c, w) BY <1>0, <2>1, <3>1 DEF Carrying
    <3>4. IsOpen(<<"worker", w>>) BY <1>0, OpenKinds DEF Called, Spent
    <3> QED BY <1>1, <3>1, <3>2, <3>3, <3>4, SlotGoesOn
  <2>2. CASE campaign # "scheduled"
    <3>1. campaign' = campaign /\ Return(w) /\ jobs' = jobs
      BY <1>2, <2>2 DEF StartCampaign, At
    <3>2. worker'[w] = Idle /\ Aside(w) BY <1>0, <1>1, <3>1, SlotStep DEF Aside
    <3> QED BY <1>1, <3>1, <3>2, ReturnedCarriesNothing, SlotGoesOn
  <2> QED BY <2>1, <2>2
<1>3. CASE SnapshotRead(w) \/ SnapshotWrite(w)
  <2>1. campaign' = campaign /\ jobs' = jobs /\ worker[w].pc \in {"read", "write"}
        /\ \E pc, at, batch : Step(w, pc, at, batch)
    BY <1>3 DEF SnapshotRead, SnapshotWrite, At, Further
  <2>2. Aside(w) BY <1>0, <1>1, <2>1, SlotStep DEF Aside
  <2>3. Carrying(c, w) BY <1>0, <2>1 DEF Carrying
  <2>4. IsOpen(<<"worker", w>>) BY <1>0, OpenKinds DEF Called, Spent
  <2> QED BY <1>1, <2>1, <2>2, <2>3, <2>4, SlotGoesOn
<1>4. CASE EndSnapshot(w)
  <2> DEFINE k == Job("dispatch", {}, <<>>, FALSE)
  <2>1. campaign' = campaign /\ Return(w) /\ jobs' = Enqueued(jobs, {k}) /\ worker[w].pc = "end"
    BY <1>4 DEF EndSnapshot, At
  <2>2. worker'[w] = Idle /\ Aside(w) BY <1>0, <1>1, <2>1, SlotStep DEF Aside
  <2>3. \A j \in jobs' : j \in jobs \/ j = k BY <2>1 DEF Enqueued
  <2>4. Carrying(c, w) BY <1>0, <2>1 DEF Carrying
  <2>5. ~ Called(w) /\ ~ Spent(worker[w].job) BY <1>0 DEF Called, Spent
  <2>6. ~ Carrying(c, w)' BY <2>2, ReturnedCarriesNothing
  <2> HIDE DEF k
  <2> QED BY <1>1, <2>2, <2>3, <2>4, <2>5, <2>6, SlotHandsOn
<1> QED BY <1>1, <1>2, <1>3, <1>4

(* Steps of campaign.dispatch.                                              *)
LEMMA DispatchFollows ==
  ASSUME CampaignAssumption, DInv, NEW w \in Workers, NEW c \in Customers,
         DispatchPage(w) \/ EndDispatch(w)
  PROVE  Follows(c) /\ UNCHANGED <<got, crashes, losses, channel>>
<1> USE DEF world, provider
<1>0. Fits /\ worker[w].job.kind = "dispatch" /\ "dispatch" \notin Deliveries
      /\ worker[w].at \in Nat /\ c \in Nat /\ Customers \subseteq Nat
  BY DEF DInv, CInv, Fits, SlotsFit, SlotType, DispatchPage, EndDispatch, At, Deliveries, CampaignAssumption
<1>1. UNCHANGED <<got, crashes, losses, channel, keys, lost, campaign>>
  BY DEF DispatchPage, EndDispatch
<1>2. ~ Called(w) /\ ~ Spent(worker[w].job) /\ IsOpen(<<"worker", w>>)
  BY <1>0, OpenKinds DEF Called, Spent
<1>3. CASE EndDispatch(w)
  <2>1. Return(w) /\ jobs' = Enqueued(jobs, {Stats}) BY <1>3 DEF EndDispatch
  <2>2. worker'[w] = Idle /\ Aside(w) BY <1>0, <1>1, <2>1, SlotStep DEF Aside
  <2>3. \A j \in jobs' : j \in jobs \/ ~ Carries(c, j)'
    BY <2>1, StatsTyped, IdleFacts DEF Enqueued, Carries
  <2>4. ~ Carrying(c, w)' BY <2>2, ReturnedCarriesNothing
  <2> QED BY <1>1, <2>2, <2>3, <2>4, SlotGoesOn
<1>4. CASE DispatchPage(w) /\ campaign # "running"
  <2>1. Step(w, "end", 0, {}) /\ jobs' = jobs BY <1>4 DEF DispatchPage
  <2>2. Aside(w) /\ worker'[w].pc = "end" /\ worker'[w].job = worker[w].job
    BY <1>0, <1>1, <2>1, SlotStep DEF Aside
  <2>3. ~ Carrying(c, w)' BY <1>0, <2>2 DEF Carrying
  <2> QED BY <1>1, <2>1, <2>2, <2>3, SlotGoesOn
<1>5. CASE DispatchPage(w) /\ campaign = "running"
  <2>1. PICK page \in SUBSET Customers :
          /\ IsPage(page, QueuedMessages, worker[w].at, Page)
          /\ jobs' = Enqueued(jobs, PageJobs(page))
          /\ \/ Step(w, "end", 0, {})
             \/ Further(w, "load", page, Page)
    BY <1>5 DEF DispatchPage
  <2>2. \A d \in page : d > worker[w].at BY <2>1 DEF IsPage
  <2>3. worker[w].pc = "load" BY <1>5 DEF DispatchPage, At
  <2>4. /\ Aside(w) /\ worker'[w].job = worker[w].job
        /\ worker'[w].pc = "load" => /\ worker'[w].at \in page
                                     /\ \A d \in page : d <= worker'[w].at
    <3>1. CASE Step(w, "end", 0, {}) BY <1>0, <1>1, <3>1, SlotStep DEF Aside
    <3>2. CASE Further(w, "load", page, Page)
      <4>1. PICK last \in page : (\A d \in page : d <= last) /\ Step(w, "load", last, {})
        BY <3>2 DEF Further
      <4> QED BY <1>0, <1>1, <4>1, SlotStep DEF Aside
    <3> QED BY <2>1, <3>1, <3>2
  <2>5. \A j \in jobs' : \/ j \in jobs
                         \/ j \in PageJobs(page)
    BY <2>1 DEF Enqueued
  <2>6. \A j \in jobs' : j \in jobs \/ (j = JobOnPage(page, c) /\ c \in page) \/ ~ Carries(c, j)'
    <3> SUFFICES ASSUME NEW j \in jobs', j \notin jobs, Carries(c, j)'
                 PROVE  j = JobOnPage(page, c) /\ c \in page
      OBVIOUS
    <3>1. j \in PageJobs(page) BY <2>5
    <3>2. \/ j.kind = "run" \/ j.kind = "dispatch"
          \/ j.kind \in Deliveries /\ c \in j.of
      BY DEF Carries
    <3> QED BY <3>1, <3>2, OneJobEach
  <2>7. CASE c \in page
    <3>1. Carrying(c, w) BY <1>0, <2>2, <2>3, <2>7 DEF Carrying
    <3>2. worker'[w].pc = "load" => ~ (worker'[w].at < c)
      <4> SUFFICES ASSUME worker'[w].pc = "load" PROVE ~ (worker'[w].at < c) OBVIOUS
      <4>1. worker'[w].at \in Nat /\ c <= worker'[w].at BY <1>0, <2>4, <2>7
      <4> QED BY <1>0, <4>1
    <3>3. ~ Carrying(c, w)' BY <1>0, <2>4, <3>2 DEF Carrying
    <3> QED BY <1>1, <1>2, <2>4, <2>6, <3>1, <3>3, SlotHandsOn
  <2>8. CASE c \notin page
    <3>1. Carrying(c, w)' => Carrying(c, w)
      <4>1. worker'[w].pc = "load" /\ worker'[w].at < c => worker[w].at < c
        <5> SUFFICES ASSUME worker'[w].pc = "load", worker'[w].at < c PROVE worker[w].at < c OBVIOUS
        <5>1. worker'[w].at \in Nat /\ worker[w].at < worker'[w].at BY <1>0, <2>2, <2>4
        <5> QED BY <1>0, <5>1
      <4> QED BY <1>0, <2>3, <2>4, <4>1 DEF Carrying
    <3> QED BY <1>1, <1>2, <2>4, <2>6, <2>8, <3>1, SlotGoesOn
  <2> QED BY <1>1, <2>7, <2>8
<1> QED BY <1>1, <1>3, <1>4, <1>5

(* A step of a delivery or multicast: on to its next stage, or back.        *)
LEMMA DeliveryFollows ==
  ASSUME DInv, NEW w \in Workers, NEW c \in Customers,
         worker[w].job.kind \in Deliveries, worker[w].pc # "idle",
         \/ Return(w)
         \/ worker[w].pc \notin {"ok", "rejected"} /\ \E pc, at, batch : Step(w, pc, at, batch),
         lost' = lost, \A j \in jobs' : j \in jobs \/ j = Stats,
         UNCHANGED <<channel, campaign>>, keys \subseteq keys'
  PROVE  Stays(c) /\ Follows(c)
<1>1. Aside(w)
  <2>1. \A v \in Workers \ {w} : worker'[v] = worker[v] BY SlotStep DEF DInv, CInv
  <2> QED BY <2>1 DEF Aside
<1>2. \A j \in jobs' : j \in jobs \/ ~ Carries(c, j)' BY StatsTyped, IdleFacts DEF Carries
<1>3. CASE Return(w)
  <2>1. ~ Carrying(c, w)' BY <1>3, SlotStep, ReturnedCarriesNothing DEF DInv, CInv
  <2> QED BY <1>1, <1>2, <2>1, SlotGoesOn
<1>4. CASE worker[w].pc \notin {"ok", "rejected"} /\ \E pc, at, batch : Step(w, pc, at, batch)
  <2>1. worker'[w].job = worker[w].job BY <1>4, SlotStep DEF DInv, CInv
  <2>2. Carrying(c, w)' => Carrying(c, w)
    BY <2>1 DEF Carrying, Deliveries
  <2>3. IsOpen(<<"worker", w>>)' => IsOpen(<<"worker", w>>)
    <3>1. ~ Called(w) BY <1>4 DEF Called
    <3>2. Spent(worker[w].job) => Spent(worker[w].job)' BY <2>1 DEF Spent
    <3> QED BY <3>1, <3>2, OpenKinds, OpenKindsNext
  <2> QED BY <1>1, <1>2, <2>2, <2>3, SlotGoesOn
<1> QED BY <1>3, <1>4

LEMMA LoadFollows ==
  ASSUME DInv, NEW w \in Workers, NEW c \in Customers, LoadMessage(w) \/ LoadBatch(w)
  PROVE  Follows(c) /\ UNCHANGED <<got, crashes, losses, channel>>
<1> USE DEF world, provider
<1>0. /\ worker[w].pc = "load" /\ worker[w].job.kind \in Deliveries
      /\ UNCHANGED <<got, crashes, losses, channel, keys, lost, campaign>>
  BY DEF LoadMessage, LoadBatch, At, Deliveries
<1>1. CASE LoadBatch(w)
  <2>1. Return(w) \/ \E pc, at, batch : Step(w, pc, at, batch) BY <1>1 DEF LoadBatch
  <2>2. \A j \in jobs' : j \in jobs \/ j = Stats BY <1>1 DEF LoadBatch, Enqueued
  <2> QED BY <1>0, <2>1, <2>2, DeliveryFollows
<1>2. CASE LoadMessage(w)
  <2>1. PICK d \in worker[w].job.of :
          \/ /\ Return(w) \/ \E pc, at, batch : Step(w, pc, at, batch)
             /\ \A j \in jobs' : j \in jobs \/ j = Stats
          \/ /\ Return(w)
             /\ jobs' = Enqueued(jobs, {Job("deliver", {d}, Append(worker[w].job.tag, "again"), night)})
    BY <1>2 DEF LoadMessage, Enqueued
  <2>2. CASE /\ Return(w) \/ \E pc, at, batch : Step(w, pc, at, batch)
             /\ \A j \in jobs' : j \in jobs \/ j = Stats
    BY <1>0, <2>2, DeliveryFollows
  <2>3. CASE /\ Return(w)
             /\ jobs' = Enqueued(jobs, {Job("deliver", {d}, Append(worker[w].job.tag, "again"), night)})
    <3> DEFINE k == Job("deliver", {d}, Append(worker[w].job.tag, "again"), night)
    <3>1. k.kind = "deliver" /\ k.of = {d} /\ k.key = 0 /\ \A j \in jobs' : j \in jobs \/ j = k
      BY <2>3 DEF Job, Enqueued
    <3>2. worker[w].job.kind = "deliver" /\ worker[w].job.of = {d} /\ worker[w].job.key = 0
      BY <1>2 DEF LoadMessage, At, DInv, DeliverOne, ForOne
    <3>3. worker'[w] = Idle /\ Aside(w)
      BY <1>0, <2>3, SlotStep DEF Aside, DInv, CInv
    <3>4. ~ Carrying(c, w)' BY <3>3, ReturnedCarriesNothing
    <3>5. Spent(worker[w].job) => Spent(k) BY <3>1, <3>2 DEF Spent
    <3> HIDE DEF k
    <3>6. CASE c = d
      <4>1. Carrying(c, w) BY <1>0, <3>2, <3>6 DEF Carrying
      <4>2. ~ Called(w) BY <1>0 DEF Called
      <4> QED BY <1>0, <3>1, <3>3, <3>4, <3>5, <4>1, <4>2, SlotHandsOn
    <3>7. CASE c # d
      <4>1. \A j \in jobs' : j \in jobs \/ ~ Carries(c, j)' BY <3>1, <3>7 DEF Carries
      <4> QED BY <1>0, <3>3, <3>4, <4>1, SlotGoesOn
    <3> QED BY <1>0, <3>6, <3>7
  <2> QED BY <1>0, <2>1, <2>2, <2>3
<1> QED BY <1>1, <1>2

LEMMA EndFollows ==
  ASSUME DInv, NEW w \in Workers, NEW c \in Customers,
         MarkSent(w) \/ AwaitRetry(w) \/ MarkFailed(w)
  PROVE  Follows(c) /\ UNCHANGED <<got, crashes, losses, channel>>
<1> USE DEF world, provider
<1>0. /\ worker[w].pc \in {"ok", "error", "rejected"} /\ worker[w].job.kind \in Deliveries
      /\ UNCHANGED <<got, crashes, losses, channel, keys, lost, campaign>>
  BY DEF MarkSent, AwaitRetry, MarkFailed, Outcome, Deliveries
<1>1. \/ Return(w)
      \/ worker[w].pc \notin {"ok", "rejected"} /\ \E pc, at, batch : Step(w, pc, at, batch)
  BY DEF MarkSent, AwaitRetry, MarkFailed, Outcome
<1>2. \A j \in jobs' : j \in jobs \/ j = Stats BY DEF MarkSent, AwaitRetry, MarkFailed, Enqueued
<1> QED BY <1>0, <1>1, <1>2, DeliveryFollows

LEMMA RefusedFollows ==
  ASSUME DInv, NEW w \in Workers, NEW c \in Customers, NEW how, Refused(w, how)
  PROVE  Follows(c) /\ UNCHANGED <<got, crashes, losses, channel>>
<1> USE DEF world, provider
<1>0. /\ worker[w].pc = "call" /\ UNCHANGED <<got, crashes, losses, channel, keys, lost, campaign, jobs>>
      /\ \E pc, at, batch : Step(w, pc, at, batch)
  BY DEF Refused, Calls
<1>1. worker[w].job.kind \in Deliveries BY <1>0 DEF DInv, HoldsFit, Holding
<1> QED BY <1>0, <1>1, DeliveryFollows

(* A message arrives: its road is used up, or a lost answer allows for it.  *)
LEMMA ArrivalKeeps ==
  ASSUME Fits, Fits', NEW c \in Customers, Stays(c), Bounded(c), Alone(c),
         got'[c] = got[c] + 1, crashes' = crashes, losses <= losses', channel' = channel,
         \/ \E x \in Open(c) : x \notin Open(c)'
         \/ channel # "line" /\ losses' = losses + 1
  PROVE  Bounded(c)' /\ Alone(c)'
<1>1. Open(c)' \subseteq Open(c) /\ Roads(c)' \subseteq Roads(c) BY DEF Stays, Open
<1>2. Alone(c)' BY <1>1 DEF Alone
<1>3. IsFiniteSet(Roads(c)') BY <1>1, FS_Subset DEF Bounded
<1>4. IsFiniteSet(Open(c)) BY FS_Subset DEF Bounded, Open
<1>5. IsFiniteSet(Open(c)') /\ Cardinality(Open(c)') <= Cardinality(Open(c))
  BY <1>1, <1>4, FS_Subset
<1>6. Cardinality(Open(c)) \in Nat /\ Cardinality(Open(c)') \in Nat
  BY <1>4, <1>5, FS_CardinalityType
<1>7. got[c] \in Nat /\ crashes \in Nat /\ losses \in Nat /\ losses' \in Nat
  BY DEF Fits, RestTyped
<1>8. Allowance \in Nat /\ Allowance' \in Nat /\ Allowance <= Allowance'
  BY <1>7, AllowanceGrows
<1>9. Cardinality(Open(c)) + got[c] <= Allowance BY DEF Bounded
<1>10. Cardinality(Open(c)') + got'[c] <= Allowance'
  <2>1. CASE \E x \in Open(c) : x \notin Open(c)'
    <3>1. PICK x \in Open(c) : x \notin Open(c)' BY <2>1
    <3>2. Open(c)' \subseteq Open(c) \ {x} BY <1>1, <3>1
    <3>3. Cardinality(Open(c)') + 1 <= Cardinality(Open(c)) BY <1>4, <3>2, FewerCount
    <3> QED BY <1>6, <1>7, <1>8, <1>9, <3>3
  <2>2. CASE channel # "line" /\ losses' = losses + 1
    <3>1. Allowance' = Allowance + 1 BY <1>7, <2>2 DEF Allowance
    <3> QED BY <1>5, <1>6, <1>7, <1>8, <1>9, <3>1
  <2> QED BY <2>1, <2>2
<1> QED BY <1>2, <1>3, <1>10 DEF Bounded

LEMMA CallKeeps ==
  ASSUME DInv, Fits', NEW w \in Workers, NEW c \in Customers, Accepted(w) \/ AnswerLost(w)
  PROVE  Bounded(c)' /\ Alone(c)'
<1> USE DEF world
<1>0. /\ worker[w].pc = "call" /\ UNCHANGED <<crashes, channel, lost, campaign, jobs>> /\ Arrives(w)
      /\ \/ Step(w, "ok", 0, worker[w].batch) /\ losses' = losses
         \/ Step(w, "error", 0, worker[w].batch) /\ losses' = losses + 1
  BY DEF Accepted, AnswerLost, Calls
<1>1. worker[w].job.kind \in Deliveries /\ worker[w].batch \subseteq worker[w].job.of
  BY <1>0 DEF DInv, HoldsFit, Holding
<1>2. keys \subseteq keys' /\ (channel = "line" => RetryKey(w) \in keys')
  BY <1>0 DEF Arrives
<1>3. Stays(c) /\ Follows(c) BY <1>0, <1>1, <1>2, DeliveryFollows
<1>4. Fits /\ Bounded(c) /\ Alone(c) /\ losses \in Nat BY DEF DInv, CInv, Fits, RestTyped
<1>5. losses <= losses' BY <1>0, <1>4
<1>6. CASE got'[c] = got[c] BY <1>0, <1>3, <1>4, <1>5, <1>6, FollowsKeeps
<1>7. CASE got'[c] # got[c]
  <2>1. /\ c \in worker[w].batch /\ got'[c] = got[c] + 1
        /\ ~ (channel = "line" /\ RetryKey(w) \in keys)
    BY <1>0, <1>4, <1>7 DEF Arrives, Fits, RestTyped
  <2>2. <<"worker", w>> \in Open(c)
    <3>1. Carrying(c, w) BY <1>0, <1>1, <2>1 DEF Carrying
    <3>2. ~ Called(w) /\ ~ Spent(worker[w].job) BY <1>0, <2>1 DEF Called, Spent, RetryKey
    <3> QED BY <3>1, <3>2, RoadKinds, OpenKinds DEF Open
  <2>3. worker'[w].job = worker[w].job /\ (losses' = losses => worker'[w].pc = "ok")
    BY <1>0, <1>4, SlotStep
  <2>4. CASE losses' = losses \/ channel = "line"
    <3>1. Called(w)' \/ Spent(worker[w].job)'
      BY <1>0, <1>1, <1>2, <2>3, <2>4 DEF Called, Spent, RetryKey
    <3>2. <<"worker", w>> \notin Open(c)'
      BY <3>1, OpenKindsNext DEF Open
    <3> QED BY <1>0, <1>3, <1>4, <1>5, <2>1, <2>2, <3>2, ArrivalKeeps
  <2>5. CASE losses' = losses + 1 /\ channel # "line"
    BY <1>0, <1>3, <1>4, <1>5, <2>1, <2>5, ArrivalKeeps
  <2> QED BY <1>0, <2>4, <2>5
<1> QED BY <1>6, <1>7

(* finish() of a job to be retried: back in the queue, or lost.             *)
LEMMA RetryFollows ==
  ASSUME DInv, NEW w \in Workers, NEW c \in Customers, Retry(w)
  PROVE  Follows(c) /\ UNCHANGED <<got, crashes, losses, channel>>
<1> USE DEF world, provider
<1> PICK k : k = worker[w].job OBVIOUS
<1>0. /\ worker[w].pc = "retry" /\ worker' = [worker EXCEPT ![w] = Idle]
      /\ UNCHANGED <<got, crashes, losses, channel, keys, campaign>>
      /\ \/ lost' = lost /\ jobs' = jobs \cup {k}
         \/ jobs' = jobs /\ lost' = lost \cup {k}
  BY DEF Retry
<1>1. k.kind \in Deliveries BY <1>0 DEF DInv, HoldsFit, Holding
<1>2. worker'[w] = Idle /\ Aside(w) BY <1>0 DEF Aside, DInv, CInv, Fits, SlotsFit
<1>3. ~ Carrying(c, w)' BY <1>2, ReturnedCarriesNothing
<1>4. CASE c \in k.of
  <2>1. Carrying(c, w) BY <1>0, <1>1, <1>4 DEF Carrying
  <2>2. ~ Called(w) BY <1>0 DEF Called
  <2>3. \/ lost' = lost /\ \A j \in jobs' : j \in jobs \/ j = k \/ ~ Carries(c, j)'
        \/ jobs' = jobs /\ lost' \subseteq lost \cup {k}
    BY <1>0
  <2> QED BY <1>0, <1>2, <1>3, <2>1, <2>2, <2>3, SlotHandsOn
<1>5. CASE c \notin k.of
  <2>1. ~ Carries(c, k)' BY <1>1, <1>5 DEF Carries, Deliveries
  <2>2. \A r \in Roads(c)' : r \in Roads(c) /\ (IsOpen(r)' => IsOpen(r))
    <3> SUFFICES ASSUME NEW r \in Roads(c)' PROVE r \in Roads(c) /\ (IsOpen(r)' => IsOpen(r))
      OBVIOUS
    <3>1. CASE r = <<"draft", "draft">> /\ campaign' = "draft"
      BY <1>0, <3>1, RoadKinds, OpenKinds
    <3>2. CASE \E j \in jobs' : Carries(c, j)' /\ r = <<"queue", j>>
      BY <1>0, <1>2, <2>1, <3>2, RoadKinds, OpenKinds, OpenKindsNext, AsideKeeps
    <3>3. CASE \E j \in lost' : Carries(c, j)' /\ r = <<"lost", j>>
      BY <1>0, <1>2, <2>1, <3>3, RoadKinds, OpenKinds, OpenKindsNext, AsideKeeps
    <3>4. CASE \E v \in Workers : Carrying(c, v)' /\ r = <<"worker", v>>
      BY <1>2, <1>3, <3>4, RoadKinds, AsideKeeps
    <3> QED BY <3>1, <3>2, <3>3, <3>4, RoadKindsNext
  <2> QED BY <1>0, <2>2, SameFollows DEF Stays
<1> QED BY <1>0, <1>4, <1>5

(* A lost worker: one road more at most, which the allowance grows by.      *)
LEMMA CrashKeeps ==
  ASSUME DInv, Fits', NEW w \in Workers, NEW c \in Customers, Crash(w)
  PROVE  Bounded(c)' /\ Alone(c)'
<1> USE DEF world, provider
<1> PICK y : y = <<"lost", worker[w].job>> OBVIOUS
<1>0. /\ worker' = [worker EXCEPT ![w] = Idle] /\ lost' = lost \cup {worker[w].job}
      /\ UNCHANGED <<got, losses, channel, keys, campaign, jobs>> /\ crashes' = crashes + 1
  BY DEF Crash
<1>1. worker'[w] = Idle /\ Aside(w) BY <1>0 DEF Aside, DInv, CInv, Fits, SlotsFit
<1>2. ~ Carrying(c, w)' BY <1>1, ReturnedCarriesNothing
<1>3. \A r \in Roads(c)' : r = y \/ (r \in Roads(c) /\ (IsOpen(r)' => IsOpen(r)))
  <2> SUFFICES ASSUME NEW r \in Roads(c)' PROVE r = y \/ (r \in Roads(c) /\ (IsOpen(r)' => IsOpen(r)))
    OBVIOUS
  <2>1. CASE r = <<"draft", "draft">> /\ campaign' = "draft"
    BY <1>0, <2>1, RoadKinds, OpenKinds
  <2>2. CASE \E j \in jobs' : Carries(c, j)' /\ r = <<"queue", j>>
    BY <1>0, <1>1, <2>2, RoadKinds, OpenKinds, OpenKindsNext, AsideKeeps
  <2>3. CASE \E j \in lost' : Carries(c, j)' /\ r = <<"lost", j>>
    BY <1>0, <1>1, <2>3, RoadKinds, OpenKinds, OpenKindsNext, AsideKeeps
  <2>4. CASE \E v \in Workers : Carrying(c, v)' /\ r = <<"worker", v>>
    BY <1>1, <1>2, <2>4, RoadKinds, AsideKeeps
  <2> QED BY <2>1, <2>2, <2>3, <2>4, RoadKindsNext
<1>4. Roads(c)' \subseteq Roads(c) \cup {y} /\ Open(c)' \subseteq Open(c) \cup {y}
  BY <1>3 DEF Open
<1>5. IsFiniteSet(Roads(c)) /\ IsFiniteSet(Open(c))
  BY FS_Subset DEF DInv, Bounded, Open
<1>6. IsFiniteSet(Roads(c)') BY <1>4, <1>5, MoreCount
<1>7. IsFiniteSet(Open(c)') /\ Cardinality(Open(c)') <= Cardinality(Open(c)) + 1
  BY <1>4, <1>5, MoreCount
<1>8. /\ Cardinality(Open(c)) \in Nat /\ Cardinality(Open(c)') \in Nat
      /\ got[c] \in Nat /\ crashes \in Nat /\ losses \in Nat
  BY <1>5, <1>7, FS_CardinalityType DEF DInv, CInv, Fits, RestTyped
<1>9. Allowance \in Nat /\ Allowance' = Allowance + 1 BY <1>0, <1>8 DEF Allowance
<1>10. Cardinality(Open(c)) + got[c] <= Allowance BY DEF DInv, Bounded
<1>11. Cardinality(Open(c)') + got'[c] <= Allowance' BY <1>0, <1>7, <1>8, <1>9, <1>10
<1>12. Alone(c)' BY <1>0, <1>8 DEF Alone
<1> QED BY <1>6, <1>11, <1>12 DEF Bounded

(* A claimed job: its road goes from the queue to the slot.                 *)
LEMMA ClaimFollows ==
  ASSUME DInv, CampaignAssumption, NEW w \in Workers, NEW c \in Customers, NEW kind \in Kinds, Claim(w, kind)
  PROVE  Follows(c) /\ UNCHANGED <<got, crashes, losses, channel>>
<1> USE DEF world, provider
<1>0. PICK j \in jobs :
        /\ jobs' = jobs \ {j}
        /\ worker' = [worker EXCEPT ![w] = [pc |-> "load", job |-> [j EXCEPT !.tries = @ + 1],
                                            at |-> 0, batch |-> {}]]
        /\ UNCHANGED <<got, crashes, losses, channel, keys, campaign, lost>>
        /\ ~ Busy(w)
  BY DEF Claim
<1>1. j \in JobType /\ worker \in [Workers -> SlotType] BY DEF DInv, CInv, Fits, JobsFit, SlotsFit
<1>2. /\ worker'[w].pc = "load" /\ worker'[w].at = 0
      /\ worker'[w].job = [j EXCEPT !.tries = @ + 1]
      /\ \A v \in Workers \ {w} : worker'[v] = worker[v]
  BY <1>0, <1>1
<1>3. /\ worker'[w].job.kind = j.kind /\ worker'[w].job.of = j.of
      /\ worker'[w].job.key = j.key
  BY <1>1, <1>2 DEF JobType
<1>4. Aside(w) BY <1>0, <1>2 DEF Aside
<1> DEFINE x == <<"queue", j>>
           y == <<"worker", w>>
<1>5. Carrying(c, w)' => Carries(c, j) BY <1>0, <1>2, <1>3 DEF Carrying, Carries
<1>6. IsOpen(y)' => IsOpen(x)
  <2>1. Spent(j) => Spent(worker[w].job)' BY <1>0, <1>3 DEF Spent
  <2> QED BY <2>1, OpenKinds, OpenKindsNext
<1>7. ASSUME NEW r \in Roads(c)'
      PROVE  \/ r = y /\ x \in Roads(c) /\ (IsOpen(y)' => IsOpen(x))
             \/ r \in Roads(c) /\ r # x /\ (IsOpen(r)' => IsOpen(r))
  <2>1. CASE r = <<"draft", "draft">> /\ campaign' = "draft"
    BY <1>0, <2>1, RoadKinds, OpenKinds
  <2>2. CASE \E i \in jobs' : Carries(c, i)' /\ r = <<"queue", i>>
    BY <1>0, <1>4, <2>2, RoadKinds, OpenKinds, OpenKindsNext, AsideKeeps
  <2>3. CASE \E i \in lost' : Carries(c, i)' /\ r = <<"lost", i>>
    BY <1>0, <1>4, <2>3, RoadKinds, OpenKinds, OpenKindsNext, AsideKeeps
  <2>4. CASE \E v \in Workers : Carrying(c, v)' /\ r = <<"worker", v>>
    <3>1. PICK v \in Workers : Carrying(c, v)' /\ r = <<"worker", v>> BY <2>4
    <3>2. CASE v = w
      <4>1. x \in Roads(c) BY <1>5, <3>1, <3>2, RoadKinds
      <4> QED BY <1>6, <3>1, <3>2, <4>1
    <3>3. CASE v # w
      <4>1. v \in Workers \ {w} BY <3>3
      <4>2. r \in Roads(c) /\ (IsOpen(r)' => IsOpen(r)) BY <1>4, <3>1, <4>1, RoadKinds, AsideKeeps
      <4> QED BY <3>1, <4>2
    <3> QED BY <3>2, <3>3
  <2> QED BY <2>1, <2>2, <2>3, <2>4, RoadKindsNext
<1> HIDE DEF x, y
<1>8. Follows(c) BY <1>7, MoveFollows
<1> QED BY <1>0, <1>8

(* Steps that move no slot and queue no more than statistics.               *)
LEMMA QuietFollows ==
  ASSUME NEW c, UNCHANGED <<lost, worker, keys, channel>>,
         campaign' \in {"draft", "scheduled"} => campaign' = campaign,
         \A j \in jobs' : j \in jobs \/ j.kind = "stats"
  PROVE  Follows(c)
<1>1. \A j : Carries(c, j)' => Carries(c, j) /\ j.kind # "stats" BY IdleFacts DEF Carries
<1>2. \A j : Spent(j)' <=> Spent(j) BY DEF Spent
<1>3. \A v \in Workers : Carrying(c, v)' => Carrying(c, v) BY DEF Carrying
<1>4. \A r : IsOpen(r)' <=> IsOpen(r) BY DEF IsOpen, Spent, Called
<1>5. ASSUME NEW r \in Roads(c)' PROVE r \in Roads(c) /\ (IsOpen(r)' => IsOpen(r))
  <2>1. CASE r = <<"draft", "draft">> /\ campaign' = "draft"
    BY <1>4, <2>1, RoadKinds
  <2>2. CASE \E j \in jobs' : Carries(c, j)' /\ r = <<"queue", j>>
    BY <1>1, <1>4, <2>2, RoadKinds
  <2>3. CASE \E j \in lost' : Carries(c, j)' /\ r = <<"lost", j>>
    BY <1>1, <1>4, <2>3, RoadKinds
  <2>4. CASE \E v \in Workers : Carrying(c, v)' /\ r = <<"worker", v>>
    BY <1>3, <1>4, <2>4, RoadKinds
  <2> QED BY <2>1, <2>2, <2>3, <2>4, RoadKindsNext
<1> QED BY <1>5, SameFollows DEF Stays

(* The draft becomes campaign.run.                                          *)
LEMMA ScheduleFollows ==
  ASSUME DInv, NEW c, ScheduleCampaign PROVE Follows(c)
<1> DEFINE k == Job("run", {}, <<>>, FALSE)
           x == <<"draft", "draft">>
           y == <<"queue", k>>
<1>1. /\ campaign = "draft" /\ campaign' = "scheduled" /\ jobs' = Enqueued(jobs, {k})
      /\ UNCHANGED <<lost, worker>>
  BY DEF ScheduleCampaign
<1>2. jobs = {} /\ lost = {} /\ \A v \in Workers : worker[v].pc = "idle"
  BY <1>1 DEF DInv, DraftEmpty, Busy
<1>3. \A v \in Workers : ~ Carrying(c, v)' BY <1>1, <1>2 DEF Carrying
<1>4. \A j \in jobs' : j = k BY <1>1, <1>2 DEF Enqueued
<1>5. \A r \in Roads(c)' : r = y
  <2> HIDE DEF k
  <2> SUFFICES ASSUME NEW r \in Roads(c)' PROVE r = <<"queue", k>> OBVIOUS
  <2>1. \E j \in jobs' : r = <<"queue", j>> BY <1>1, <1>2, <1>3, RoadKindsNext
  <2> QED BY <1>4, <2>1
<1>6. x \in Roads(c) /\ IsOpen(x) BY <1>1, RoadKinds, OpenKinds
<1> HIDE DEF x, y
<1> QED BY <1>5, <1>6, MoveFollows

(* Lost jobs come back to the queue.                                        *)
LEMMA ReapFollows ==
  ASSUME NEW c, Reap PROVE Follows(c) /\ UNCHANGED <<got, crashes, losses, channel>>
<1>1. PICK stale \in SUBSET lost :
        /\ lost' = lost \ stale /\ jobs' = jobs \cup stale
        /\ UNCHANGED <<worker, keys, channel, campaign, got, crashes, losses>>
  BY DEF Reap, world, provider
<1> DEFINE m == [r \in Roads(c) |-> IF r[1] = "lost" /\ r[2] \in stale THEN <<"queue", r[2]>> ELSE r]
<1>2. \A j : Carries(c, j)' <=> Carries(c, j) BY <1>1 DEF Carries
<1>3. \A v \in Workers : Carrying(c, v)' => Carrying(c, v) BY <1>1 DEF Carrying
<1>4. \A r : IsOpen(r)' <=> IsOpen(r) BY <1>1 DEF IsOpen, Spent, Called
<1>5. \A j : IsOpen(<<"queue", j>>) <=> IsOpen(<<"lost", j>>) BY DEF IsOpen
<1>6. ASSUME NEW r \in Roads(c)'
      PROVE  \E z \in Roads(c) : r = m[z] /\ (IsOpen(r)' => IsOpen(z))
  <2>1. CASE r = <<"draft", "draft">> /\ campaign' = "draft"
    <3>1. r \in Roads(c) /\ m[r] = r BY <1>1, <2>1, RoadKinds
    <3> QED BY <1>4, <3>1
  <2>2. CASE \E j \in jobs' : Carries(c, j)' /\ r = <<"queue", j>>
    <3>1. PICK j \in jobs' : Carries(c, j) /\ r = <<"queue", j>> BY <1>2, <2>2
    <3>2. CASE j \in jobs
      <4>1. r \in Roads(c) /\ m[r] = r BY <3>1, <3>2, RoadKinds
      <4> QED BY <1>4, <4>1
    <3>3. CASE j \in stale
      <4> DEFINE z == <<"lost", j>>
      <4>1. z \in Roads(c) BY <3>1, <3>3, RoadKinds
      <4>2. m[z] = r BY <3>1, <3>3, <4>1
      <4>3. IsOpen(r)' => IsOpen(z) BY <1>4, <1>5, <3>1
      <4> QED BY <4>1, <4>2, <4>3
    <3> QED BY <1>1, <3>1, <3>2, <3>3
  <2>3. CASE \E j \in lost' : Carries(c, j)' /\ r = <<"lost", j>>
    <3>1. PICK j \in lost' : Carries(c, j) /\ r = <<"lost", j>> BY <1>2, <2>3
    <3>2. r \in Roads(c) /\ m[r] = r BY <1>1, <3>1, RoadKinds
    <3> QED BY <1>4, <3>2
  <2>4. CASE \E v \in Workers : Carrying(c, v)' /\ r = <<"worker", v>>
    <3>1. r \in Roads(c) /\ m[r] = r BY <1>3, <2>4, RoadKinds
    <3> QED BY <1>4, <3>1
  <2> QED BY <2>1, <2>2, <2>3, <2>4, RoadKindsNext
<1> HIDE DEF m
<1>7. Follows(c) BY <1>6 DEF Follows
<1> QED BY <1>1, <1>7

(* In the morning the jobs are the same, only due.                          *)
LEMMA DawnFollows ==
  ASSUME Fits, NEW c, Dawn PROVE Follows(c) /\ UNCHANGED <<got, crashes, losses, channel>>
<1>1. /\ jobs' = {[j EXCEPT !.wait = FALSE] : j \in jobs}
      /\ UNCHANGED <<lost, worker, keys, channel, campaign, got, crashes, losses>>
  BY DEF Dawn, provider
<1> DEFINE m == [r \in Roads(c) |-> IF r[1] = "queue" THEN <<"queue", [r[2] EXCEPT !.wait = FALSE]>> ELSE r]
<1>2. \A j \in jobs : /\ [j EXCEPT !.wait = FALSE].kind = j.kind
                      /\ [j EXCEPT !.wait = FALSE].of = j.of
                      /\ [j EXCEPT !.wait = FALSE].key = j.key
  BY DEF Fits, JobsFit, JobType
<1>3. \A v \in Workers : Carrying(c, v)' => Carrying(c, v) BY <1>1 DEF Carrying
<1>4. \A r : IsOpen(r)' <=> IsOpen(r) BY <1>1 DEF IsOpen, Spent, Called
<1>5. ASSUME NEW r \in Roads(c)'
      PROVE  \E z \in Roads(c) : r = m[z] /\ (IsOpen(r)' => IsOpen(z))
  <2>1. CASE r = <<"draft", "draft">> /\ campaign' = "draft"
    <3>1. r \in Roads(c) /\ m[r] = r BY <1>1, <2>1, RoadKinds
    <3> QED BY <1>4, <3>1
  <2>2. CASE \E j \in jobs' : Carries(c, j)' /\ r = <<"queue", j>>
    <3>1. PICK i \in jobs' : Carries(c, i)' /\ r = <<"queue", i>> BY <2>2
    <3>2. PICK j \in jobs : i = [j EXCEPT !.wait = FALSE] BY <1>1, <3>1
    <3>3. Carries(c, j) BY <1>1, <1>2, <3>1, <3>2 DEF Carries
    <3> DEFINE z == <<"queue", j>>
    <3>4. z \in Roads(c) BY <3>3, RoadKinds
    <3>5. m[z] = r BY <3>1, <3>2, <3>4
    <3>6. IsOpen(r)' => IsOpen(z)
      <4>1. Spent(j) => Spent(i) BY <1>2, <3>2 DEF Spent
      <4> QED BY <1>4, <3>1, <4>1, OpenKinds
    <3> QED BY <3>4, <3>5, <3>6
  <2>3. CASE \E j \in lost' : Carries(c, j)' /\ r = <<"lost", j>>
    <3>1. PICK j \in lost' : Carries(c, j)' /\ r = <<"lost", j>> BY <2>3
    <3>2. Carries(c, j) BY <1>1, <3>1 DEF Carries
    <3>3. r \in Roads(c) /\ m[r] = r BY <1>1, <3>1, <3>2, RoadKinds
    <3> QED BY <1>4, <3>3
  <2>4. CASE \E v \in Workers : Carrying(c, v)' /\ r = <<"worker", v>>
    <3>1. r \in Roads(c) /\ m[r] = r BY <1>3, <2>4, RoadKinds
    <3> QED BY <1>4, <3>1
  <2> QED BY <2>1, <2>2, <2>3, <2>4, RoadKindsNext
<1> HIDE DEF m
<1>6. Follows(c) BY <1>5 DEF Follows
<1> QED BY <1>1, <1>6

(* Every step keeps the count of one customer.                              *)
LEMMA CountStep ==
  ASSUME CampaignAssumption, DInv, Fits', [Next]_vars, NEW c \in Customers
  PROVE  Bounded(c)' /\ Alone(c)'
<1>0. Fits /\ Bounded(c) /\ Alone(c) /\ losses \in Nat BY DEF DInv, CInv, Fits, RestTyped
<1>1. ASSUME Follows(c), UNCHANGED <<got, crashes, losses, channel>> PROVE Bounded(c)' /\ Alone(c)'
  <2>1. got'[c] = got[c] /\ crashes' = crashes /\ channel' = channel /\ losses' = losses BY <1>1
  <2>2. losses <= losses' BY <1>0, <2>1
  <2> QED BY <1>0, <1>1, <2>1, <2>2, FollowsKeeps
<1>2. CASE UNCHANGED vars
  <2>1. Follows(c) BY <1>2, QuietFollows DEF vars
  <2> QED BY <1>1, <1>2, <2>1 DEF vars
<1>3. CASE ScheduleCampaign BY <1>1, <1>3, ScheduleFollows DEF ScheduleCampaign, world, provider
<1>4. CASE \/ CancelCampaign \/ \E d \in Customers : OptOut(d)
           \/ \E what \in {"no_template", "no_channel"} : Lose(what) \/ Dusk
  <2>1. /\ UNCHANGED <<lost, worker, keys, channel, got, crashes, losses>>
        /\ campaign' \in {"draft", "scheduled"} => campaign' = campaign
        /\ jobs' \subseteq jobs
    BY <1>4 DEF CancelCampaign, OptOut, Lose, Dusk, world, provider
  <2>2. Follows(c) BY <2>1, QuietFollows
  <2> QED BY <1>1, <2>1, <2>2
<1>5. CASE Dawn BY <1>0, <1>1, <1>5, DawnFollows
<1>6. CASE Reap BY <1>1, <1>6, ReapFollows
<1>7. ASSUME NEW w \in Workers, RefreshStats(w) PROVE Bounded(c)' /\ Alone(c)'
  <2>1. /\ UNCHANGED <<lost, worker, keys, channel, got, crashes, losses>>
        /\ campaign' \in {"draft", "scheduled"} => campaign' = campaign
    BY <1>7 DEF RefreshStats, world, provider
  <2>2. \A j \in jobs' : j \in jobs \/ j.kind = "stats"
    <3>1. StatsLater.kind = "stats" BY DEF StatsLater, Job
    <3> QED BY <1>7, <3>1 DEF RefreshStats, Enqueued
  <2>3. Follows(c) BY <2>1, <2>2, QuietFollows
  <2> QED BY <1>1, <2>1, <2>3
<1>8. ASSUME NEW w \in Workers, Crash(w) PROVE Bounded(c)' /\ Alone(c)' BY <1>8, CrashKeeps
<1>9. ASSUME NEW w \in Workers, NEW kind \in Kinds, Claim(w, kind) PROVE Bounded(c)' /\ Alone(c)'
  BY <1>1, <1>9, ClaimFollows
<1>10. ASSUME NEW w \in Workers, Handler(w) PROVE Bounded(c)' /\ Alone(c)'
  <2>1. CASE StartCampaign(w) \/ SnapshotRead(w) \/ SnapshotWrite(w) \/ EndSnapshot(w)
    BY <1>1, <2>1, RunFollows
  <2>2. CASE DispatchPage(w) \/ EndDispatch(w) BY <1>1, <2>2, DispatchFollows
  <2>3. CASE LoadMessage(w) \/ LoadBatch(w) BY <1>1, <2>3, LoadFollows
  <2>4. CASE Accepted(w) \/ AnswerLost(w) BY <2>4, CallKeeps
  <2>5. ASSUME NEW how \in {"error", "rejected"}, Refused(w, how) PROVE Bounded(c)' /\ Alone(c)'
    BY <1>1, <2>5, RefusedFollows
  <2>6. CASE MarkSent(w) \/ AwaitRetry(w) \/ MarkFailed(w) BY <1>1, <2>6, EndFollows
  <2>7. CASE Retry(w) BY <1>1, <2>7, RetryFollows
  <2> QED BY <1>10, <2>1, <2>2, <2>3, <2>4, <2>5, <2>6, <2>7 DEF Handler
<1> QED BY <1>2, <1>3, <1>4, <1>5, <1>6, <1>7, <1>8, <1>9, <1>10 DEF Next

(***************************************************************************)
(* Messages under way                                                      *)
(***************************************************************************)

(* Which messages a step of a handler moves, and where they arrive.         *)
LEMMA HandlerMoves ==
  ASSUME DInv, NEW w \in Workers, Handler(w), NEW d \in Customers
  PROVE  /\ \/ message'[d] = message[d]
            \/ message[d] \in {"none", "queued"}
            \/ message[d] = "sending" /\ worker[w].job.kind \in Deliveries /\ worker[w].pc # "idle"
               /\ d \in worker[w].job.of
            \/ Holding(w) /\ d \in worker[w].batch
         /\ got'[d] = got[d] \/ (Holding(w) /\ d \in worker[w].batch)
<1> USE DEF world, provider
<1>0. /\ message \in [Customers -> MessageStates]
      /\ got \in [Customers -> Nat]
      /\ \A S, status : Settle(S, status) => (message'[d] = message[d] \/ d \in S)
  BY DEF DInv, CInv, Fits, RestTyped, Settle
<1>1. CASE StartCampaign(w) \/ SnapshotRead(w) \/ EndSnapshot(w) \/ EndDispatch(w) \/ Retry(w)
  BY <1>1 DEF StartCampaign, SnapshotRead, EndSnapshot, EndDispatch, Retry
<1>2. CASE SnapshotWrite(w)
  BY <1>0, <1>2 DEF SnapshotWrite
<1>3. CASE DispatchPage(w)
  <2>1. got' = got BY <1>3 DEF DispatchPage
  <2>2. CASE message' = message BY <2>1, <2>2
  <2>3. CASE message' # message
    <3>1. PICK page \in SUBSET Customers :
            /\ IsPage(page, QueuedMessages, worker[w].at, Page)
            /\ message' = [c \in Customers |->
                   IF c \in page /\ Prepared(c) = "skip" THEN "skipped"
                   ELSE IF c \in UNION Multicasts(page) THEN "sending"
                   ELSE message[c]]
      BY <1>3, <2>3 DEF DispatchPage
    <3>2. d \in page => message[d] = "queued" BY <3>1 DEF IsPage, QueuedMessages
    <3>3. d \in UNION Multicasts(page) => d \in page BY DEF Multicasts
    <3>4. message'[d] = message[d] \/ d \in page BY <3>1, <3>3
    <3> QED BY <2>1, <3>2, <3>4
  <2> QED BY <2>2, <2>3
<1>4. CASE LoadMessage(w)
  <2>1. PICK c \in worker[w].job.of :
          \/ message' = message
          \/ /\ Deliverable(c)
             /\ \E status : Settle({c}, status)
    BY <1>4 DEF LoadMessage, Loaded
  <2>2. /\ got' = got /\ worker[w].job.kind \in Deliveries /\ worker[w].pc # "idle"
    BY <1>4 DEF LoadMessage, At, Deliveries
  <2>3. message'[d] = message[d] \/ (d = c /\ message[d] \in {"queued", "sending"})
    BY <1>0, <2>1 DEF Deliverable
  <2> QED BY <2>1, <2>2, <2>3
<1>5. CASE LoadBatch(w)
  <2>1. /\ got' = got /\ worker[w].job.kind \in Deliveries /\ worker[w].pc # "idle"
    BY <1>5 DEF LoadBatch, At, Deliveries
  <2>2. \/ message' = message
        \/ Settle({c \in worker[w].job.of : message[c] = "sending"}, "failed")
    BY <1>5 DEF LoadBatch
  <2>3. message'[d] = message[d] \/ (d \in worker[w].job.of /\ message[d] = "sending")
    BY <1>0, <2>2
  <2> QED BY <2>1, <2>3
<1>6. CASE Accepted(w) \/ AnswerLost(w)
  <2>1. message' = message /\ Holding(w) /\ Arrives(w)
    BY <1>6 DEF Accepted, AnswerLost, Calls, Holding
  <2>2. got'[d] = got[d] \/ d \in worker[w].batch BY <1>0, <2>1 DEF Arrives
  <2> QED BY <2>1, <2>2
<1>7. ASSUME NEW how \in {"error", "rejected"}, Refused(w, how) PROVE message' = message /\ got' = got
  BY <1>7 DEF Refused
<1>8. CASE MarkSent(w) \/ MarkFailed(w)
  <2>1. got' = got /\ Holding(w) /\ \E status : Settle(worker[w].batch, status)
    BY <1>8 DEF MarkSent, MarkFailed, Outcome, Holding
  <2> QED BY <1>0, <2>1
<1>9. CASE AwaitRetry(w)
  <2>1. got' = got /\ Holding(w) /\ Settle(BackToQueue(w), "queued")
    BY <1>9 DEF AwaitRetry, Outcome, Holding
  <2>2. BackToQueue(w) \subseteq worker[w].batch BY DEF BackToQueue
  <2> QED BY <1>0, <2>1, <2>2
<1> QED BY <1>1, <1>2, <1>3, <1>4, <1>5, <1>6, <1>7, <1>8, <1>9 DEF Handler

(* Of the other steps, only cancelling moves messages, and only queued ones.*)
LEMMA OthersMove ==
  ASSUME DInv, [Next]_vars, ~ \E w \in Workers : Handler(w), NEW d \in Customers
  PROVE  (message'[d] = message[d] \/ message[d] = "queued") /\ got' = got
<1> USE DEF world, provider
<1>1. CASE CancelCampaign
  BY <1>1 DEF CancelCampaign, QueuedMessages, DInv, CInv, Fits, RestTyped
<1>2. CASE ~ CancelCampaign
  <2>1. UNCHANGED <<message, got>>
    BY <1>2 DEF Next, vars, ScheduleCampaign, OptOut, Lose, Dusk, Dawn, Reap, Crash, RefreshStats, Claim
  <2> QED BY <2>1
<1> QED BY <1>1, <1>2

(* While no worker was lost, a slot has the messages of its call to itself. *)
LEMMA HeldAlone ==
  ASSUME DInv, crashes = 0, NEW v \in Workers, Holding(v), NEW d \in Customers, d \in worker[v].batch,
         NEW w \in Workers, worker[w].job.kind \in Deliveries, worker[w].pc # "idle",
         d \in worker[w].job.of
  PROVE  v = w
<1>1. worker[v].job.kind \in Deliveries /\ d \in worker[v].job.of /\ worker[v].pc # "idle"
  BY DEF DInv, HoldsFit, Holding
<1>2. <<"worker", v>> \in Roads(d) /\ <<"worker", w>> \in Roads(d)
  BY <1>1, RoadKinds DEF Carrying
<1>3. <<"worker", v>> = <<"worker", w>> BY <1>2 DEF DInv, Alone
<1> QED BY <1>3

(* The slot's own call.                                                     *)
LEMMA OwnCallFits ==
  ASSUME DInv, NEW w \in Workers, Handler(w) PROVE HoldsFit(w)'
<1> USE DEF world, provider
<1>0. Fits /\ HoldsFit(w) BY DEF DInv, CInv
<1>1. CASE Return(w) \/ Retry(w)
  <2>1. worker'[w] = Idle
    BY <1>0, <1>1, SlotStep DEF Retry, Return, Fits, SlotsFit
  <2> QED BY <2>1, IdleFacts DEF HoldsFit, Holding
<1>2. ASSUME NEW pc, NEW at, NEW batch, Step(w, pc, at, batch), pc \in {"read", "write", "end", "load"}
      PROVE  HoldsFit(w)'
  BY <1>0, <1>2, SlotStep DEF HoldsFit, Holding
<1>3. CASE StartCampaign(w) \/ SnapshotRead(w) \/ SnapshotWrite(w) \/ EndSnapshot(w)
           \/ DispatchPage(w) \/ EndDispatch(w)
  <2>1. \/ Return(w)
        \/ \E pc, at, batch : Step(w, pc, at, batch) /\ pc \in {"read", "write", "end", "load"}
    BY <1>3 DEF StartCampaign, SnapshotRead, SnapshotWrite, EndSnapshot, DispatchPage, EndDispatch, Further
  <2> QED BY <1>1, <1>2, <2>1
<1>4. CASE LoadMessage(w) /\ ~ Return(w)
  <2>1. PICK c \in worker[w].job.of : Settle({c}, "sending") /\ Step(w, "call", 0, {c})
    BY <1>4 DEF LoadMessage
  <2>2. worker'[w].batch = {c} /\ worker'[w].job = worker[w].job BY <1>0, <2>1, SlotStep
  <2>3. worker[w].job.kind \in Deliveries /\ crashes' = crashes BY <1>4 DEF LoadMessage, At, Deliveries
  <2>4. c \in Customers
    BY <1>0 DEF Fits, SlotsFit, SlotType, JobType
  <2>5. message'[c] = "sending" BY <2>1, <2>4 DEF Settle
  <2> QED BY <2>2, <2>3, <2>5 DEF HoldsFit
<1>5. CASE LoadBatch(w) /\ ~ Return(w)
  <2> PICK S : S = {c \in worker[w].job.of : message[c] = "sending"} OBVIOUS
  <2>1. Step(w, "call", 0, S) /\ message' = message BY <1>5 DEF LoadBatch
  <2>2. worker'[w].batch = S /\ worker'[w].job = worker[w].job BY <1>0, <2>1, SlotStep
  <2>3. worker[w].job.kind \in Deliveries BY <1>5 DEF LoadBatch, At, Deliveries
  <2> QED BY <2>1, <2>2, <2>3 DEF HoldsFit
<1>6. CASE Accepted(w) \/ AnswerLost(w) \/ \E how \in {"error", "rejected"} : Refused(w, how)
  <2>1. Holding(w) /\ message' = message /\ crashes' = crashes
        /\ \E pc : Step(w, pc, 0, worker[w].batch)
    BY <1>6 DEF Accepted, AnswerLost, Refused, Calls, Holding
  <2>2. worker'[w].batch = worker[w].batch /\ worker'[w].job = worker[w].job BY <1>0, <2>1, SlotStep
  <2> QED BY <1>0, <2>1, <2>2 DEF HoldsFit
<1>7. CASE (MarkSent(w) \/ AwaitRetry(w) \/ MarkFailed(w)) /\ ~ Return(w)
  <2>1. Holding(w) /\ Step(w, "retry", 0, {})
    BY <1>7 DEF MarkSent, AwaitRetry, MarkFailed, Outcome, Holding
  <2>2. worker'[w].batch = {} /\ worker'[w].job = worker[w].job BY <1>0, <2>1, SlotStep
  <2> QED BY <1>0, <2>1, <2>2 DEF HoldsFit
<1> QED BY <1>1, <1>3, <1>4, <1>5, <1>6, <1>7 DEF Handler

LEMMA HoldsStep ==
  ASSUME DInv, Fits', [Next]_vars, NEW v \in Workers PROVE HoldsFit(v)'
<1>0. Fits /\ HoldsFit(v) /\ crashes \in Nat /\ crashes' \in Nat BY DEF DInv, CInv, Fits, RestTyped
<1>1. crashes' = 0 => crashes = 0
  <2>1. ASSUME NEW w \in Workers, Handler(w) PROVE crashes' = crashes
    <3>1. CASE StartCampaign(w) \/ SnapshotRead(w) \/ SnapshotWrite(w) \/ EndSnapshot(w)
      BY <3>1 DEF StartCampaign, SnapshotRead, SnapshotWrite, EndSnapshot
    <3>2. CASE DispatchPage(w) \/ EndDispatch(w) BY <3>2 DEF DispatchPage, EndDispatch
    <3>3. CASE LoadMessage(w) \/ LoadBatch(w) BY <3>3 DEF LoadMessage, LoadBatch
    <3>4. CASE Accepted(w) \/ AnswerLost(w) BY <3>4 DEF Accepted, AnswerLost
    <3>5. CASE \E how \in {"error", "rejected"} : Refused(w, how) BY <3>5 DEF Refused
    <3>6. CASE MarkSent(w) \/ AwaitRetry(w) \/ MarkFailed(w) BY <3>6 DEF MarkSent, AwaitRetry, MarkFailed
    <3>7. CASE Retry(w) BY <3>7 DEF Retry
    <3> QED BY <2>1, <3>1, <3>2, <3>3, <3>4, <3>5, <3>6, <3>7 DEF Handler
  <2>2. ASSUME NEW w \in Workers, Crash(w) \/ RefreshStats(w) \/ \E kind \in Kinds : Claim(w, kind)
        PROVE  crashes' = crashes \/ crashes' = crashes + 1
    BY <2>2 DEF Crash, RefreshStats, Claim
  <2>3. ASSUME \/ ScheduleCampaign \/ CancelCampaign
               \/ \E c \in Customers : OptOut(c)
               \/ \E what \in {"no_template", "no_channel"} : Lose(what)
               \/ Dusk \/ Dawn \/ Reap
        PROVE  crashes' = crashes
    BY <2>3 DEF ScheduleCampaign, CancelCampaign, OptOut, Lose, Dusk, Dawn, Reap
  <2>4. ASSUME UNCHANGED vars PROVE crashes' = crashes BY <2>4 DEF vars
  <2>5. crashes' = crashes \/ crashes' = crashes + 1
    <3>1. ASSUME Next PROVE crashes' = crashes \/ crashes' = crashes + 1
      BY <2>1, <2>2, <2>3, <3>1 DEF Next
    <3> QED BY <2>4, <3>1
  <2> QED BY <1>0, <2>5
<1>2. \A d \in worker[v].batch : d \in Customers BY <1>0 DEF Fits, SlotsFit, SlotType
<1>3. CASE \E w \in Workers : Handler(w)
  <2>1. PICK w \in Workers : Handler(w) BY <1>3
  <2>2. CASE v = w BY <2>1, <2>2, OwnCallFits
  <2>3. CASE v # w
    <3>1. worker'[v] = worker[v]
      BY <1>0, <2>1, <2>3, SlotStep
      DEF Handler, StartCampaign, SnapshotRead, SnapshotWrite, EndSnapshot, DispatchPage, EndDispatch,
          LoadMessage, LoadBatch, Accepted, AnswerLost, Refused, MarkSent, AwaitRetry, MarkFailed, Retry,
          Further, Fits, SlotsFit
    <3>2. ASSUME Holding(v), crashes = 0, NEW d \in worker[v].batch PROVE message'[d] = "sending"
      <4>1. message[d] = "sending" BY <1>0, <3>2 DEF HoldsFit
      <4>2. ~ (worker[w].job.kind \in Deliveries /\ worker[w].pc # "idle" /\ d \in worker[w].job.of)
        BY <1>2, <2>3, <3>2, HeldAlone
      <4>3. ~ (Holding(w) /\ d \in worker[w].batch)
        <5>1. HoldsFit(w) /\ (Holding(w) => worker[w].pc # "idle") BY DEF DInv, Holding
        <5> QED BY <4>2, <5>1 DEF HoldsFit
      <4> QED BY <1>2, <2>1, <4>1, <4>2, <4>3, HandlerMoves
    <3> QED BY <1>0, <1>1, <3>1, <3>2 DEF HoldsFit, Holding
  <2> QED BY <2>2, <2>3
<1>4. CASE ~ \E w \in Workers : Handler(w)
  <2>1. worker'[v] = worker[v] \/ worker'[v].pc \in {"idle", "load"}
    BY <1>0, <1>4, IdleFacts
    DEF Next, vars, ScheduleCampaign, CancelCampaign, OptOut, Lose, Dusk, Dawn, Reap, Crash,
        RefreshStats, Claim, Fits, SlotsFit
  <2>2. CASE worker'[v] = worker[v]
    <3>1. ASSUME Holding(v), crashes = 0, NEW d \in worker[v].batch PROVE message'[d] = "sending"
      <4>1. message[d] = "sending" BY <1>0, <3>1 DEF HoldsFit
      <4> QED BY <1>2, <1>4, <4>1, OthersMove
    <3> QED BY <1>0, <1>1, <2>2, <3>1 DEF HoldsFit, Holding
  <2>3. CASE worker'[v].pc \in {"idle", "load"} BY <2>3 DEF HoldsFit, Holding
  <2> QED BY <2>1, <2>2, <2>3
<1> QED BY <1>3, <1>4

(***************************************************************************)
(* The draft, and deliveries of one                                        *)
(***************************************************************************)

LEMMA DraftStep ==
  ASSUME DInv, [Next]_vars PROVE DraftEmpty'
<1> USE DEF world, provider
<1> SUFFICES ASSUME campaign' = "draft" PROVE (jobs = {} /\ lost = {} /\ \A w \in Workers : ~ Busy(w))'
  BY DEF DraftEmpty
<1>1. ASSUME NEW w \in Workers, Handler(w)
      PROVE  worker[w].pc # "idle" /\ (campaign' = "draft" => campaign = "draft")
  <2>1. CASE StartCampaign(w) \/ SnapshotRead(w) \/ SnapshotWrite(w) \/ EndSnapshot(w)
    BY <2>1 DEF StartCampaign, SnapshotRead, SnapshotWrite, EndSnapshot, At
  <2>2. CASE DispatchPage(w) \/ EndDispatch(w) BY <2>2 DEF DispatchPage, EndDispatch, At
  <2>3. CASE LoadMessage(w) \/ LoadBatch(w) BY <2>3 DEF LoadMessage, LoadBatch, At
  <2>4. CASE Accepted(w) \/ AnswerLost(w) BY <2>4 DEF Accepted, AnswerLost, Calls
  <2>5. CASE \E how \in {"error", "rejected"} : Refused(w, how) BY <2>5 DEF Refused, Calls
  <2>6. CASE MarkSent(w) \/ AwaitRetry(w) \/ MarkFailed(w)
    BY <2>6 DEF MarkSent, AwaitRetry, MarkFailed, Outcome
  <2>7. CASE Retry(w) BY <2>7 DEF Retry
  <2> QED BY <1>1, <2>1, <2>2, <2>3, <2>4, <2>5, <2>6, <2>7 DEF Handler
<1>2. ASSUME NEW w \in Workers, Crash(w) \/ RefreshStats(w) \/ \E kind \in Kinds : Claim(w, kind)
      PROVE  (campaign' = "draft" => campaign = "draft") /\ (Busy(w) \/ jobs # {})
  BY <1>2 DEF Crash, RefreshStats, Claim
<1>3. ASSUME \/ ScheduleCampaign \/ CancelCampaign
             \/ \E c \in Customers : OptOut(c)
             \/ \E what \in {"no_template", "no_channel"} : Lose(what)
             \/ Dusk \/ Dawn \/ Reap
      PROVE  /\ campaign' = "draft" => campaign = "draft"
             /\ campaign' = "draft" => UNCHANGED <<lost, worker>> \/ lost # {}
             /\ campaign' = "draft" /\ jobs' # {} => jobs # {} \/ lost # {}
  BY <1>3 DEF ScheduleCampaign, CancelCampaign, OptOut, Lose, Dusk, Dawn, Reap
<1>4. ASSUME UNCHANGED vars PROVE UNCHANGED <<campaign, jobs, lost, worker>> BY <1>4 DEF vars
<1>5. campaign = "draft"
  <2>1. ASSUME Next PROVE campaign = "draft" BY <1>1, <1>2, <1>3, <2>1 DEF Next
  <2> QED BY <1>4, <2>1
<1>6. jobs = {} /\ lost = {} /\ \A w \in Workers : ~ Busy(w) BY <1>5 DEF DInv, DraftEmpty
<1>7. ASSUME NEW w \in Workers PROVE ~ Handler(w) BY <1>1, <1>6 DEF Busy
<1>8. ASSUME Next PROVE UNCHANGED <<lost, worker>> /\ jobs' = {}
  BY <1>2, <1>3, <1>6, <1>7, <1>8 DEF Next
<1>9. UNCHANGED <<lost, worker>> /\ jobs' = {} BY <1>4, <1>6, <1>8
<1> QED BY <1>6, <1>9 DEF Busy

(* Jobs that are new, as opposed to moved.                                  *)
LEMMA NewForOne ==
  /\ ForOne(Stats) /\ ForOne(StatsLater) /\ ForOne(Idle.job)
  /\ ForOne(Job("run", {}, <<>>, FALSE)) /\ ForOne(Job("dispatch", {}, <<>>, FALSE))
  /\ \A c \in Customers : \A tag, wait : ForOne(Job("deliver", {c}, tag, wait))
  /\ \A page \in SUBSET Customers : \A j \in PageJobs(page) : ForOne(j)
<1>1. ForOne(Stats) /\ ForOne(StatsLater) /\ ForOne(Idle.job)
  BY DEF ForOne, Stats, StatsLater, Idle, Job
<1>2. ForOne(Job("run", {}, <<>>, FALSE)) /\ ForOne(Job("dispatch", {}, <<>>, FALSE))
  BY DEF ForOne, Job
<1>3. \A c \in Customers : \A tag, wait : ForOne(Job("deliver", {c}, tag, wait)) BY DEF ForOne, Job
<1>4. ASSUME NEW page \in SUBSET Customers, NEW j \in PageJobs(page) PROVE ForOne(j)
  <2>1. \/ j = Stats
        \/ \E c \in page : j = Job("deliver", {c}, <<"at">>, TRUE)
        \/ \E c \in page : j = Job("deliver", {c}, <<>>, FALSE)
        \/ \E g : j = Multicast(g, drawn + 1)
    BY DEF PageJobs, Deliver
  <2>2. \A g : ForOne(Multicast(g, drawn + 1)) BY MulticastFields DEF ForOne
  <2> QED BY <1>1, <1>3, <2>1, <2>2
<1> QED BY <1>1, <1>2, <1>3, <1>4

LEMMA MovedForOne ==
  ASSUME DeliverOne,
         \A j \in jobs' \cup lost' : ForOne(j) \/ j \in jobs \cup lost \/ \E w \in Workers : j = worker[w].job,
         \A w \in Workers : worker'[w].job = worker[w].job \/ ForOne(worker[w].job)'
  PROVE  DeliverOne'
<1>1. \A j : ForOne(j)' <=> ForOne(j) BY DEF ForOne
<1>2. \A w \in Workers : worker'[w].job = worker[w].job => ForOne(worker[w].job)' BY DEF DeliverOne, ForOne
<1> QED BY <1>1, <1>2 DEF DeliverOne

LEMMA HandlerForOne ==
  ASSUME DInv, NEW w \in Workers, Handler(w) PROVE DeliverOne'
<1> USE DEF world, provider
<1>0. Fits /\ DeliverOne BY DEF DInv, CInv
<1>1. ASSUME Return(w) \/ \E pc, at, batch : Step(w, pc, at, batch)
      PROVE  \A v \in Workers : worker'[v].job = worker[v].job \/ ForOne(worker[v].job)'
  <2>1. \A v \in Workers : worker'[v] = worker[v] \/ worker'[v] = Idle \/ worker'[v].job = worker[v].job
    BY <1>0, <1>1, SlotStep
  <2>2. \A v \in Workers : worker'[v] = Idle => ForOne(worker[v].job)' BY NewForOne DEF ForOne
  <2> QED BY <2>1, <2>2
<1>2. ASSUME Return(w) \/ \E pc, at, batch : Step(w, pc, at, batch), lost' = lost,
             NEW new, jobs' = jobs \/ jobs' = Enqueued(jobs, new), \A j \in new : ForOne(j)
      PROVE  DeliverOne'
  <2>1. \A j \in jobs' : j \in jobs \/ j \in new BY <1>2 DEF Enqueued
  <2> QED BY <1>0, <1>1, <1>2, <2>1, MovedForOne
<1>3. ASSUME Return(w) \/ \E pc, at, batch : Step(w, pc, at, batch), lost' = lost, jobs' = jobs
      PROVE  DeliverOne'
  <2> PICK new : new = {} OBVIOUS
  <2>1. \A j \in new : ForOne(j) OBVIOUS
  <2> QED BY <1>2, <1>3, <2>1
<1>4. ASSUME Return(w) \/ \E pc, at, batch : Step(w, pc, at, batch), lost' = lost,
             jobs' = jobs \/ jobs' = Enqueued(jobs, {Stats})
      PROVE  DeliverOne'
  <2>1. \A j \in {Stats} : ForOne(j) BY NewForOne
  <2> QED BY <1>2, <1>4, <2>1
<1>5. CASE StartCampaign(w) \/ SnapshotRead(w) \/ SnapshotWrite(w)
  <2>1. /\ Return(w) \/ \E pc, at, batch : Step(w, pc, at, batch)
        /\ lost' = lost /\ jobs' = jobs
    BY <1>5 DEF StartCampaign, SnapshotRead, SnapshotWrite, Further
  <2> QED BY <1>3, <2>1
<1>6. CASE EndSnapshot(w)
  <2> PICK new : new = {Job("dispatch", {}, <<>>, FALSE)} OBVIOUS
  <2>1. \A j \in new : ForOne(j) BY NewForOne
  <2>2. Return(w) /\ lost' = lost /\ jobs' = Enqueued(jobs, new) BY <1>6 DEF EndSnapshot
  <2> QED BY <1>2, <2>1, <2>2
<1>7. CASE DispatchPage(w)
  <2>1. PICK page \in SUBSET Customers :
          /\ \E pc, at, batch : Step(w, pc, at, batch)
          /\ jobs' = jobs \/ jobs' = Enqueued(jobs, PageJobs(page))
    BY <1>7 DEF DispatchPage, Further
  <2>2. lost' = lost BY <1>7 DEF DispatchPage
  <2>3. \A j \in PageJobs(page) : ForOne(j) BY NewForOne
  <2> QED BY <1>2, <2>1, <2>2, <2>3
<1>8. CASE EndDispatch(w)
  <2>1. Return(w) /\ lost' = lost /\ jobs' = Enqueued(jobs, {Stats}) BY <1>8 DEF EndDispatch
  <2> QED BY <1>4, <2>1
<1>9. CASE LoadMessage(w)
  <2>1. lost' = lost BY <1>9 DEF LoadMessage
  <2>2. CASE jobs' = jobs \/ jobs' = Enqueued(jobs, {Stats})
    <3>1. Return(w) \/ \E pc, at, batch : Step(w, pc, at, batch) BY <1>9 DEF LoadMessage
    <3> QED BY <1>4, <2>1, <2>2, <3>1
  <2>3. CASE ~ (jobs' = jobs \/ jobs' = Enqueued(jobs, {Stats}))
    <3>1. PICK c \in worker[w].job.of :
            Return(w) /\ jobs' = Enqueued(jobs, {Job("deliver", {c}, Append(worker[w].job.tag, "again"), night)})
      BY <1>9, <2>3 DEF LoadMessage
    <3>2. c \in Customers BY <1>0 DEF Fits, SlotsFit, SlotType, JobType
    <3> PICK new : new = {Job("deliver", {c}, Append(worker[w].job.tag, "again"), night)} OBVIOUS
    <3>3. \A j \in new : ForOne(j) BY <3>2, NewForOne
    <3> QED BY <1>2, <2>1, <3>1, <3>3
  <2> QED BY <2>2, <2>3
<1>10. CASE LoadBatch(w)
  <2>1. /\ Return(w) \/ \E pc, at, batch : Step(w, pc, at, batch)
        /\ lost' = lost /\ (jobs' = jobs \/ jobs' = Enqueued(jobs, {Stats}))
    BY <1>10 DEF LoadBatch
  <2> QED BY <1>4, <2>1
<1>11. CASE Accepted(w) \/ AnswerLost(w) \/ \E how \in {"error", "rejected"} : Refused(w, how)
  <2>1. /\ Return(w) \/ \E pc, at, batch : Step(w, pc, at, batch)
        /\ lost' = lost /\ jobs' = jobs
    BY <1>11 DEF Accepted, AnswerLost, Refused
  <2> QED BY <1>3, <2>1
<1>12. CASE MarkSent(w) \/ AwaitRetry(w) \/ MarkFailed(w)
  <2>1. /\ Return(w) \/ \E pc, at, batch : Step(w, pc, at, batch)
        /\ lost' = lost /\ (jobs' = jobs \/ jobs' = Enqueued(jobs, {Stats}))
    BY <1>12 DEF MarkSent, AwaitRetry, MarkFailed
  <2> QED BY <1>4, <2>1
<1>13. CASE Retry(w)
  <2>1. /\ Return(w) /\ jobs' \subseteq jobs \cup {worker[w].job}
        /\ lost' \subseteq lost \cup {worker[w].job}
    BY <1>13 DEF Retry, Return
  <2> QED BY <1>0, <1>1, <2>1, MovedForOne
<1> QED BY <1>5, <1>6, <1>7, <1>8, <1>9, <1>10, <1>11, <1>12, <1>13 DEF Handler

LEMMA ForOneStep ==
  ASSUME DInv, [Next]_vars PROVE DeliverOne'
<1> USE DEF world, provider
<1>0. /\ DeliverOne /\ jobs \subseteq JobType /\ worker \in [Workers -> SlotType]
      /\ \A w \in Workers : ForOne(worker[w].job)
  BY DEF DInv, CInv, Fits, JobsFit, SlotsFit, DeliverOne
<1>1. ASSUME jobs' \cup lost' \subseteq jobs \cup lost, worker' = worker PROVE DeliverOne'
  BY <1>0, <1>1, MovedForOne
<1>2. ASSUME NEW w \in Workers, Handler(w) PROVE DeliverOne' BY <1>2, HandlerForOne
<1>3. ASSUME NEW w \in Workers, NEW kind \in Kinds, Claim(w, kind) PROVE DeliverOne'
  <2>1. PICK j \in jobs :
          /\ jobs' = jobs \ {j} /\ lost' = lost
          /\ worker' = [worker EXCEPT ![w] = [pc |-> "load", job |-> [j EXCEPT !.tries = @ + 1],
                                              at |-> 0, batch |-> {}]]
    BY <1>3 DEF Claim
  <2>2. /\ worker'[w].job = [j EXCEPT !.tries = @ + 1]
        /\ \A v \in Workers \ {w} : worker'[v] = worker[v]
    BY <1>0, <2>1
  <2>3. /\ worker'[w].job.kind = j.kind /\ worker'[w].job.of = j.of
        /\ worker'[w].job.key = j.key
    BY <1>0, <2>2 DEF JobType
  <2>4. ForOne(worker[w].job)'
    <3>1. ForOne(j) BY <1>0 DEF DeliverOne
    <3>2. ForOne(worker'[w].job) BY <2>3, <3>1 DEF ForOne
    <3> QED BY <3>2 DEF ForOne
  <2> QED BY <1>0, <2>1, <2>2, <2>4, MovedForOne
<1>4. ASSUME NEW w \in Workers, Crash(w) PROVE DeliverOne'
  <2>1. /\ worker' = [worker EXCEPT ![w] = Idle] /\ lost' = lost \cup {worker[w].job} /\ jobs' = jobs
    BY <1>4 DEF Crash
  <2>2. worker'[w] = Idle /\ \A v \in Workers \ {w} : worker'[v] = worker[v] BY <1>0, <2>1
  <2>3. ForOne(worker[w].job)' BY <2>2, NewForOne DEF ForOne
  <2> QED BY <1>0, <2>1, <2>2, <2>3, MovedForOne
<1>5. ASSUME NEW w \in Workers, RefreshStats(w) PROVE DeliverOne'
  <2>1. \A j \in jobs' : j \in jobs \/ j = StatsLater BY <1>5 DEF RefreshStats, Enqueued
  <2>2. lost' = lost /\ worker' = worker BY <1>5 DEF RefreshStats
  <2> QED BY <1>0, <2>1, <2>2, NewForOne, MovedForOne
<1>6. CASE ScheduleCampaign
  <2> PICK k : k = Job("run", {}, <<>>, FALSE) OBVIOUS
  <2>1. \A j \in jobs' : j \in jobs \/ j = k BY <1>6 DEF ScheduleCampaign, Enqueued
  <2>2. lost' = lost /\ worker' = worker BY <1>6 DEF ScheduleCampaign
  <2>3. ForOne(k) BY NewForOne
  <2> QED BY <1>0, <2>1, <2>2, <2>3, MovedForOne
<1>7. CASE \/ CancelCampaign \/ \E c \in Customers : OptOut(c)
           \/ \E what \in {"no_template", "no_channel"} : Lose(what) \/ Dusk
  <2>1. jobs' \cup lost' \subseteq jobs \cup lost /\ worker' = worker
    BY <1>7 DEF CancelCampaign, OptOut, Lose, Dusk
  <2> QED BY <1>1, <2>1
<1>8. CASE Reap
  <2>1. jobs' \cup lost' \subseteq jobs \cup lost /\ worker' = worker BY <1>8 DEF Reap
  <2> QED BY <1>1, <2>1
<1>9. CASE Dawn
  <2>1. jobs' = {[j EXCEPT !.wait = FALSE] : j \in jobs} /\ lost' = lost /\ worker' = worker
    BY <1>9 DEF Dawn
  <2>2. \A j \in jobs : /\ [j EXCEPT !.wait = FALSE].kind = j.kind
                        /\ [j EXCEPT !.wait = FALSE].of = j.of
                        /\ [j EXCEPT !.wait = FALSE].key = j.key
    BY <1>0 DEF JobType
  <2>3. ASSUME NEW i \in jobs' PROVE ForOne(i)
    <3>1. PICK j \in jobs : i = [j EXCEPT !.wait = FALSE] BY <2>1
    <3>2. i.kind = j.kind /\ i.of = j.of /\ i.key = j.key BY <2>2, <3>1
    <3>3. ForOne(j) BY <1>0 DEF DeliverOne
    <3> QED BY <3>2, <3>3 DEF ForOne
  <2> QED BY <1>0, <2>1, <2>3, MovedForOne
<1>10. CASE UNCHANGED vars
  <2>1. jobs' \cup lost' \subseteq jobs \cup lost /\ worker' = worker BY <1>10 DEF vars
  <2> QED BY <1>1, <2>1
<1> QED BY <1>2, <1>3, <1>4, <1>5, <1>6, <1>7, <1>8, <1>9, <1>10 DEF Next

(***************************************************************************)
(* The theorems                                                            *)
(***************************************************************************)

LEMMA DInvStep == ASSUME CampaignAssumption, DInv, [Next]_vars PROVE DInv'
<1>1. CInv /\ CInv' BY NextKeeps DEF DInv
<1>2. Fits' BY <1>1 DEF CInv
<1>3. \A w \in Workers : HoldsFit(w)' BY <1>2, HoldsStep
<1>4. \A c \in Customers : Bounded(c)' /\ Alone(c)' BY <1>2, CountStep
<1>5. DraftEmpty' /\ DeliverOne' BY DraftStep, ForOneStep
<1> QED BY <1>1, <1>3, <1>4, <1>5 DEF DInv

(* No customer gets a campaign more often than once, plus once per worker   *)
(* lost and, on e-mail, once per answer lost: for any number of customers,  *)
(* workers, losses and nights, whatever a job is interrupted in.            *)
THEOREM DuplicatesStayBounded == ASSUME CampaignAssumption PROVE Spec => []DuplicatesBounded
<1>1. Init => DInv BY DInvInit
<1>2. DInv /\ [Next]_vars => DInv' BY DInvStep
<1>3. DInv => DuplicatesBounded
  <2> SUFFICES ASSUME DInv, NEW c \in Customers PROVE got[c] <= Allowance
    BY DEF DuplicatesBounded, Allowance
  <2>1. IsFiniteSet(Open(c)) BY FS_Subset DEF DInv, Bounded, Open
  <2>2. Cardinality(Open(c)) \in Nat /\ got[c] \in Nat /\ crashes \in Nat /\ losses \in Nat
    BY <2>1, FS_CardinalityType DEF DInv, CInv, Fits, RestTyped
  <2>3. Allowance \in Nat BY <2>2 DEF Allowance
  <2>4. Cardinality(Open(c)) + got[c] <= Allowance BY DEF DInv, Bounded
  <2> QED BY <2>2, <2>3, <2>4
<1> QED BY <1>1, <1>2, <1>3, PTL DEF Spec

(* While no worker has been lost, the message of a customer that was        *)
(* cancelled with the campaign stays cancelled, and nothing arrives: the    *)
(* call of a delivery is about messages that are 'sending', and no other    *)
(* slot can have made them something else.                                  *)
THEOREM CancelledStaysCancelled == ASSUME CampaignAssumption PROVE Spec => CancelledIsFinal
<1>1. Init => DInv BY DInvInit
<1>2. DInv /\ [Next]_vars => DInv' BY DInvStep
<1>3. DInv /\ [Next]_vars =>
        [crashes = 0 => \A c \in Customers :
           message[c] = "cancelled" => message'[c] = "cancelled" /\ got'[c] = got[c]]_vars
  <2> SUFFICES ASSUME DInv, [Next]_vars, crashes = 0, NEW c \in Customers, message[c] = "cancelled"
               PROVE  message'[c] = "cancelled" /\ got'[c] = got[c]
    OBVIOUS
  <2>1. ASSUME NEW w \in Workers, Handler(w) PROVE message'[c] = "cancelled" /\ got'[c] = got[c]
    <3>1. ~ (Holding(w) /\ c \in worker[w].batch) BY DEF DInv, HoldsFit
    <3> QED BY <2>1, <3>1, HandlerMoves
  <2>2. CASE ~ \E w \in Workers : Handler(w) BY <2>2, OthersMove
  <2> QED BY <2>1, <2>2
<1> QED BY <1>1, <1>2, <1>3, PTL DEF Spec, CancelledIsFinal
=============================================================================
