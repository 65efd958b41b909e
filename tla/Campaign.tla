------------------------------ MODULE Campaign ------------------------------
(***************************************************************************)
(* One campaign of modules/messaging: its snapshot of a segment into       *)
(* messages, the dispatch of these messages to LINE (multicast or push) or *)
(* e-mail, their retries, quiet hours, and the staff who cancel it.        *)
(*                                                                         *)
(* Everything is done by jobs.  A job here is what JobQueue shows of one:  *)
(* queued once per key, run by one worker slot at a time, put back when    *)
(* its handler asks for a retry, and run again when its worker is lost.    *)
(* One action is one transaction of a handler, or one call of a provider,  *)
(* so that other workers run in between.                                   *)
(*                                                                         *)
(* LINE accepts a retry key once (providers/line.ts); a mail server does   *)
(* not know one.  An answer of either may be lost although the message was *)
(* accepted.                                                               *)
(***************************************************************************)
EXTENDS Naturals, FiniteSets, Sequences

CONSTANTS
    Customers,    \* the customers of the segment, ordered by their ids
    Workers,      \* worker slots
    Texts,        \* the text each customer's message renders to
    Batch,        \* SNAPSHOT_BATCH
    Page,         \* MULTICAST_LIMIT
    MaxTries,     \* max_attempts of a job
    MaxCrash,     \* bound: workers lost
    CrashKinds,   \* the kinds of job during which a worker may be lost
    MaxFail,      \* bound: provider calls that fail
    MaxNights,    \* bound: nights
    MaxChanges    \* bound: customers, templates and channels that drop out

ASSUME CampaignAssumption ==
    /\ Customers \subseteq Nat \ {0} /\ IsFiniteSet(Customers)
    /\ Batch \in Nat \ {0} /\ Page \in Nat \ {0} /\ MaxTries \in Nat \ {0}
    /\ {MaxCrash, MaxFail, MaxNights, MaxChanges} \subseteq Nat
    /\ DOMAIN Texts = Customers

Kinds == {"run", "dispatch", "multicast", "deliver", "stats"}
MessageStates == {"none", "queued", "sending", "sent", "failed", "skipped", "cancelled"}
Steps == {"idle", "load", "read", "write", "end", "call", "ok", "error", "rejected", "retry"}
Settled == {"sent", "failed", "skipped", "cancelled"}

\* A job: the customers whose messages it is about, the suffix of its dedupe
\* key, whether its run_at is the end of the quiet hours, the attempts made.
\* A multicast has a random retry key in its payload, and no dedupe key.
Job(kind, of, tag, wait) ==
    [kind |-> kind, of |-> of, tag |-> tag, wait |-> wait, key |-> 0, tries |-> 0]
Multicast(of, key) == [Job("multicast", of, <<>>, FALSE) EXCEPT !.key = key]
Stats == Job("stats", {}, <<>>, FALSE)
StatsLater == Job("stats", {}, <<"later">>, FALSE)
DeliverOther(c) == Job("message", {c}, <<>>, FALSE) \* mutant
Deliver(c) == Job("deliver", {c}, <<>>, FALSE)

JobType == [kind : Kinds, of : SUBSET Customers, tag : Seq({"later", "at", "again"}),
            wait : BOOLEAN, key : Nat, tries : Nat]

VARIABLES
    channel,    \* campaigns.channel
    campaign,   \* campaigns.status
    message,    \* per customer, the status of the campaign's message
    jobs,       \* queued jobs
    lost,       \* jobs in state running that no worker runs
    worker,     \* what each slot does
    night,      \* quiet hours
    later,      \* customers whose message has a scheduled_at in the next morning
    account,    \* the campaign's template and LINE channel
    reach,      \* customers that accept marketing on the channel
    keys,       \* retry keys LINE has accepted
    drawn,      \* pages that drew keys for their multicasts
    got,        \* per customer, how many messages of the campaign arrived
    crashes, losses, refusals, nights  \* workers lost, answers lost, calls refused, nights begun

vars == <<channel, campaign, message, jobs, lost, worker, night, later, account, reach,
          keys, drawn, got, crashes, losses, refusals, nights>>

world == <<channel, night, account, reach, nights>>
provider == <<keys, drawn, got, losses, refusals>>

Idle == [pc |-> "idle", job |-> Stats, at |-> 0, batch |-> {}]
Busy(w) == worker[w].pc # "idle"

At(w, pc, kind) == worker[w].pc = pc /\ worker[w].job.kind = kind

\* The handler returns: finish().  A job of which only this is left can be run
\* again without effect, so it is one step with the last transaction.
Return(w) == worker' = [worker EXCEPT ![w] = Idle]

\* The worker's next step; `at` is a paging cursor, `batch` what it holds.
Step(w, pc, at, batch) ==
    worker' = [worker EXCEPT ![w] = [pc |-> pc, job |-> worker[w].job, at |-> at, batch |-> batch]]

\* The suffix of a delivery put off holds its time, so one of an earlier night
\* (which does not wait any more) has another key.
SameKey(i, j) ==
    /\ i.kind = j.kind /\ i.of = j.of /\ i.tag = j.tag /\ i.wait = j.wait
    /\ i.key = j.key \* no two multicasts are the same

\* enqueue(): a key that is queued is not queued again.
Enqueued(queue, new) == queue \cup {j \in new : ~ \E i \in queue : SameKey(i, j)}

Init ==
    /\ channel \in {"line", "email"}
    /\ campaign = "draft"
    /\ message = [c \in Customers |-> "none"]
    /\ jobs = {} /\ lost = {}
    /\ worker = [w \in Workers |-> Idle]
    /\ night = FALSE
    /\ later = {}
    /\ account = "ok"
    /\ reach = Customers
    /\ keys = {} /\ drawn = 0
    /\ got = [c \in Customers |-> 0]
    /\ crashes = 0 /\ losses = 0 /\ refusals = 0 /\ nights = 0

(***************************************************************************)
(* Staff and the world                                                     *)
(***************************************************************************)

ScheduleCampaign ==
    /\ campaign = "draft"
    /\ campaign' = "scheduled"
    /\ jobs' = Enqueued(jobs, {Job("run", {}, <<>>, FALSE)})
    /\ UNCHANGED <<message, lost, worker, later, crashes, world, provider>>

QueuedMessages == {c \in Customers : message[c] = "queued"}

\* cancelQueuedMessages() also drops the queued delivery jobs of what it cancels.
CancelCampaign ==
    /\ campaign \in {"draft", "scheduled", "running"}
    /\ campaign' = "cancelled"
    /\ message' = [c \in Customers |-> IF c \in QueuedMessages THEN "cancelled" ELSE message[c]]
    /\ jobs' = {j \in jobs : /\ j.kind # "run"
                             /\ j.kind = "deliver" => j.of \cap QueuedMessages = {}}
    /\ UNCHANGED <<lost, worker, later, crashes, world, provider>>

Changes == Cardinality(Customers \ reach) + IF account = "ok" THEN 0 ELSE 1

\* A customer opts out, or is merged, blocked or deleted.
OptOut(c) ==
    /\ c \in reach /\ Changes < MaxChanges
    /\ reach' = reach \ {c}
    /\ UNCHANGED <<channel, campaign, message, jobs, lost, worker, night, later, account, crashes, nights, provider>>

\* Staff delete the template, or switch the LINE channel off.
Lose(what) ==
    /\ account = "ok" /\ Changes < MaxChanges /\ (what = "no_channel" => channel = "line")
    /\ account' = what
    /\ UNCHANGED <<channel, campaign, message, jobs, lost, worker, night, later, reach, crashes, nights, provider>>

Dusk ==
    /\ ~ night /\ nights < MaxNights
    /\ night' = TRUE /\ nights' = nights + 1
    /\ UNCHANGED <<channel, campaign, message, jobs, lost, worker, later, account, reach, crashes, provider>>

\* Jobs whose run_at is the end of the quiet hours become due.
Dawn ==
    /\ night
    /\ night' = FALSE /\ later' = {}
    /\ jobs' = {[j EXCEPT !.wait = FALSE] : j \in jobs}
    /\ UNCHANGED <<channel, campaign, message, lost, worker, account, reach, crashes, nights, provider>>

(***************************************************************************)
(* Workers                                                                 *)
(***************************************************************************)

\* JobQueue!Claim.
Claim(w, kind) ==
    /\ ~ Busy(w)
    /\ \E j \in jobs :
        /\ j.kind = kind /\ ~ j.wait
        /\ jobs' = jobs \ {j}
        /\ worker' = [worker EXCEPT ![w] = [pc |-> "load", job |-> [j EXCEPT !.tries = @ + 1],
                                            at |-> 0, batch |-> {}]]
    /\ UNCHANGED <<campaign, message, lost, later, crashes, world, provider>>

\* finish(): the handler threw a RetryLaterError with attempts left.  When a
\* newer job of the key is queued the update fails and the job stays running.
Retry(w) ==
    /\ worker[w].pc = "retry"
    /\ worker' = [worker EXCEPT ![w] = Idle]
    /\ LET j == worker[w].job IN
       IF \E i \in jobs : SameKey(i, j)
       THEN lost' = lost \cup {j} /\ UNCHANGED jobs
       ELSE jobs' = jobs \cup {j} /\ UNCHANGED lost
    /\ UNCHANGED <<campaign, message, later, crashes, world, provider>>

Crash(w) ==
    /\ Busy(w) /\ worker[w].job.kind \in CrashKinds
    /\ crashes < MaxCrash /\ crashes' = crashes + 1
    /\ worker' = [worker EXCEPT ![w] = Idle]
    /\ lost' = lost \cup {worker[w].job}
    /\ UNCHANGED <<campaign, message, jobs, later, world, provider>>

\* reapStaleJobs(): one update for all jobs that count as stale by now; two
\* rows of one key make it fail.
Reap ==
    \E stale \in SUBSET lost \ {{}} :
        /\ \A j \in stale : ~ \E i \in (jobs \cup stale) \ {j} : SameKey(i, j)
        /\ lost' = lost \ stale
        /\ jobs' = jobs \cup stale
        /\ UNCHANGED <<campaign, message, worker, later, crashes, world, provider>>

(***************************************************************************)
(* campaign.run                                                            *)
(***************************************************************************)

\* P holds the n first members of S beyond a cursor, or all of them if fewer.
IsPage(P, S, at, n) ==
    LET beyond == {c \in S : c > at} IN
    /\ P \subseteq beyond
    /\ \A c \in P, d \in beyond : d < c => d \in P
    /\ IF Cardinality(beyond) <= n THEN P = beyond ELSE Cardinality(P) = n

\* A full page: the cursor moves to its last row, and the loop goes on.
Further(w, pc, P, n) ==
    /\ Cardinality(P) >= n
    /\ \E last \in P : (\A c \in P : c <= last) /\ Step(w, pc, last, {})

\* Only the first run of the job finds the campaign 'scheduled'.
StartCampaign(w) ==
    /\ At(w, "load", "run")
    /\ IF campaign = "scheduled"
       THEN campaign' = "running" /\ Step(w, "read", 0, {})
       ELSE UNCHANGED campaign /\ Return(w)
    /\ UNCHANGED <<message, jobs, lost, later, crashes, world, provider>>

\* The batch is chosen under a status read without a lock ...
SnapshotRead(w) ==
    /\ At(w, "read", "run")
    /\ IF campaign = "running"
       THEN \E P \in SUBSET Customers : /\ IsPage(P, Customers, worker[w].at, Batch)
                                       /\ Step(w, "write", worker[w].at, P)
       ELSE Step(w, "end", 0, {})
    /\ UNCHANGED <<campaign, message, jobs, lost, later, crashes, world, provider>>

\* ... and inserted whatever became of the campaign since.
SnapshotWrite(w) ==
    /\ At(w, "write", "run")
    /\ LET batch == worker[w].batch IN
        /\ message' = [c \in Customers |-> IF c \in batch /\ message[c] = "none" THEN "queued" ELSE message[c]]
        /\ \/ Cardinality(batch) < Batch /\ Step(w, "end", 0, {})
           \/ Further(w, "read", batch, Batch)
    /\ UNCHANGED <<campaign, jobs, lost, later, crashes, world, provider>>

EndSnapshot(w) ==
    /\ At(w, "end", "run")
    /\ jobs' = Enqueued(jobs, {Job("dispatch", {}, <<>>, FALSE)})
    /\ Return(w)
    /\ UNCHANGED <<campaign, message, lost, later, crashes, world, provider>>

(***************************************************************************)
(* campaign.dispatch                                                       *)
(***************************************************************************)

\* prepareDelivery() of a marketing message.
Prepared(c) ==
    IF c \notin reach \/ account = "no_channel" THEN "skip"
    ELSE IF night THEN "defer"
    ELSE IF account = "no_template" THEN "fail"
    ELSE "send"

\* What becomes of one page of queued messages: the jobs it leaves behind.
Multicasts(page) ==
    LET sent == {c \in page : Prepared(c) = "send" /\ channel = "line"}
    IN  {{d \in sent : Texts[d] = Texts[c]} : c \in sent}

\* randomUUID() for each multicast: a number no other page draws, with the group.
PageJobs(page) ==
    LET groups == Multicasts(page) IN
    {Stats : c \in {d \in page : Prepared(d) = "skip"}}
    \cup {Job("deliver", {c}, <<"at">>, TRUE) : c \in {d \in page : Prepared(d) = "defer"}}
    \cup {Deliver(c) : c \in {d \in page : Prepared(d) \in {"send", "fail"} /\ d \notin UNION groups}}
    \cup {Deliver(c) : c \in {d \in page : {d} \in groups}}
    \cup {Multicast(g, drawn + 1) : g \in {h \in groups : Cardinality(h) > 1}}

\* Message ids are random: any order of the customers will do for paging.
DispatchPage(w) ==
    /\ At(w, "load", "dispatch")
    /\ \/ /\ campaign # "running"
          /\ Step(w, "end", 0, {})
          /\ UNCHANGED <<message, later, jobs, drawn>>
       \/ /\ campaign = "running"
          /\ \E page \in SUBSET Customers :
              /\ IsPage(page, QueuedMessages, worker[w].at, Page)
              /\ message' = [c \in Customers |->
                     IF c \in page /\ Prepared(c) = "skip" THEN "skipped"
                     ELSE IF c \in UNION Multicasts(page) THEN "sending"
                     ELSE message[c]]
              /\ later' = later \cup {c \in page : Prepared(c) = "defer"}
              /\ jobs' = Enqueued(jobs, PageJobs(page))
              /\ drawn' = IF \E j \in PageJobs(page) : j.kind = "multicast" THEN drawn + 1 ELSE drawn
              /\ \/ Cardinality(page) < Page /\ Step(w, "end", 0, {})
                 \/ Further(w, "load", page, Page)
    /\ UNCHANGED <<campaign, lost, crashes, world, keys, got, losses, refusals>>

EndDispatch(w) ==
    /\ At(w, "end", "dispatch")
    /\ jobs' = Enqueued(jobs, {Stats})
    /\ Return(w)
    /\ UNCHANGED <<campaign, message, lost, later, crashes, world, provider>>

(***************************************************************************)
(* campaign.stats                                                          *)
(***************************************************************************)

PendingQueued == {c \in Customers : message[c] = "queued"} \* mutant

\* liveStats().queued
Pending == {c \in Customers : message[c] \in {"queued", "sending"}}

\* The job is one transaction, which is one step with its claim.
RefreshStats(w) ==
    /\ ~ Busy(w)
    /\ \E j \in jobs :
        /\ j.kind = "stats"
        /\ \/ /\ campaign \notin {"running", "completed"}
              /\ jobs' = jobs \ {j} /\ UNCHANGED campaign
           \/ /\ campaign \in {"running", "completed"} /\ Pending = {}
              /\ jobs' = jobs \ {j} /\ campaign' = "completed"
           \/ /\ campaign \in {"running", "completed"} /\ Pending # {}
              /\ jobs' = Enqueued(jobs \ {j}, {StatsLater}) /\ UNCHANGED campaign
    /\ UNCHANGED <<message, lost, worker, later, crashes, world, provider>>

(***************************************************************************)
(* message.deliver and line.multicast                                      *)
(***************************************************************************)

Settle(S, status) == message' = [c \in Customers |-> IF c \in S THEN status ELSE message[c]]

DeliverableUnlessFailed(c) == message[c] \in {"queued", "sending", "cancelled"} \* mutant
Deliverable(c) == message[c] \in {"queued", "sending"}

\* What the load transaction of deliverMessage() decides; a message whose
\* scheduled_at is still to come has been woken early.
Loaded(c) ==
    IF ~ Deliverable(c) THEN "none"
    ELSE IF message[c] = "queued" /\ c \in later THEN "defer"
    ELSE Prepared(c)

LoadMessage(w) ==
    /\ At(w, "load", "deliver")
    /\ \E c \in worker[w].job.of :
        \/ /\ Loaded(c) = "none"
           /\ Return(w) /\ UNCHANGED <<message, later, jobs>>
        \/ /\ Loaded(c) = "skip" /\ Settle({c}, "skipped") /\ jobs' = Enqueued(jobs, {Stats})
           /\ Return(w) /\ UNCHANGED later
        \/ /\ Loaded(c) = "fail" /\ Settle({c}, "failed") /\ jobs' = Enqueued(jobs, {Stats})
           /\ Return(w) /\ UNCHANGED later
        \/ /\ Loaded(c) = "defer" /\ later' = later \cup {c}
           /\ jobs' = Enqueued(jobs, {Job("deliver", {c}, Append(worker[w].job.tag, "again"), night)})
           /\ Return(w) /\ UNCHANGED message
        \/ /\ Loaded(c) = "send" /\ Settle({c}, "sending")
           /\ Step(w, "call", 0, {c}) /\ UNCHANGED <<later, jobs>>
    /\ UNCHANGED <<campaign, lost, crashes, world, provider>>

\* The load transaction of line.multicast, which takes no lock.
LoadBatch(w) ==
    /\ At(w, "load", "multicast")
    /\ LET batch == {c \in worker[w].job.of : message[c] = "sending"} IN
        \/ /\ batch = {}
           /\ Return(w) /\ UNCHANGED <<message, jobs>>
        \/ /\ batch # {} /\ account = "no_channel"
           /\ Settle(batch, "failed") /\ jobs' = Enqueued(jobs, {Stats}) /\ Return(w)
        \/ /\ batch # {} /\ account # "no_channel"
           /\ Step(w, "call", 0, batch) /\ UNCHANGED <<message, jobs>>
    /\ UNCHANGED <<campaign, lost, later, crashes, world, provider>>

Calls(w) == worker[w].pc = "call"

RetryKeyOfAttempt(w) == <<worker[w].job.of, worker[w].job.tries>> \* mutant

\* The X-Line-Retry-Key: the id of the message, or the key of the multicast.
RetryKey(w) == <<worker[w].job.of, worker[w].job.key>>

Arrives(w) ==
    /\ got' = IF channel = "line" /\ RetryKey(w) \in keys THEN got
              ELSE [c \in Customers |-> IF c \in worker[w].batch THEN got[c] + 1 ELSE got[c]]
    /\ keys' = IF channel = "line" THEN keys \cup {RetryKey(w)} ELSE keys

Accepted(w) ==
    /\ Calls(w) /\ Arrives(w)
    /\ Step(w, "ok", 0, worker[w].batch)
    /\ UNCHANGED <<campaign, message, jobs, lost, later, drawn, losses, refusals, crashes, world>>

\* The message was accepted, the call times out.
AnswerLost(w) ==
    /\ Calls(w) /\ losses + refusals < MaxFail /\ losses' = losses + 1
    /\ Arrives(w)
    /\ Step(w, "error", 0, worker[w].batch)
    /\ UNCHANGED <<campaign, message, jobs, lost, later, drawn, refusals, crashes, world>>

\* 429, 5xx, the network; of a mail server every error.  Only LINE rejects.
Refused(w, how) ==
    /\ Calls(w) /\ losses + refusals < MaxFail /\ refusals' = refusals + 1
    /\ how = "rejected" => channel = "line"
    /\ Step(w, how, 0, worker[w].batch)
    /\ UNCHANGED <<campaign, message, jobs, lost, later, keys, drawn, got, losses, crashes, world>>

\* The last transaction, by the outcome of the call.  markSent() and
\* markFailed() write by id, whatever the status is by now.
Outcome(w, pc) == worker[w].pc = pc /\ worker[w].job.kind \in {"deliver", "multicast"}

CanRetryOnceMore(w) == worker[w].pc = "error" /\ worker[w].job.tries <= MaxTries \* mutant
CanRetry(w) == worker[w].pc = "error" /\ worker[w].job.tries < MaxTries

MarkSent(w) ==
    /\ Outcome(w, "ok")
    /\ Settle(worker[w].batch, "sent")
    /\ jobs' = Enqueued(jobs, {Stats})
    /\ Return(w)
    /\ UNCHANGED <<campaign, lost, later, crashes, world, provider>>

BackToQueueAll(w) == worker[w].batch \* mutant

\* A delivery goes back to 'queued'; the batch of a multicast stays 'sending'.
BackToQueue(w) ==
    IF worker[w].job.kind = "deliver" THEN {c \in worker[w].batch : message[c] = "sending"} ELSE {}

AwaitRetry(w) ==
    /\ Outcome(w, "error") /\ CanRetry(w)
    /\ Settle(BackToQueue(w), "queued")
    /\ Step(w, "retry", 0, {})
    /\ UNCHANGED <<campaign, jobs, lost, later, crashes, world, provider>>

MarkFailed(w) ==
    /\ \E pc \in {"error", "rejected"} : Outcome(w, pc)
    /\ ~ CanRetry(w)
    /\ Settle(worker[w].batch, "failed")
    /\ jobs' = Enqueued(jobs, {Stats})
    /\ Return(w)
    /\ UNCHANGED <<campaign, lost, later, crashes, world, provider>>

(***************************************************************************)
(* Specification                                                           *)
(***************************************************************************)

Handler(w) ==
    \/ StartCampaign(w) \/ SnapshotRead(w) \/ SnapshotWrite(w) \/ EndSnapshot(w)
    \/ DispatchPage(w) \/ EndDispatch(w)
    \/ LoadMessage(w) \/ LoadBatch(w)
    \/ Accepted(w) \/ AnswerLost(w) \/ \E how \in {"error", "rejected"} : Refused(w, how)
    \/ MarkSent(w) \/ AwaitRetry(w) \/ MarkFailed(w)
    \/ Retry(w)

Next ==
    \/ ScheduleCampaign \/ CancelCampaign
    \/ \E c \in Customers : OptOut(c)
    \/ \E what \in {"no_template", "no_channel"} : Lose(what)
    \/ Dusk \/ Dawn \/ Reap
    \/ \E w \in Workers : Handler(w) \/ Crash(w) \/ RefreshStats(w) \/ \E kind \in Kinds \ {"stats"} : Claim(w, kind)

Spec == Init /\ [][Next]_vars

\* Slots poll, handlers run to their end, locks age, the night passes.  Strong
\* fairness: campaign.stats comes back for ever, and does not keep a slot that
\* is free again and again from the other jobs, nor they from it.
FairSpec ==
    /\ Spec
    /\ WF_vars(Dawn) /\ WF_vars(Reap)
    /\ \A w \in Workers : WF_vars(Handler(w))
    /\ SF_vars(\E w \in Workers, kind \in Kinds \ {"stats"} : Claim(w, kind))
    /\ SF_vars(\E w \in Workers : RefreshStats(w))

(***************************************************************************)
(* Properties                                                              *)
(***************************************************************************)

TypeOK ==
    /\ channel \in {"line", "email"}
    /\ campaign \in {"draft", "scheduled", "running", "completed", "cancelled"}
    /\ message \in [Customers -> MessageStates]
    /\ jobs \subseteq JobType /\ lost \subseteq JobType
    /\ worker \in [Workers -> [pc : Steps, job : JobType, at : Nat, batch : SUBSET Customers]]
    /\ night \in BOOLEAN /\ later \subseteq Customers /\ reach \subseteq Customers
    /\ account \in {"ok", "no_template", "no_channel"}
    /\ keys \subseteq (SUBSET Customers) \X Nat /\ drawn \in Nat /\ got \in [Customers -> Nat]
    /\ {crashes, losses, refusals, nights} \subseteq Nat

\* max_attempts bounds the attempts of a job, those cut short by a crash aside.
AttemptsBounded ==
    /\ \A j \in jobs \cup lost : j.tries < MaxTries + crashes
    /\ \A w \in Workers : worker[w].job.tries <= MaxTries + crashes

\* A customer gets a campaign again only where a worker was lost or a mail
\* server's answer was: LINE's retry key makes up for a lost answer.
DuplicatesBounded ==
    \A c \in Customers : got[c] <= 1 + crashes + IF channel = "line" THEN 0 ELSE losses

\* 'completed' says that every customer of the segment is dealt with.
CompletedIsSettled ==
    campaign = "completed" => \A c \in Customers : message[c] \in Settled

\* A message that was cancelled with its campaign is never sent after all, as
\* long as no lost worker makes two deliveries of it.
CancelledIsFinal ==
    [][crashes = 0 => \A c \in Customers :
           message[c] = "cancelled" => message'[c] = "cancelled" /\ got'[c] = got[c]]_vars

\* A campaign that started comes to an end, through retries, nights and
\* workers lost during its dispatch.
CampaignEnds == (campaign = "running") ~> (campaign \in {"completed", "cancelled"})

\* "A retry after a crash never duplicates the message" (delivery.ts).
LineSentOnce == channel = "line" => \A c \in Customers : got[c] <= 1
=============================================================================
