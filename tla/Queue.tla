------------------------------- MODULE Queue -------------------------------
(***************************************************************************)
(* The durable delivery queue (opscheck/queue.py): every public operation  *)
(* is one BEGIN IMMEDIATE transaction on the shared SQLite database, so    *)
(* one step here, and any number of workers, operators and observers may   *)
(* interleave them.  Jobs are created by enqueue, leased to workers with a *)
(* fencing token, renewed, settled from the state of their workflow run,   *)
(* retried with backoff, dead-lettered and replayed.                       *)
(*                                                                         *)
(* Job, event and run j belong together: an event reserves one run and has *)
(* at most one job.  Jobs are numbered in the order of (created_at, id).   *)
(* The workflow (run) and the ingestion of an event (event, processing)    *)
(* are the queue's environment and take the steps their modules allow.     *)
(***************************************************************************)
EXTENDS EventStore, QueueStore, FiniteSets

CONSTANTS
    MaxJobs,        \* how many events there are
    Priorities,     \* priorities enqueue is called with
    Limits,         \* max_attempts enqueue and replay are called with
    Durations,      \* lease durations, in ticks of the model's clock
    MaxClaims,      \* bound: lifetime attempts of a job
    MaxReplays      \* bound: replays of a job

ASSUME QueueConstants ==
    /\ MaxJobs \in Nat
    /\ Priorities \subseteq Int
    /\ Limits \subseteq 1..10
    /\ Durations \subseteq Nat \ {0}
    /\ MaxClaims \in Nat
    /\ MaxReplays \in Nat

Jobs == 1..MaxJobs

VARIABLES
    queue,          \* queue[j]: the job's row and its attempts
    run,            \* run[j]: the workflow run reserved for event j
    event,          \* event[j]: the ingestion event
    processing,     \* processing[j]: what a process does with event j's claim
    live            \* live[j]: tokens whose worker is still at work

vars == <<queue, run, event, processing, live>>

(* executing the workflow, or about to synchronize after it failed          *)
Phases == {"idle", "executing", "closing"}

TypeOK ==
    /\ queue \in [Jobs -> Job]
    /\ run \in [Jobs -> Run]
    /\ event \in [Jobs -> Event]
    /\ processing \in [Jobs -> Phases]
    /\ live \in [Jobs -> SUBSET Nat]

Init ==
    /\ queue = [j \in Jobs |-> Absent]
    /\ run = [j \in Jobs |-> NoRun]
    /\ event = [j \in Jobs |-> NewEvent]
    /\ processing = [j \in Jobs |-> "idle"]
    /\ live = [j \in Jobs |-> {}]

----------------------------------------------------------------------------
(* Time *)

(* Times to come draw nearer; times gone by keep only their order, which is *)
(* all that the queue's selection compares.                                 *)
AgedAvail(f, t) ==
    IF t > 0 THEN t - 1
    ELSE 0 - Cardinality({k \in Jobs : f[k].status = "QUEUED" /\ t <= f[k].avail /\ f[k].avail <= 0})

Aged(f) ==
    [j \in Jobs |->
        [f[j] EXCEPT !.lease = IF @ > 0 THEN @ - 1 ELSE 0,
                     !.avail = AgedAvail(f, @)]]

Tick ==
    /\ queue' = Aged(queue)
    /\ UNCHANGED <<run, event, processing, live>>

----------------------------------------------------------------------------
(* Reconciliation with the workflow, shared by every operation.             *)

(* event_store.synchronize, which ends in queue_store.synchronize with no   *)
(* cutoff: leased jobs are left alone                                       *)
Publish(q, r) == SyncJob(q, r, FALSE)

(* followed by queue_store.synchronize with the current time as cutoff      *)
Reconcile(q, r) == SyncJob(Publish(q, r), r, TRUE)

(* faulty: only the queue is synchronized                                   *)
SyncQueueOnly == event' = event

SyncEvents == event' = [j \in Jobs |-> SyncEvent(event[j], run[j])]

SyncEventOf(j) == event' = [event EXCEPT ![j] = SyncEvent(@, run[j])]

(* event_store.synchronize for one run                                      *)
Synchronized(j) ==
    /\ SyncEventOf(j)
    /\ queue' = [queue EXCEPT ![j] = Publish(@, run[j])]

(* _publish_result, inspect_run, a duplicate enqueue                        *)
PublishRun(j) ==
    /\ run[j] # NoRun
    /\ Synchronized(j)
    /\ UNCHANGED <<run, processing, live>>

(* event_store.synchronize for all runs: _process before it reads its event,*)
(* inspect_event, list_events                                               *)
PublishAll ==
    /\ SyncEvents
    /\ queue' = [j \in Jobs |-> Publish(queue[j], run[j])]
    /\ UNCHANGED <<run, processing, live>>

(* inspect_job, list_jobs                                                   *)
Observe ==
    /\ SyncEvents
    /\ queue' = [j \in Jobs |-> Reconcile(queue[j], run[j])]
    /\ UNCHANGED <<run, processing, live>>

----------------------------------------------------------------------------
(* The operations of the queue *)

(* enqueue of an event without a job, after its receipt; the queue is       *)
(* synchronized by event_store.synchronize and once more by enqueue         *)
Enqueue(j, priority, max) ==
    /\ queue[j].status = "ABSENT"
    /\ \A i \in 1..(j-1) : queue[i].status # "ABSENT"
    /\ SyncEventOf(j)
    /\ queue' = [queue EXCEPT ![j] = Publish(Publish(NewJob(priority, max), run[j]), run[j])]
    /\ UNCHANGED <<run, processing, live>>

(* A claim reads the clock twice.  The first reading is the one cutoff for  *)
(* reconciling and for expiring; the clock may have advanced (late) when    *)
(* the jobs to expire are failed and the second reading, the boundary of    *)
(* the selection, is taken.                                                 *)
(* faulty: leases are expired up to the second reading                      *)
SweptTwice(late) ==
    LET synced == [j \in Jobs |-> Reconcile(queue[j], run[j])]
        then   == IF late THEN Aged(synced) ELSE synced
    IN  [j \in Jobs |-> IF then[j].status = "LEASED" /\ then[j].lease = 0
                        THEN Failure(then[j], Expired) ELSE then[j]]

Swept(late) ==
    LET synced  == [j \in Jobs |-> Reconcile(queue[j], run[j])]
        expired == {j \in Jobs : synced[j].status = "LEASED" /\ synced[j].lease = 0}
        then    == IF late THEN Aged(synced) ELSE synced
    IN  [j \in Jobs |-> IF j \in expired THEN Failure(then[j], Expired) ELSE then[j]]

Eligible(f) == {j \in Jobs : /\ f[j].status = "QUEUED"
                             /\ f[j].avail <= 0
                             /\ f[j].budget < f[j].max}

(* ORDER BY priority DESC, available_at, created_at, id                     *)
Precedes(f, j, k) ==
    \/ f[j].priority > f[k].priority
    \/ f[j].priority = f[k].priority /\ f[j].avail < f[k].avail
    \/ f[j].priority = f[k].priority /\ f[j].avail = f[k].avail /\ j <= k

ClaimNone(late) ==
    /\ Eligible(Swept(late)) = {}
    /\ SyncEvents
    /\ queue' = Swept(late)
    /\ UNCHANGED <<run, processing, live>>

Claim(j, duration, late) ==
    /\ j \in Eligible(Swept(late))
    /\ \A k \in Eligible(Swept(late)) : Precedes(Swept(late), j, k)
    /\ queue[j].attempts < MaxClaims
    /\ SyncEvents
    /\ queue' = [Swept(late) EXCEPT ![j] = Lease(@, duration)]
    /\ live' = [live EXCEPT ![j] = @ \cup {queue'[j].token}]
    /\ UNCHANGED <<run, processing>>

(* renew the lease, or record its loss and be refused                       *)
Renewed(q, duration) == [q EXCEPT !.lease = IF duration > @ THEN duration ELSE @]

Heartbeat(j, t, duration) ==
    /\ t \in live[j]
    /\ queue' = [queue EXCEPT ![j] = IF Owned(@, t) THEN Renewed(@, duration)
                                     ELSE MarkLost(@, t)]
    /\ UNCHANGED <<run, event, processing, live>>

(* The outcome of an owned delivery is read from the run; what the worker   *)
(* reports (how) matters only when the run is at no checkpoint.             *)
(* faulty: a worker's word is taken for the run's                           *)
SettledAsReported(q, r, how) ==
    IF r.status \in Checkpoints THEN Settle(q, r.status)
    ELSE IF how = Plain THEN Settle(q, "SUCCEEDED")
    ELSE Failure(q, [how EXCEPT !.terminal = @ \/ r.limit])

Settled(q, r, how) ==
    IF r.status \in Checkpoints THEN Settle(q, r.status)
    ELSE Failure(q, [how EXCEPT !.terminal = @ \/ r.limit])

Finish(j, t, how) ==
    /\ t \in live[j]
    /\ IF Owned(queue[j], t)
       THEN /\ SyncEventOf(j)
            /\ queue' = [queue EXCEPT ![j] = Settled(Publish(@, run[j]), run[j], how)]
       ELSE /\ queue' = [queue EXCEPT ![j] = MarkLost(@, t)]
            /\ UNCHANGED event
    /\ live' = [live EXCEPT ![j] = @ \ {t}]
    /\ UNCHANGED <<run, processing>>

(* replay; a refusal rolls the transaction back                             *)
Reset(q, max) ==
    [q EXCEPT !.status = "QUEUED", !.budget = 0, !.max = max, !.avail = 0,
              !.replays = @ + 1]

Replay(j, max) ==
    LET synced == [i \in Jobs |-> Reconcile(queue[i], run[i])]
    IN  /\ synced[j].status = "DEAD_LETTER" /\ synced[j].replayable
        /\ queue[j].replays < MaxReplays
        /\ SyncEvents
        /\ queue' = [synced EXCEPT ![j] = Reset(@, max)]
        /\ UNCHANGED <<run, processing, live>>

(* a worker process dies; what it committed stays                           *)
WorkerStops(j, t) ==
    /\ t \in live[j]
    /\ live' = [live EXCEPT ![j] = @ \ {t}]
    /\ UNCHANGED <<queue, run, event, processing>>

----------------------------------------------------------------------------
(* The environment: ingestion of event j and the workflow run j.            *)

(* _claim of ingestion.py, by delivery, ingest or retry-event, once         *)
(* _process found the event unfinished; the event's lock admits one.  That  *)
(* a failed event is retryable was read in an earlier transaction, and the  *)
(* compare-and-set compares only the status: any failed event may be        *)
(* claimed.                                                                 *)
EventClaim(j) ==
    /\ processing[j] = "idle"
    /\ event[j].status \notin {"WAITING_FOR_APPROVAL", "COMPLETED"}
    /\ event' = [event EXCEPT ![j] = [status |-> "CLAIMED", retryable |-> FALSE]]
    /\ processing' = [processing EXCEPT ![j] = "executing"]
    /\ UNCHANGED <<queue, run, live>>

(* _execute raised: the failure is saved before the last synchronization    *)
EventFail(j) ==
    /\ processing[j] = "executing"
    /\ event' = [event EXCEPT ![j] = [status |-> "FAILED", retryable |-> TRUE]]
    /\ processing' = [processing EXCEPT ![j] = "closing"]
    /\ UNCHANGED <<queue, run, live>>

(* the last transaction of _process                                         *)
EventEnd(j) ==
    /\ processing[j] # "idle"
    /\ Synchronized(j)
    /\ processing' = [processing EXCEPT ![j] = "idle"]
    /\ UNCHANGED <<run, live>>

(* the run's lock is busy, which a delivery passes on, or the process dies  *)
EventDropped(j) ==
    /\ processing[j] # "idle"
    /\ processing' = [processing EXCEPT ![j] = "idle"]
    /\ UNCHANGED <<queue, run, event, live>>

(* a committed transaction of the workflow; only the executor of the        *)
(* reservation creates the run                                              *)
Workflow(j) ==
    /\ \E r \in Run : /\ RunStep(run[j], r)
                      /\ run' = [run EXCEPT ![j] = r]
    /\ run[j] = NoRun => processing[j] = "executing"
    /\ UNCHANGED <<queue, event, processing, live>>

----------------------------------------------------------------------------
(* what a worker may report                                                 *)
Reports == {Plain, Terminal, Busy}

Next ==
    \/ Tick
    \/ Observe
    \/ PublishAll
    \/ \E late \in BOOLEAN : ClaimNone(late)
    \/ \E j \in Jobs :
        \/ PublishRun(j)
        \/ EventClaim(j)
        \/ EventFail(j)
        \/ EventEnd(j)
        \/ EventDropped(j)
        \/ Workflow(j)
        \/ \E priority \in Priorities, max \in Limits : Enqueue(j, priority, max)
        \/ \E duration \in Durations, late \in BOOLEAN : Claim(j, duration, late)
        \/ \E max \in Limits : Replay(j, max)
        \/ \E t \in live[j] :
            \/ WorkerStops(j, t)
            \/ \E duration \in Durations : Heartbeat(j, t, duration)
            \/ \E how \in Reports : Finish(j, t, how)

Spec == Init /\ [][Next]_vars

----------------------------------------------------------------------------
(* Invariants *)

(* At every moment each job has at most one attempt under way, and the      *)
(* token that fences it is the one handed out last (claim, end_attempt and  *)
(* the CHECK of queue_jobs); workers hold only tokens that were issued.     *)
LeaseShape ==
    \A j \in Jobs : WellLeased(queue[j]) /\ live[j] \subseteq 1..Len(queue[j].history)

(* A queued job can still be delivered, a leased one was charged for its    *)
(* delivery, and a dead letter that may be replayed has used up its budget: *)
(* no job waits for ever with nothing left to spend (claim's selection      *)
(* skips a job with budget_attempts = max_attempts).                        *)
BudgetBound == \A j \in Jobs : WithinBudget(queue[j])

(* The budget spent is the number of attempts of the current replay         *)
(* generation that were not deferred because the run was busy.              *)
Charged(q) == {n \in 1..Len(q.history) : /\ q.history[n].replay = q.replays
                                         /\ q.history[n].outcome # "DEFERRED"}

BudgetAccounting ==
    \A j \in Jobs : queue[j].budget = Cardinality(Charged(queue[j]))

(* A job or an event never claims more than its run has reached, whatever   *)
(* workers report and whenever the records are synchronized.                *)
NeverAheadOfRun ==
    \A j \in Jobs :
        /\ queue[j].status = "SUCCEEDED" => run[j].status = "SUCCEEDED"
        /\ queue[j].status = "WAITING_FOR_APPROVAL" => run[j].asked
        /\ event[j].status = "COMPLETED" => run[j].status = "SUCCEEDED"
        /\ event[j].status = "WAITING_FOR_APPROVAL" => run[j].asked

(* An event that failed stays open to an explicit retry until the human     *)
(* revisions of its run are used up.                                        *)
RetryStaysOpen ==
    \A j \in Jobs : event[j].status = "FAILED" /\ ~ event[j].retryable => run[j].limit

(* What jobs and events say of the work fits what the run has reached:      *)
(* nothing ahead of it, and nothing closed that it leaves open.             *)
RecordsAgree == NeverAheadOfRun /\ RetryStaysOpen

----------------------------------------------------------------------------
(* Action properties *)

(* An unexpired lease ends only by the settlement of the live worker that   *)
(* holds its token: no other worker, observer, publication, replay or claim *)
(* ends it, whatever the run has reached.                                   *)
LeaseExclusive ==
    [][\A j \in Jobs :
          queue[j].lease > 0 /\ queue'[j].token # queue[j].token
          => queue[j].token \in live[j] \ live'[j]]_vars

(* A token that no longer owns its job never owns it again: a late renewal  *)
(* does not revive an expired lease, and no later claim hands out a token   *)
(* that some worker still holds (heartbeat, claim, _owned).                 *)
LeaseNeverRevived ==
    [][\A j \in Jobs : \A t \in 1..Len(queue[j].history) :
          queue'[j].token = t /\ queue'[j].lease > 0
          => queue[j].token = t /\ queue[j].lease > 0]_vars

(* Once a run is at a checkpoint its job only moves to that checkpoint: it  *)
(* is not charged, requeued, dead-lettered or delivered again, even when a  *)
(* lease expires in the middle of a claim.                                  *)
CheckpointPrevails ==
    [][\A j \in Jobs :
          run[j].status \in Checkpoints /\ queue'[j].status # queue[j].status
          => queue'[j].status = run[j].status]_vars

(* Once human revisions are used up the job only ever becomes a dead letter *)
(* for good: no replay and no further delivery.                             *)
RevisionLimitPrevails ==
    [][\A j \in Jobs :
          run[j].limit /\ queue'[j].status # queue[j].status
          => queue'[j].status = "DEAD_LETTER"]_vars

(* Where the run has come to a rest, that decides its job, whatever the     *)
(* delivery went through.                                                   *)
RunPrevails == CheckpointPrevails /\ RevisionLimitPrevails

(* The history of attempts only grows, and what an attempt ended with is    *)
(* never rewritten, not even by its own stale worker.                       *)
HistoryKept ==
    [][\A j \in Jobs :
          /\ Len(queue[j].history) <= Len(queue'[j].history)
          /\ \A n \in 1..Len(queue[j].history) :
                /\ queue'[j].history[n].replay = queue[j].history[n].replay
                /\ queue[j].history[n].outcome # "RUNNING"
                   => queue'[j].history[n].outcome = queue[j].history[n].outcome]_vars

(* A job that failed, was deferred or expired goes behind every job of its  *)
(* priority that was already due: it cannot be handed out again before them.*)
RequeuedGoesBehind ==
    [][\A j, k \in Jobs :
          /\ queue[j].status = "LEASED" /\ queue'[j].status = "QUEUED"
          /\ queue[k].status = "QUEUED" /\ queue'[k].status = "QUEUED"
          /\ queue[k].avail < 0 /\ queue[k].priority >= queue[j].priority
          => ~ Precedes(queue', j, k)]_vars

(* A delivery that failed is charged, and the job waits for a second after  *)
(* the first charge, twice as long after each further one, but never longer *)
(* than a minute (the exponent in failure counts from the charged budget).  *)
FailureBacksOff ==
    [][\A j \in Jobs :
          LET t == queue[j].token
          IN  /\ t # NoToken
              /\ queue'[j].history[t].outcome = "FAILED"
              /\ queue'[j].status = "QUEUED"
              => /\ queue'[j].budget = Cardinality(Charged(queue'[j]))
                 /\ queue'[j].avail = IF Cardinality(Charged(queue'[j])) > 6 THEN 60
                                      ELSE 2 ^ (Cardinality(Charged(queue'[j])) - 1)]_vars

----------------------------------------------------------------------------
(* docs/ARCHITECTURE.md 270: "A rejected token can only mark its own        *)
(* attempt's lease-loss evidence once."                                     *)
LossNotedOnce ==
    \A j \in Jobs : \A n \in 1..Len(queue[j].history) : queue[j].history[n].notes <= 1
============================================================================
