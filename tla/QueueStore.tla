---------------------------- MODULE QueueStore -----------------------------
(***************************************************************************)
(* A queue job with its attempts (tables queue_jobs and queue_attempts,    *)
(* opscheck/queue_store.py) and the row operations every queue transaction *)
(* is made of.                                                             *)
(*                                                                         *)
(* Time is relative to the present: lease is the time left until           *)
(* lease_expires_at (0 once it is not after now) and avail the time until  *)
(* available_at (0 or less once due).  A lease token is a fresh random     *)
(* value per claim and is always used together with the job's id; here it  *)
(* is the number of the attempt it was issued for.                         *)
(***************************************************************************)
EXTENDS Integers, Sequences, RunStates

NoToken == 0

JobStatus == {"QUEUED", "LEASED", "WAITING_FOR_APPROVAL", "SUCCEEDED", "DEAD_LETTER"}

Outcomes == {"RUNNING", "WAITING_FOR_APPROVAL", "SUCCEEDED",
             "FAILED", "EXPIRED", "DEFERRED"}

(* lost is the column lease_lost; notes counts the lease_lost audit entries *)
Attempt == [replay : Nat, outcome : Outcomes, lost : BOOLEAN, notes : Nat]

(* ABSENT: the event has no queue job yet                                   *)
Job == [status     : JobStatus \cup {"ABSENT"},
        priority   : Int,
        attempts   : Nat,
        budget     : Nat,
        max        : 1..10,
        avail      : Int,
        token      : Nat,
        lease      : Nat,
        replays    : Nat,
        replayable : BOOLEAN,
        history    : Seq(Attempt)]

NewJob(priority, max) ==
    [status |-> "QUEUED", priority |-> priority, attempts |-> 0, budget |-> 0,
     max |-> max, avail |-> 0, token |-> NoToken, lease |-> 0, replays |-> 0,
     replayable |-> TRUE, history |-> << >>]

Absent == [NewJob(0, 1) EXCEPT !.status = "ABSENT"]

----------------------------------------------------------------------------
(* faulty: the delay is capped too late                                     *)
BackoffTooLong(budget) ==
    IF budget <= 1 THEN 1
    ELSE IF budget >= 8 THEN 60
    ELSE <<1, 2, 4, 8, 16, 32, 64>>[budget]

(* min(60, 2 ** max(0, min(10, budget - 1)))                                *)
Backoff(budget) ==
    IF budget <= 1 THEN 1
    ELSE IF budget >= 7 THEN 60
    ELSE <<1, 2, 4, 8, 16, 32>>[budget]

SetAttempt(q, t, a) == [q EXCEPT !.history = [@ EXCEPT ![t] = a]]

EndAttempt(q, outcome, lost) ==
    IF q.token = NoToken \/ q.history[q.token].outcome # "RUNNING" THEN q
    ELSE SetAttempt(q, q.token, [q.history[q.token] EXCEPT !.outcome = outcome, !.lost = lost])

Release(q, status) ==
    [q EXCEPT !.status = status, !.token = NoToken, !.lease = 0]

Settle(q, status) == Release(EndAttempt(q, status, FALSE), status)

(* how a delivery failed: terminal, expired and busy of failure()           *)
Plain    == [terminal |-> FALSE, expired |-> FALSE, busy |-> FALSE]
Terminal == [Plain EXCEPT !.terminal = TRUE]
Expired  == [Plain EXCEPT !.expired = TRUE]
Busy     == [Plain EXCEPT !.busy = TRUE]

Outcome(how) ==
    IF how.expired THEN "EXPIRED" ELSE IF how.busy THEN "DEFERRED" ELSE "FAILED"

Delay(q, how) ==
    IF how.expired THEN 0 ELSE IF how.busy THEN 1 ELSE Backoff(q.budget)

Exhausted(q, how) == ~ how.busy /\ q.budget >= q.max

Buried(q, how) ==
    Release(EndAttempt(q, Outcome(how), how.expired),
            IF how.terminal \/ Exhausted(q, how) THEN "DEAD_LETTER" ELSE "QUEUED")

(* faulty: a deferral is charged like a failure                             *)
FailureWithoutRefund(q, how) ==
    [Buried(q, how) EXCEPT !.avail = Delay(q, how), !.replayable = ~ how.terminal]

(* faulty: a requeued job keeps its old place in the queue                  *)
FailureInPlace(q, how) ==
    [Buried(q, how) EXCEPT !.replayable = ~ how.terminal,
                           !.budget = IF how.busy THEN @ - 1 ELSE @]

Failure(q, how) ==
    [Buried(q, how) EXCEPT !.avail = Delay(q, how),
                           !.replayable = ~ how.terminal,
                           !.budget = IF how.busy THEN @ - 1 ELSE @]

(* The failure of a run whose human revisions are used up is the last word. *)
(* faulty: a dead letter is left as it is, replayable or not                *)
OverrulesLiving(q, r) == r.status = "FAILED" /\ r.limit /\ q.status # "DEAD_LETTER"

Overrules(q, r) ==
    r.status = "FAILED" /\ r.limit /\ (q.status # "DEAD_LETTER" \/ q.replayable)

(* synchronize for one job and its run; recover: the caller passed          *)
(* expired_before = now                                                     *)
SyncJob(q, r, recover) ==
    IF \/ q.status = "ABSENT" \/ r.status = "NONE"
       \/ q.status = "LEASED" /\ ~ (recover /\ q.lease = 0)
    THEN q
    ELSE IF r.status \in Checkpoints
    THEN IF q.status = r.status THEN q ELSE Settle(q, r.status)
    ELSE IF Overrules(q, r)
    THEN Failure(q, Terminal)
    ELSE IF r.status = "FAILED" /\ q.status = "WAITING_FOR_APPROVAL"
    THEN Failure(q, Plain)
    ELSE q

----------------------------------------------------------------------------
(* Fencing: does the caller presenting token t own an unexpired lease?      *)
(* faulty: the expiry is not looked at                                      *)
OwnedByToken(q, t) == q.status = "LEASED" /\ q.token = t

(* faulty: any lease will do                                                *)
OwnedByAnyone(q, t) == q.status = "LEASED" /\ q.lease > 0

Owned(q, t) == q.status = "LEASED" /\ q.token = t /\ q.lease > 0

(* What a rejected caller may write: its own attempt's lease_lost, with one *)
(* audit entry when the column changes.                                     *)
(* faulty: it also rewrites the attempt's outcome                           *)
MarkLostAndExpired(q, t) ==
    IF q.history[t].lost THEN q
    ELSE SetAttempt(q, t, [q.history[t] EXCEPT !.lost = TRUE, !.notes = @ + 1,
                                               !.outcome = "EXPIRED"])

MarkLost(q, t) ==
    IF q.history[t].lost THEN q
    ELSE SetAttempt(q, t, [q.history[t] EXCEPT !.lost = TRUE, !.notes = @ + 1])

(* the writes of a claim                                                    *)
Lease(q, duration) ==
    [q EXCEPT !.status = "LEASED", !.token = q.attempts + 1, !.lease = duration,
              !.attempts = @ + 1, !.budget = @ + 1,
              !.history = Append(@, [replay |-> q.replays, outcome |-> "RUNNING",
                                     lost |-> FALSE, notes |-> 0])]

----------------------------------------------------------------------------
(* What holds of every job and its attempts between transactions.           *)

(* A job is leased exactly while it has a token, and only then has time     *)
(* left; the token is that of its latest attempt, the only one running.     *)
WellLeased(q) ==
    /\ q.status = "LEASED" <=> q.token # NoToken
    /\ q.lease > 0 => q.status = "LEASED"
    /\ q.attempts = Len(q.history)
    /\ q.status = "ABSENT" => q.attempts = 0
    /\ q.token # NoToken => q.token = q.attempts
    /\ \A n \in 1..Len(q.history) : q.history[n].outcome = "RUNNING" <=> n = q.token

(* What a job has spent of its budget, and what that means for its status.  *)
WithinBudget(q) ==
    /\ q.budget <= q.max
    /\ q.status = "QUEUED" => q.budget < q.max
    /\ q.status = "LEASED" => q.budget > 0
    /\ q.status = "DEAD_LETTER" /\ q.replayable => q.budget = q.max
============================================================================
