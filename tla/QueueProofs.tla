---------------------------- MODULE QueueProofs ----------------------------
(***************************************************************************)
(* The safety of the queue, for any number of jobs, workers and operators  *)
(* and any bounds.  Rows come first, what each operation of QueueStore     *)
(* does to one job, then their type, leases and budgets, which are proved  *)
(* together because the range of a budget and of the tokens workers hold   *)
(* rests on how a job is leased.  A second invariant is of the records: a  *)
(* budget is what attempts spent, a history is never rewritten, a run      *)
(* decides where its job ends, and neither job nor event is ahead of it.   *)
(* Waiting times come last: who goes behind whom, and how failures back off.*)
(***************************************************************************)
EXTENDS Queue, SequenceTheorems, FiniteSetTheorems, TLAPS

----------------------------------------------------------------------------
(* Rows: each operation of QueueStore takes a well-formed row to a          *)
(* well-formed row.                                                         *)

RowOK(q) == q \in Job /\ WellLeased(q) /\ WithinBudget(q)

(* every field but the history and what a release changes                   *)
SameTerms(e, q) ==
    /\ e.priority = q.priority /\ e.attempts = q.attempts /\ e.budget = q.budget
    /\ e.max = q.max /\ e.avail = q.avail /\ e.replays = q.replays
    /\ e.replayable = q.replayable

(* What the type of a job says of its attempts (table queue_attempts).      *)
LEMMA HistoryType ==
    ASSUME NEW q \in Job
    PROVE  /\ q.history \in Seq(Attempt)
           /\ Len(q.history) \in Nat
           /\ \A n \in 1..Len(q.history) : q.history[n] \in Attempt
<1>1. q.history \in Seq(Attempt)
  BY DEF Job
<1>2. QED
  BY <1>1, LenProperties, ElementOfSeq

(* Replacing one attempt of a job yields a job.                             *)
LEMMA ReplaceAttempt ==
    ASSUME NEW q \in Job, NEW t \in 1..Len(q.history), NEW a \in Attempt
    PROVE  LET e == SetAttempt(q, t, a)
           IN  /\ e \in Job
               /\ SameTerms(e, q) /\ e.status = q.status
               /\ e.token = q.token /\ e.lease = q.lease
               /\ Len(e.history) = Len(q.history)
               /\ \A n \in 1..Len(q.history) :
                     e.history[n] = IF n = t THEN a ELSE q.history[n]
<1> DEFINE h == [q.history EXCEPT ![t] = a]
           e == SetAttempt(q, t, a)
<1>1. /\ h \in Seq(Attempt) /\ Len(h) = Len(q.history)
      /\ \A n \in 1..Len(q.history) : h[n] = IF n = t THEN a ELSE q.history[n]
  BY HistoryType, ExceptSeq
<1>2. e = [q EXCEPT !.history = h]
  BY DEF SetAttempt
<1>3. e \in Job /\ e.history = h
  BY <1>1, <1>2 DEF Job
<1>4. SameTerms(e, q) /\ e.status = q.status /\ e.token = q.token /\ e.lease = q.lease
  BY <1>2 DEF Job, SameTerms
<1>5. QED
  BY <1>1, <1>3, <1>4

(* A job whose running attempt ended has none left that runs.               *)
LEMMA EndAttemptRow ==
    ASSUME NEW q \in Job, WellLeased(q),
           NEW o \in Outcomes \ {"RUNNING"}, NEW lost \in BOOLEAN
    PROVE  LET e == EndAttempt(q, o, lost)
           IN  /\ e \in Job /\ SameTerms(e, q)
               /\ Len(e.history) = Len(q.history)
               /\ \A n \in 1..Len(q.history) : e.history[n].outcome # "RUNNING"
<1>1. CASE q.token = NoToken
  BY <1>1, HistoryType DEF EndAttempt, WellLeased, SameTerms, NoToken
<1>2. CASE q.token # NoToken
  <2> DEFINE a == [q.history[q.token] EXCEPT !.outcome = o, !.lost = lost]
  <2>1. q.token \in 1..Len(q.history) /\ q.history[q.token].outcome = "RUNNING"
    BY <1>2, HistoryType DEF WellLeased, Job, NoToken
  <2>2. a \in Attempt /\ a.outcome = o
    BY <2>1, HistoryType DEF Attempt
  <2>3. EndAttempt(q, o, lost) = SetAttempt(q, q.token, a)
    BY <1>2, <2>1 DEF EndAttempt
  <2> HIDE DEF a
  <2>4. LET e == SetAttempt(q, q.token, a)
        IN  /\ e \in Job /\ SameTerms(e, q)
            /\ Len(e.history) = Len(q.history)
            /\ \A n \in 1..Len(q.history) :
                  e.history[n] = IF n = q.token THEN a ELSE q.history[n]
    BY <2>1, <2>2, ReplaceAttempt
  <2>5. QED
    BY <1>2, <2>2, <2>3, <2>4 DEF WellLeased
<1>3. QED
  BY <1>1, <1>2

(* Ending the attempt and releasing the lease leaves a well-formed lease.   *)
LEMMA ReleaseRow ==
    ASSUME NEW q \in Job, WellLeased(q), NEW s \in JobStatus \ {"LEASED"},
           NEW o \in Outcomes \ {"RUNNING"}, NEW lost \in BOOLEAN
    PROVE  LET e == Release(EndAttempt(q, o, lost), s)
           IN  /\ e \in Job /\ WellLeased(e) /\ SameTerms(e, q)
               /\ e.status = s
               /\ Len(e.history) = Len(q.history)
<1> DEFINE d == EndAttempt(q, o, lost)
           e == Release(d, s)
<1>1. /\ d \in Job /\ SameTerms(d, q)
      /\ Len(d.history) = Len(q.history)
      /\ \A n \in 1..Len(q.history) : d.history[n].outcome # "RUNNING"
  BY EndAttemptRow
<1> HIDE DEF d
<1>2. /\ e.status = s /\ e.token = NoToken /\ e.lease = 0
      /\ e.history = d.history /\ SameTerms(e, d)
  BY <1>1 DEF Release, Job, SameTerms, JobStatus
<1>3. e \in Job
  BY <1>1 DEF Release, Job, JobStatus, NoToken
<1>4. SameTerms(e, q)
  BY <1>1, <1>2 DEF SameTerms
<1>5. WellLeased(e)
  <2>1. e.status # "LEASED" /\ e.status # "ABSENT"
    BY <1>2 DEF JobStatus
  <2> HIDE DEF e
  <2>2. QED
    BY <1>1, <1>2, <1>4, <2>1, HistoryType DEF WellLeased, SameTerms, NoToken
<1>6. QED
  BY <1>1, <1>2, <1>3, <1>4, <1>5 DEF d

(* settle: a job whose run reached a checkpoint is released, within its     *)
(* budget.                                                                  *)
LEMMA SettleRow ==
    ASSUME NEW q, RowOK(q), NEW s \in Checkpoints
    PROVE  /\ RowOK(Settle(q, s))
           /\ Len(Settle(q, s).history) = Len(q.history)
<1> DEFINE e == Settle(q, s)
<1>1. /\ e \in Job /\ WellLeased(e) /\ SameTerms(e, q) /\ e.status = s
      /\ Len(e.history) = Len(q.history)
  BY ReleaseRow DEF RowOK, Settle, Checkpoints, JobStatus, Outcomes
<1>2. WithinBudget(e)
  BY <1>1 DEF RowOK, WithinBudget, SameTerms, Checkpoints
<1>3. QED
  BY <1>1, <1>2 DEF RowOK

Hows == [terminal : BOOLEAN, expired : BOOLEAN, busy : BOOLEAN]

(* The backoff of failure() is a number of seconds for every budget.        *)
LEMMA BackoffType == ASSUME NEW b \in Nat PROVE Backoff(b) \in Int
<1>1. CASE b <= 1 \/ b >= 7
  BY <1>1 DEF Backoff
<1>2. CASE b \in 2..6
  <2>1. Backoff(b) = <<1, 2, 4, 8, 16, 32>>[b]
    BY <1>2 DEF Backoff
  <2>2. b = 2 \/ b = 3 \/ b = 4 \/ b = 5 \/ b = 6
    BY <1>2
  <2>3. QED
    BY <2>1, <2>2
<1>3. QED
  BY <1>1, <1>2

(* The ways in which a delivery may fail.                                   *)
LEMMA HowsType == Plain \in Hows /\ Terminal \in Hows /\ Expired \in Hows /\ Busy \in Hows
  BY DEF Hows, Plain, Terminal, Expired, Busy

(* A failed delivery: only a leased job, which was charged, is refunded.    *)
LEMMA FailureRow ==
    ASSUME NEW q, RowOK(q), NEW how \in Hows, how.busy => q.status = "LEASED"
    PROVE  /\ RowOK(Failure(q, how))
           /\ Len(Failure(q, how).history) = Len(q.history)
<1> DEFINE o == Outcome(how)
           s == IF how.terminal \/ Exhausted(q, how) THEN "DEAD_LETTER" ELSE "QUEUED"
           d == Buried(q, how)
           e == Failure(q, how)
<1>1. q \in Job /\ WellLeased(q) /\ WithinBudget(q)
  BY DEF RowOK
<1>2. how.terminal \in BOOLEAN /\ how.expired \in BOOLEAN /\ how.busy \in BOOLEAN
  BY DEF Hows
<1>3. o \in Outcomes \ {"RUNNING"} /\ s \in JobStatus \ {"LEASED"}
  BY DEF Outcome, Outcomes, JobStatus
<1>4. /\ d \in Job /\ WellLeased(d) /\ SameTerms(d, q) /\ d.status = s
      /\ Len(d.history) = Len(q.history)
  <2> HIDE DEF o, s
  <2>1. LET f == Release(EndAttempt(q, o, how.expired), s)
        IN  /\ f \in Job /\ WellLeased(f) /\ SameTerms(f, q) /\ f.status = s
            /\ Len(f.history) = Len(q.history)
    BY <1>1, <1>2, <1>3, ReleaseRow
  <2>2. QED
    BY <2>1 DEF Buried, o, s
<1>5. Delay(q, how) \in Int
  BY <1>1, BackoffType DEF Delay, Job
<1>6. /\ q.budget \in Nat /\ q.max \in 1..10 /\ q.budget <= q.max
      /\ q.status = "LEASED" => q.budget > 0
  BY <1>1 DEF Job, WithinBudget
<1> HIDE DEF o, s, d
<1>7. /\ e.status = d.status /\ e.token = d.token /\ e.lease = d.lease
      /\ e.history = d.history /\ e.attempts = d.attempts /\ e.max = d.max
      /\ e.replayable = (~ how.terminal)
      /\ e.budget = IF how.busy THEN q.budget - 1 ELSE q.budget
      /\ e \in Job
  <2> DEFINE b == IF how.busy THEN q.budget - 1 ELSE q.budget
  <2>1. d \in Job /\ d.budget = q.budget
    BY <1>4 DEF SameTerms
  <2>2. e = [d EXCEPT !.avail = Delay(q, how), !.replayable = ~ how.terminal, !.budget = b]
    BY <2>1 DEF Failure, d
  <2>3. q.budget \in Nat /\ (how.busy => q.budget > 0)
    BY <1>6
  <2>4. b \in Nat
    BY <2>3
  <2> HIDE DEF b
  <2>5. QED
    BY <1>5, <2>1, <2>2, <2>4 DEF Job, b
<1> HIDE DEF e
<1>8. e.budget \in Nat
  BY <1>7 DEF Job
<1>9. e.replayable = FALSE \/ e.replayable = TRUE
  BY <1>7 DEF Job
<1>10. WellLeased(e)
  BY <1>4, <1>7 DEF WellLeased
<1>11. WithinBudget(e)
  <2>1. e.max = q.max /\ e.max \in 1..10 /\ q.max \in 1..10
    BY <1>4, <1>6, <1>7 DEF SameTerms
  <2>2. e.status = s
    BY <1>4, <1>7
  <2>3. CASE how.terminal
    <3>1. e.status = "DEAD_LETTER" /\ ~ e.replayable
      BY <1>7, <2>2, <2>3 DEF s
    <3>2. e.budget <= q.budget
      BY <1>6, <1>7
    <3>3. QED
      BY <1>6, <1>8, <2>1, <3>1, <3>2 DEF WithinBudget
  <2>4. CASE ~ how.terminal /\ Exhausted(q, how)
    <3>1. e.status = "DEAD_LETTER" /\ ~ how.busy
      BY <2>2, <2>4 DEF s, Exhausted
    <3>2. e.budget = q.budget /\ q.budget >= q.max
      BY <1>7, <2>4, <3>1 DEF Exhausted
    <3>3. QED
      BY <1>6, <2>1, <3>1, <3>2 DEF WithinBudget
  <2>5. CASE ~ how.terminal /\ ~ Exhausted(q, how)
    <3>1. e.status = "QUEUED"
      BY <2>2, <2>5 DEF s
    <3>2. e.budget < q.max
      BY <1>6, <1>7, <2>1, <2>5 DEF Exhausted
    <3>3. QED
      BY <1>8, <2>1, <3>1, <3>2 DEF WithinBudget
  <2>6. QED
    BY <2>3, <2>4, <2>5
<1>12. QED
  BY <1>4, <1>7, <1>10, <1>11 DEF RowOK, e

(* Deriving a job's state from its run.                                     *)
LEMMA SyncJobRow ==
    ASSUME NEW q, RowOK(q), NEW r \in Run, NEW recover \in BOOLEAN
    PROVE  /\ RowOK(SyncJob(q, r, recover))
           /\ Len(SyncJob(q, r, recover).history) = Len(q.history)
<1>1. ~ Terminal.busy /\ ~ Plain.busy
  BY DEF Terminal, Plain
<1>2. /\ RowOK(Failure(q, Terminal)) /\ RowOK(Failure(q, Plain))
      /\ Len(Failure(q, Terminal).history) = Len(q.history)
      /\ Len(Failure(q, Plain).history) = Len(q.history)
  BY <1>1, HowsType, FailureRow
<1>3. r.status \in Checkpoints => /\ RowOK(Settle(q, r.status))
                                  /\ Len(Settle(q, r.status).history) = Len(q.history)
  BY SettleRow
<1>4. QED
  BY <1>2, <1>3 DEF SyncJob

(* The writes of a claim: one more attempt, the only one running, charged   *)
(* to the budget.                                                           *)
LEMMA LeaseRow ==
    ASSUME NEW q, RowOK(q), q.status = "QUEUED", q.budget < q.max,
           NEW d \in Nat
    PROVE  /\ RowOK(Lease(q, d))
           /\ Lease(q, d).token = Len(Lease(q, d).history)
           /\ Len(Lease(q, d).history) = Len(q.history) + 1
<1> DEFINE a == [replay |-> q.replays, outcome |-> "RUNNING", lost |-> FALSE, notes |-> 0]
           h == Append(q.history, a)
           e == Lease(q, d)
<1>1. q \in Job /\ WellLeased(q) /\ WithinBudget(q)
  BY DEF RowOK
<1>2. a \in Attempt /\ a.outcome = "RUNNING"
  BY <1>1 DEF Attempt, Outcomes, Job
<1>3. q.history \in Seq(Attempt) /\ Len(q.history) \in Nat
  BY <1>1, HistoryType
<1> HIDE DEF a
<1>4. /\ h \in Seq(Attempt) /\ Len(h) = Len(q.history) + 1
      /\ \A n \in 1..Len(q.history) : h[n] = q.history[n]
      /\ h[Len(q.history) + 1] = a
  BY <1>2, <1>3, AppendProperties
<1>5. /\ e.status = "LEASED" /\ e.token = q.attempts + 1 /\ e.lease = d
      /\ e.attempts = q.attempts + 1 /\ e.budget = q.budget + 1
      /\ e.history = h /\ e.max = q.max
      /\ e \in Job
  <2>1. e = [q EXCEPT !.status = "LEASED", !.token = q.attempts + 1, !.lease = d,
                      !.attempts = @ + 1, !.budget = @ + 1, !.history = h]
    BY DEF Lease, a
  <2> HIDE DEF e, h
  <2> DEFINE n == q.attempts + 1
            b == q.budget + 1
  <2>2. n \in Nat /\ b \in Nat
    BY <1>1 DEF Job
  <2>3. e = [q EXCEPT !.status = "LEASED", !.token = n, !.lease = d,
                      !.attempts = n, !.budget = b, !.history = h]
    BY <2>1
  <2> HIDE DEF n, b
  <2>4. QED
    BY <1>1, <1>4, <2>2, <2>3 DEF Job, JobStatus, n, b
<1>6. q.attempts = Len(q.history) /\ q.token = NoToken
  BY <1>1 DEF WellLeased
<1> HIDE DEF e, h
<1>7. WellLeased(e)
  <2>1. \A n \in 1..Len(h) : h[n].outcome = "RUNNING" <=> n = e.token
    BY <1>1, <1>2, <1>3, <1>4, <1>5, <1>6 DEF WellLeased, NoToken
  <2>2. QED
    BY <1>3, <1>4, <1>5, <1>6, <2>1 DEF WellLeased, NoToken
<1>8. WithinBudget(e)
  <2>1. q.budget \in Nat /\ q.max \in 1..10
    BY <1>1 DEF Job
  <2>2. QED
    BY <1>1, <1>5, <2>1 DEF WithinBudget
<1>9. QED
  BY <1>4, <1>5, <1>6, <1>7, <1>8 DEF RowOK, e

(* A rejected caller touches the evidence of its own attempt only.          *)
LEMMA MarkLostRow ==
    ASSUME NEW q, RowOK(q), NEW t \in 1..Len(q.history)
    PROVE  /\ RowOK(MarkLost(q, t))
           /\ Len(MarkLost(q, t).history) = Len(q.history)
           /\ MarkLost(q, t).token = q.token
<1> DEFINE a == [q.history[t] EXCEPT !.lost = TRUE, !.notes = @ + 1]
<1>1. q \in Job /\ WellLeased(q) /\ WithinBudget(q)
  BY DEF RowOK
<1>2. a \in Attempt /\ a.outcome = q.history[t].outcome
  <2> DEFINE b == q.history[t]
  <2>1. b \in Attempt
    BY <1>1, HistoryType
  <2> DEFINE n == b.notes + 1
  <2>2. n \in Nat
    BY <2>1 DEF Attempt
  <2>3. a = [b EXCEPT !.lost = TRUE, !.notes = n]
    OBVIOUS
  <2> HIDE DEF a, b, n
  <2>4. a \in Attempt /\ a.outcome = b.outcome
    BY <2>1, <2>2, <2>3 DEF Attempt
  <2>5. QED
    BY <2>4 DEF b
<1>3. CASE q.history[t].lost
  BY <1>3 DEF MarkLost
<1>4. CASE ~ q.history[t].lost
  <2>1. MarkLost(q, t) = SetAttempt(q, t, a)
    BY <1>4 DEF MarkLost
  <2> HIDE DEF a
  <2> DEFINE e == SetAttempt(q, t, a)
  <2>2. /\ e \in Job
        /\ SameTerms(e, q) /\ e.status = q.status
        /\ e.token = q.token /\ e.lease = q.lease
        /\ Len(e.history) = Len(q.history)
        /\ \A n \in 1..Len(q.history) :
              e.history[n] = IF n = t THEN a ELSE q.history[n]
    BY <1>1, <1>2, ReplaceAttempt
  <2> HIDE DEF e
  <2>3. WellLeased(e)
    BY <1>1, <1>2, <2>2 DEF WellLeased, SameTerms
  <2>4. WithinBudget(e)
    BY <1>1, <2>2 DEF WithinBudget, SameTerms
  <2>5. QED
    BY <2>1, <2>2, <2>3, <2>4 DEF RowOK, e
<1>5. QED
  BY <1>3, <1>4

(* A job that enqueue inserts has no attempts and a budget to spend.        *)
LEMMA NewJobRow ==
    ASSUME NEW p \in Int, NEW m \in 1..10
    PROVE  RowOK(NewJob(p, m)) /\ NewJob(p, m).history = << >>
<1>1. << >> \in Seq(Attempt) /\ Len(<< >>) = 0
  BY EmptySeq
<1>2. QED
  BY <1>1 DEF RowOK, NewJob, Job, JobStatus, WellLeased, WithinBudget, NoToken

(* An event without a job has no attempts either.                           *)
LEMMA AbsentRow == RowOK(Absent) /\ Absent.history = << >>
<1> DEFINE q == NewJob(0, 1)
<1>1. RowOK(q) /\ q.history = << >>
  BY NewJobRow
<1>2. q.status = "QUEUED"
  BY DEF NewJob
<1>3. Absent = [q EXCEPT !.status = "ABSENT"]
  BY DEF Absent
<1> HIDE DEF q
<1>4. QED
  BY <1>1, <1>2, <1>3 DEF RowOK, Job, JobStatus, WellLeased, WithinBudget

----------------------------------------------------------------------------
(* Tables *)

IInv == TypeOK /\ LeaseShape /\ BudgetBound

(* a table of well-formed jobs, as transactions build them from queue       *)
Table(f) == f \in [Jobs -> Job] /\ \A j \in Jobs : RowOK(f[j])

(* f has the attempts of g and perhaps more                                 *)
Extends(f, g) == \A j \in Jobs : Len(g[j].history) <= Len(f[j].history)

(* The invariant, row by row: every job row is well formed and every token  *)
(* a worker of its job presents was issued by claim.                        *)
LEMMA InvariantTable ==
    IInv <=> /\ Table(queue)
             /\ run \in [Jobs -> Run]
             /\ event \in [Jobs -> Event]
             /\ processing \in [Jobs -> Phases]
             /\ live \in [Jobs -> SUBSET Nat]
             /\ \A j \in Jobs : live[j] \subseteq 1..Len(queue[j].history)
  BY DEF IInv, TypeOK, LeaseShape, BudgetBound, Table, RowOK

(* The same for the state after a step.                                     *)
LEMMA InvariantTableNext ==
    IInv' <=> /\ Table(queue')
              /\ run' \in [Jobs -> Run]
              /\ event' \in [Jobs -> Event]
              /\ processing' \in [Jobs -> Phases]
              /\ live' \in [Jobs -> SUBSET Nat]
              /\ \A j \in Jobs : live'[j] \subseteq 1..Len(queue'[j].history)
  BY DEF IInv, TypeOK, LeaseShape, BudgetBound, Table, RowOK

(* Workers hold issued tokens as long as no attempt is forgotten.           *)
LEMMA TokensStayIssued ==
    ASSUME NEW f, Table(f), NEW g, Table(g), Extends(g, f),
           NEW l, \A j \in Jobs : l[j] \subseteq 1..Len(f[j].history)
    PROVE  \A j \in Jobs : l[j] \subseteq 1..Len(g[j].history)
<1> SUFFICES ASSUME NEW j \in Jobs
             PROVE  1..Len(f[j].history) \subseteq 1..Len(g[j].history)
  OBVIOUS
<1>1. Len(f[j].history) \in Nat /\ Len(g[j].history) \in Nat
  BY HistoryType DEF Table
<1>2. Len(f[j].history) <= Len(g[j].history)
  BY DEF Extends
<1>3. QED
  BY <1>1, <1>2

(* event_store.synchronize derives a proper event status from any run.      *)
LEMMA EventType ==
    ASSUME NEW e \in Event, NEW r \in Run
    PROVE  SyncEvent(e, r) \in Event
  BY DEF SyncEvent, KeepsFailure, StatusFor, Event, EventStatus, Run, RunStatus

----------------------------------------------------------------------------
(* Time *)

(* The ordered stand-in for an available_at in the past is an integer,      *)
(* because only finitely many jobs are queued.                              *)
LEMMA AgedAvailType ==
    ASSUME NEW f, NEW t \in Int
    PROVE  AgedAvail(f, t) \in Int
<1> DEFINE S == {k \in Jobs : /\ f[k].status = "QUEUED"
                              /\ t <= f[k].avail /\ f[k].avail <= 0}
<1>1. IsFiniteSet(Jobs)
  BY QueueConstants, FS_Interval DEF Jobs
<1>2. S \subseteq Jobs
  OBVIOUS
<1>3. IsFiniteSet(S)
  BY <1>1, <1>2, FS_Subset
<1>4. Cardinality(S) \in Nat
  BY <1>3, FS_CardinalityType
<1>5. AgedAvail(f, t) = IF t > 0 THEN t - 1 ELSE 0 - Cardinality(S)
  BY DEF AgedAvail
<1> HIDE DEF S
<1>6. QED
  BY <1>4, <1>5

(* The passing of time shortens leases and brings jobs closer to being      *)
(* due, and changes no status, token or attempt.                            *)
LEMMA AgedTable ==
    ASSUME NEW f, Table(f)
    PROVE  /\ Table(Aged(f))
           /\ \A j \in Jobs : /\ Aged(f)[j].history = f[j].history
                              /\ Aged(f)[j].token = f[j].token
                              /\ Aged(f)[j].status = f[j].status
<1> SUFFICES ASSUME NEW j \in Jobs
             PROVE  /\ RowOK(Aged(f)[j])
                    /\ Aged(f)[j].history = f[j].history
                    /\ Aged(f)[j].token = f[j].token
                    /\ Aged(f)[j].status = f[j].status
  BY DEF Table, Aged, RowOK
<1> DEFINE q == f[j]
           l == IF q.lease > 0 THEN q.lease - 1 ELSE 0
           a == AgedAvail(f, q.avail)
           e == Aged(f)[j]
<1>1. q \in Job /\ WellLeased(q) /\ WithinBudget(q)
  BY DEF Table, RowOK
<1>2. q.lease \in Nat /\ q.avail \in Int
  BY <1>1 DEF Job
<1>3. l \in Nat /\ a \in Int /\ (l > 0 => q.lease > 0)
  BY <1>2, AgedAvailType
<1>4. e = [q EXCEPT !.lease = l, !.avail = a]
  BY DEF Aged
<1> HIDE DEF q, l, a, e
<1>5. /\ e \in Job /\ e.lease = l /\ e.status = q.status /\ e.token = q.token
      /\ e.history = q.history /\ SameTerms(e, [q EXCEPT !.avail = a])
  BY <1>1, <1>3, <1>4 DEF Job, SameTerms
<1>6. e.attempts = q.attempts /\ e.budget = q.budget /\ e.max = q.max
      /\ e.replayable = q.replayable
  BY <1>1, <1>4 DEF Job
<1>7. WellLeased(e)
  BY <1>1, <1>3, <1>5, <1>6 DEF WellLeased
<1>8. WithinBudget(e)
  BY <1>1, <1>5, <1>6 DEF WithinBudget
<1>9. QED
  BY <1>5, <1>7, <1>8 DEF RowOK, q, e

----------------------------------------------------------------------------
(* Reconciliation and expiry *)

(* An unexpired lease is none of synchronize's business.                    *)
LEMMA SyncLeavesLeases ==
    ASSUME NEW q, RowOK(q), q.lease > 0, NEW r \in Run, NEW recover \in BOOLEAN
    PROVE  SyncJob(q, r, recover) = q
<1>1. q.status = "LEASED" /\ q.lease # 0
  BY DEF RowOK, Job, WellLeased
<1>2. QED
  BY <1>1 DEF SyncJob

(* queue_store.synchronize without a cutoff (publishing) keeps a row well   *)
(* formed, forgets no attempt and skips unexpired leases.                   *)
LEMMA PublishRow ==
    ASSUME NEW q, RowOK(q), NEW r \in Run
    PROVE  /\ RowOK(Publish(q, r))
           /\ Len(Publish(q, r).history) = Len(q.history)
           /\ q.lease > 0 => Publish(q, r) = q
  BY SyncJobRow, SyncLeavesLeases DEF Publish

(* So does the synchronization with a cutoff that every claim, replay and   *)
(* observation performs.                                                    *)
LEMMA ReconcileRow ==
    ASSUME NEW q, RowOK(q), NEW r \in Run
    PROVE  /\ RowOK(Reconcile(q, r))
           /\ Len(Reconcile(q, r).history) = Len(q.history)
           /\ q.lease > 0 => Reconcile(q, r) = q
<1> DEFINE p == Publish(q, r)
<1>1. RowOK(p) /\ Len(p.history) = Len(q.history) /\ (q.lease > 0 => p = q)
  BY PublishRow
<1> HIDE DEF p
<1>2. /\ RowOK(SyncJob(p, r, TRUE)) /\ Len(SyncJob(p, r, TRUE).history) = Len(p.history)
      /\ p.lease > 0 => SyncJob(p, r, TRUE) = p
  BY <1>1, SyncJobRow, SyncLeavesLeases
<1>3. QED
  BY <1>1, <1>2 DEF Reconcile, p

ReconciledTable == [j \in Jobs |-> Reconcile(queue[j], run[j])]

(* ... applied to all jobs in one transaction.                              *)
LEMMA ReconcileTable ==
    ASSUME IInv
    PROVE  /\ Table(ReconciledTable)
           /\ \A j \in Jobs :
                 /\ Len(ReconciledTable[j].history) = Len(queue[j].history)
                 /\ queue[j].lease > 0 => ReconciledTable[j] = queue[j]
<1>1. Table(queue) /\ run \in [Jobs -> Run]
  BY InvariantTable
<1>2. ASSUME NEW j \in Jobs
      PROVE  /\ RowOK(ReconciledTable[j])
             /\ Len(ReconciledTable[j].history) = Len(queue[j].history)
             /\ queue[j].lease > 0 => ReconciledTable[j] = queue[j]
  BY <1>1, ReconcileRow DEF Table, ReconciledTable
<1>3. QED
  BY <1>2 DEF Table, RowOK, ReconciledTable

(* Whenever the clock advances during a claim: leases it found running stay *)
(* with their workers.                                                      *)
LEMMA SweptTable ==
    ASSUME IInv, NEW late \in BOOLEAN
    PROVE  /\ Table(Swept(late))
           /\ \A j \in Jobs :
                 /\ Len(Swept(late)[j].history) = Len(queue[j].history)
                 /\ queue[j].lease > 0 => /\ Swept(late)[j].token = queue[j].token
                                          /\ Swept(late)[j].status = "LEASED"
<1> DEFINE synced  == ReconciledTable
           expired == {j \in Jobs : synced[j].status = "LEASED" /\ synced[j].lease = 0}
           then    == IF late THEN Aged(synced) ELSE synced
<1>1. /\ Table(synced)
      /\ \A j \in Jobs : /\ Len(synced[j].history) = Len(queue[j].history)
                         /\ queue[j].lease > 0 => synced[j] = queue[j]
  BY ReconcileTable
<1>2. Swept(late) = [j \in Jobs |-> IF j \in expired THEN Failure(then[j], Expired) ELSE then[j]]
  BY DEF Swept, ReconciledTable
<1> HIDE DEF synced
<1>3. /\ Table(then)
      /\ \A j \in Jobs : /\ then[j].history = synced[j].history
                         /\ then[j].token = synced[j].token
                         /\ then[j].status = synced[j].status
  BY <1>1, AgedTable
<1> HIDE DEF then
<1>4. Expired \in Hows /\ ~ Expired.busy
  BY HowsType DEF Expired, Plain
<1>5. ASSUME NEW j \in Jobs
      PROVE  /\ RowOK(Swept(late)[j])
             /\ Len(Swept(late)[j].history) = Len(queue[j].history)
             /\ queue[j].lease > 0 => /\ Swept(late)[j].token = queue[j].token
                                      /\ Swept(late)[j].status = "LEASED"
  <2>1. RowOK(then[j]) /\ Len(then[j].history) = Len(queue[j].history)
    BY <1>1, <1>3 DEF Table
  <2>2. RowOK(Failure(then[j], Expired))
        /\ Len(Failure(then[j], Expired).history) = Len(queue[j].history)
    BY <1>4, <2>1, FailureRow
  <2>3. queue[j].lease > 0 => j \notin expired /\ then[j].status = "LEASED"
                             /\ then[j].token = queue[j].token
    <3>1. SUFFICES ASSUME queue[j].lease > 0
                   PROVE  j \notin expired /\ then[j].status = "LEASED"
                          /\ then[j].token = queue[j].token
      OBVIOUS
    <3>2. synced[j] = queue[j]
      BY <1>1, <3>1
    <3>3. queue[j].lease \in Nat /\ queue[j].status = "LEASED"
      BY <3>1, InvariantTable DEF Table, RowOK, WellLeased, Job
    <3>4. synced[j].lease # 0
      BY <3>1, <3>2, <3>3
    <3>5. QED
      BY <1>3, <3>2, <3>3, <3>4
  <2> HIDE DEF expired
  <2>4. QED
    BY <1>2, <2>1, <2>2, <2>3
<1>6. QED
  BY <1>5, <1>2 DEF Table, RowOK

----------------------------------------------------------------------------
(* Every action preserves the invariant and respects unexpired leases.      *)

LeaseRespected ==
    \A j \in Jobs : queue[j].lease > 0 /\ queue'[j].token # queue[j].token
                   => queue[j].token \in live[j] \ live'[j]

Kept == IInv' /\ LeaseRespected

(* A step that only replaces the table by one with the same leases.         *)
LEMMA NewTable ==
    ASSUME IInv, Table(queue'), Extends(queue', queue),
           run' \in [Jobs -> Run], event' \in [Jobs -> Event],
           processing' \in [Jobs -> Phases], UNCHANGED live,
           \A j \in Jobs : queue[j].lease > 0 => queue'[j].token = queue[j].token
    PROVE  Kept
<1>1. /\ Table(queue) /\ live \in [Jobs -> SUBSET Nat]
      /\ \A j \in Jobs : live[j] \subseteq 1..Len(queue[j].history)
  BY InvariantTable
<1>2. \A j \in Jobs : live[j] \subseteq 1..Len(queue'[j].history)
  BY <1>1, TokensStayIssued
<1>3. IInv'
  BY <1>1, <1>2, InvariantTableNext
<1>4. QED
  BY <1>3 DEF Kept, LeaseRespected

(* A table with as many attempts per job as another extends it.             *)
LEMMA SameLength ==
    ASSUME NEW f, Table(f), NEW g,
           \A j \in Jobs : Len(g[j].history) = Len(f[j].history)
    PROVE  Extends(g, f)
<1> SUFFICES ASSUME NEW j \in Jobs PROVE Len(f[j].history) <= Len(g[j].history)
  BY DEF Extends
<1>1. Len(f[j].history) \in Nat
  BY HistoryType DEF Table
<1>2. QED
  BY <1>1

(* synchronize for all runs keeps the type of the events.                   *)
LEMMA SyncEventsType ==
    ASSUME IInv, SyncEvents PROVE event' \in [Jobs -> Event]
  BY InvariantTable, EventType DEF SyncEvents

(* synchronize for one run keeps the type of the events.                    *)
LEMMA SyncEventOfType ==
    ASSUME IInv, NEW j \in Jobs, SyncEventOf(j) PROVE event' \in [Jobs -> Event]
  BY InvariantTable, EventType DEF SyncEventOf

(* An empty database satisfies the invariant.                               *)
LEMMA InitKept == Init => IInv
<1> SUFFICES ASSUME Init PROVE IInv
  OBVIOUS
<1>1. Table(queue) /\ \A j \in Jobs : queue[j].history = << >>
  BY AbsentRow DEF Init, Table, RowOK
<1>2. NoRun \in Run /\ NewEvent \in Event
  BY DEF NoRun, Run, RunStatus, NewEvent, Event, EventStatus
<1>3. QED
  BY <1>1, <1>2, InvariantTable DEF Init, Phases

(* The clock.                                                               *)
LEMMA TickKept == ASSUME IInv, Tick PROVE Kept
<1>1. Table(queue)
  BY InvariantTable
<1>2. /\ Table(queue')
      /\ \A j \in Jobs : queue'[j].history = queue[j].history
                         /\ queue'[j].token = queue[j].token
  BY <1>1, AgedTable DEF Tick
<1>3. Extends(queue', queue)
  BY <1>1, <1>2, SameLength
<1>4. QED
  BY <1>2, <1>3, NewTable, InvariantTable DEF Tick

(* inspect_job and list_jobs recover expired leases of settled runs only.   *)
LEMMA ObserveKept == ASSUME IInv, Observe PROVE Kept
<1>1. Table(queue) /\ queue' = ReconciledTable
  BY InvariantTable DEF Observe, ReconciledTable
<1>2. /\ Table(queue')
      /\ \A j \in Jobs : /\ Len(queue'[j].history) = Len(queue[j].history)
                         /\ queue[j].lease > 0 => queue'[j] = queue[j]
  BY <1>1, ReconcileTable
<1>3. Extends(queue', queue)
  BY <1>1, <1>2, SameLength
<1>4. QED
  BY <1>2, <1>3, NewTable, InvariantTable, SyncEventsType DEF Observe

(* _process and list_events leave every lease alone.                        *)
LEMMA PublishAllKept == ASSUME IInv, PublishAll PROVE Kept
<1>1. Table(queue) /\ run \in [Jobs -> Run]
  BY InvariantTable
<1>2. ASSUME NEW j \in Jobs
      PROVE  /\ RowOK(queue'[j])
             /\ Len(queue'[j].history) = Len(queue[j].history)
             /\ queue[j].lease > 0 => queue'[j] = queue[j]
  BY <1>1, PublishRow DEF PublishAll, Table
<1>3. Table(queue')
  BY <1>2 DEF PublishAll, Table, RowOK
<1>4. Extends(queue', queue)
  BY <1>1, <1>2, SameLength
<1>5. QED
  BY <1>2, <1>3, <1>4, NewTable, InvariantTable, SyncEventsType DEF PublishAll

(* A step that replaces the row of one job and keeps its lease, if any.     *)
LEMMA NewRow ==
    ASSUME IInv, NEW j \in Jobs, NEW q, RowOK(q),
           Len(q.history) = Len(queue[j].history),
           queue[j].lease > 0 => q.token = queue[j].token,
           queue' = [queue EXCEPT ![j] = q]
    PROVE  /\ Table(queue') /\ Extends(queue', queue)
           /\ \A k \in Jobs : queue[k].lease > 0 => queue'[k].token = queue[k].token
<1>1. Table(queue)
  BY InvariantTable
<1>2. /\ Table(queue')
      /\ \A k \in Jobs : queue'[k] = IF k = j THEN q ELSE queue[k]
  <2>1. queue \in [Jobs -> Job] /\ q \in Job
    BY <1>1 DEF Table, RowOK
  <2>2. queue' \in [Jobs -> Job]
    BY <2>1
  <2>3. \A k \in Jobs : queue'[k] = IF k = j THEN q ELSE queue[k]
    BY <2>1
  <2>4. QED
    BY <1>1, <2>2, <2>3 DEF Table
<1>3. Extends(queue', queue)
  BY <1>1, <1>2, SameLength
<1>4. QED
  BY <1>2, <1>3

(* event_store.synchronize for one run, whatever else its caller records    *)
(* about the processing of the event.                                       *)
LEMMA SynchronizedKept ==
    ASSUME IInv, NEW j \in Jobs, Synchronized(j), UNCHANGED <<run, live>>,
           processing' \in [Jobs -> Phases]
    PROVE  Kept
<1> DEFINE q == Publish(queue[j], run[j])
<1>1. RowOK(queue[j]) /\ run[j] \in Run
  BY InvariantTable DEF Table
<1>2. RowOK(q) /\ Len(q.history) = Len(queue[j].history)
      /\ (queue[j].lease > 0 => q = queue[j])
  BY <1>1, PublishRow
<1>3. queue' = [queue EXCEPT ![j] = q]
  BY DEF Synchronized
<1> HIDE DEF q
<1>4. /\ Table(queue') /\ Extends(queue', queue)
      /\ \A k \in Jobs : queue[k].lease > 0 => queue'[k].token = queue[k].token
  BY <1>2, <1>3, NewRow
<1>5. QED
  BY <1>4, NewTable, InvariantTable, SyncEventOfType DEF Synchronized

(* _publish_result, and the end of _process.                                *)
LEMMA PublishRunKept ==
    ASSUME IInv, NEW j \in Jobs, PublishRun(j) \/ EventEnd(j) PROVE Kept
<1>1. processing \in [Jobs -> Phases]
  BY InvariantTable
<1>2. processing' \in [Jobs -> Phases]
  BY <1>1 DEF PublishRun, EventEnd, Phases
<1>3. QED
  BY <1>2, SynchronizedKept DEF PublishRun, EventEnd

(* enqueue: a new job has no attempts, so no worker can hold a token of     *)
(* it.                                                                      *)
LEMMA EnqueueKept ==
    ASSUME IInv, NEW j \in Jobs, NEW p \in Priorities, NEW m \in Limits,
           Enqueue(j, p, m)
    PROVE  Kept
<1> DEFINE n == NewJob(p, m)
           f == Publish(n, run[j])
           q == Publish(f, run[j])
<1>1. p \in Int /\ m \in 1..10
  BY QueueConstants
<1>2. RowOK(n) /\ Len(n.history) = 0
  BY <1>1, NewJobRow, EmptySeq
<1>3. RowOK(queue[j]) /\ run[j] \in Run /\ Table(queue)
  BY InvariantTable DEF Table
<1>4. queue' = [queue EXCEPT ![j] = q]
  BY DEF Enqueue
<1> HIDE DEF n
<1>5. RowOK(f) /\ Len(f.history) = 0
  BY <1>2, <1>3, PublishRow
<1> HIDE DEF f
<1>6. RowOK(q) /\ Len(q.history) = 0
  BY <1>3, <1>5, PublishRow
<1> HIDE DEF q
<1>7. queue[j].status = "ABSENT"
  BY DEF Enqueue
<1>8. Len(queue[j].history) = 0 /\ ~ (queue[j].lease > 0)
  BY <1>3, <1>7 DEF RowOK, WellLeased
<1>9. /\ Table(queue') /\ Extends(queue', queue)
      /\ \A k \in Jobs : queue[k].lease > 0 => queue'[k].token = queue[k].token
  BY <1>4, <1>6, <1>8, NewRow
<1>10. QED
  BY <1>9, NewTable, InvariantTable, SyncEventOfType DEF Enqueue

(* A claim that finds nothing eligible still expires leases.                *)
LEMMA ClaimNoneKept ==
    ASSUME IInv, NEW late \in BOOLEAN, ClaimNone(late) PROVE Kept
<1>1. Table(queue) /\ queue' = Swept(late)
  BY InvariantTable DEF ClaimNone
<1>2. /\ Table(queue')
      /\ \A j \in Jobs : /\ Len(queue'[j].history) = Len(queue[j].history)
                         /\ queue[j].lease > 0 => queue'[j].token = queue[j].token
  BY <1>1, SweptTable
<1>3. Extends(queue', queue)
  BY <1>1, <1>2, SameLength
<1>4. QED
  BY <1>2, <1>3, NewTable, InvariantTable, SyncEventsType DEF ClaimNone

(* A claim issues the next token to one worker and takes no unexpired       *)
(* lease.                                                                   *)
LEMMA ClaimKept ==
    ASSUME IInv, NEW j \in Jobs, NEW d \in Durations, NEW late \in BOOLEAN,
           Claim(j, d, late)
    PROVE  Kept
<1> DEFINE f == Swept(late)
           q == Lease(f[j], d)
<1>1. /\ Table(f) /\ Table(queue)
      /\ \A k \in Jobs : /\ Len(f[k].history) = Len(queue[k].history)
                         /\ queue[k].lease > 0 => /\ f[k].token = queue[k].token
                                                  /\ f[k].status = "LEASED"
  BY SweptTable, InvariantTable
<1>2. /\ f[j].status = "QUEUED" /\ f[j].budget < f[j].max
      /\ queue' = [f EXCEPT ![j] = q]
      /\ live' = [live EXCEPT ![j] = @ \cup {queue'[j].token}]
  BY DEF Claim, Eligible
<1>3. d \in Nat
  BY QueueConstants
<1> HIDE DEF f
<1>4. /\ RowOK(q) /\ q.token = Len(q.history)
      /\ Len(q.history) = Len(f[j].history) + 1
  BY <1>1, <1>2, <1>3, LeaseRow DEF Table
<1> HIDE DEF q
<1>5. /\ queue' \in [Jobs -> Job]
      /\ \A k \in Jobs : queue'[k] = IF k = j THEN q ELSE f[k]
  BY <1>1, <1>2, <1>4 DEF Table, RowOK
<1>6. Table(queue')
  BY <1>1, <1>4, <1>5 DEF Table
<1>7. \A k \in Jobs : Len(queue[k].history) \in Nat
  BY <1>1, HistoryType DEF Table
<1>8. Extends(queue', queue)
  BY <1>1, <1>4, <1>5, <1>7 DEF Extends
<1>9. /\ live \in [Jobs -> SUBSET Nat]
      /\ \A k \in Jobs : live[k] \subseteq 1..Len(queue'[k].history)
  BY <1>1, <1>6, <1>8, InvariantTable, TokensStayIssued
<1>10. q.token \in Nat /\ q.token \in 1..Len(q.history)
  BY <1>1, <1>4, <1>7
<1>11. /\ live' \in [Jobs -> SUBSET Nat]
       /\ \A k \in Jobs : live'[k] = IF k = j THEN live[j] \cup {q.token} ELSE live[k]
  BY <1>2, <1>5, <1>9, <1>10
<1>12. \A k \in Jobs : live'[k] \subseteq 1..Len(queue'[k].history)
  BY <1>5, <1>9, <1>10, <1>11
<1>13. event' \in [Jobs -> Event] /\ UNCHANGED <<run, processing>>
  BY SyncEventsType DEF Claim
<1>14. IInv'
  BY <1>6, <1>11, <1>12, <1>13, InvariantTable, InvariantTableNext
<1>15. \A k \in Jobs : queue[k].lease > 0 => queue'[k].token = queue[k].token
  BY <1>1, <1>2, <1>5
<1>16. QED
  BY <1>14, <1>15 DEF Kept, LeaseRespected

(* A renewal only prolongs a lease.                                         *)
LEMMA RenewedRow ==
    ASSUME NEW q, RowOK(q), q.status = "LEASED", NEW d \in Nat
    PROVE  /\ RowOK(Renewed(q, d)) /\ Renewed(q, d).history = q.history
           /\ Renewed(q, d).token = q.token
<1> DEFINE l == IF d > q.lease THEN d ELSE q.lease
           e == Renewed(q, d)
<1>1. q \in Job /\ WellLeased(q) /\ WithinBudget(q)
  BY DEF RowOK
<1>2. l \in Nat
  BY <1>1 DEF Job
<1>3. e = [q EXCEPT !.lease = l]
  BY DEF Renewed
<1> HIDE DEF l, e
<1>4. /\ e \in Job /\ e.status = q.status /\ e.token = q.token
      /\ e.history = q.history /\ SameTerms(e, q)
  BY <1>1, <1>2, <1>3 DEF Job, SameTerms
<1>5. WellLeased(e) /\ WithinBudget(e)
  BY <1>1, <1>4 DEF WellLeased, WithinBudget, SameTerms
<1>6. QED
  BY <1>4, <1>5 DEF RowOK, e

(* heartbeat: renewed, or refused with the loss on record.                  *)
LEMMA HeartbeatKept ==
    ASSUME IInv, NEW j \in Jobs, NEW t \in live[j], NEW d \in Durations,
           Heartbeat(j, t, d)
    PROVE  Kept
<1> DEFINE q == IF Owned(queue[j], t) THEN Renewed(queue[j], d) ELSE MarkLost(queue[j], t)
<1>1. /\ RowOK(queue[j]) /\ t \in 1..Len(queue[j].history) /\ d \in Nat
  BY InvariantTable, QueueConstants DEF Table
<1>2. RowOK(q) /\ Len(q.history) = Len(queue[j].history) /\ q.token = queue[j].token
  BY <1>1, RenewedRow, MarkLostRow DEF Owned
<1>3. queue' = [queue EXCEPT ![j] = q]
  BY DEF Heartbeat
<1> HIDE DEF q
<1>4. /\ Table(queue') /\ Extends(queue', queue)
      /\ \A k \in Jobs : queue[k].lease > 0 => queue'[k].token = queue[k].token
  BY <1>2, <1>3, NewRow
<1>5. QED
  BY <1>4, NewTable, InvariantTable DEF Heartbeat

(* The settlement of an owned delivery yields a well-formed row, whatever   *)
(* the worker reported.                                                     *)
LEMMA SettledRow ==
    ASSUME NEW q, RowOK(q), q.status = "LEASED", NEW r \in Run, NEW how \in Hows
    PROVE  RowOK(Settled(q, r, how)) /\ Len(Settled(q, r, how).history) = Len(q.history)
<1> DEFINE h == [how EXCEPT !.terminal = @ \/ r.limit]
<1>1. h \in Hows
  BY DEF Hows, Run
<1> HIDE DEF h
<1>2. RowOK(Failure(q, h)) /\ Len(Failure(q, h).history) = Len(q.history)
  BY <1>1, FailureRow
<1>3. CASE r.status \in Checkpoints
  BY <1>3, SettleRow DEF Settled
<1>4. CASE r.status \notin Checkpoints
  BY <1>2, <1>4 DEF Settled, h
<1>5. QED
  BY <1>3, <1>4

(* A worker gives up its token t and writes row q for its job.              *)
LEMMA TokenDropped ==
    ASSUME IInv, NEW j \in Jobs, NEW t, NEW q, RowOK(q),
           Len(q.history) = Len(queue[j].history),
           queue[j].lease > 0 /\ q.token # queue[j].token
              => queue[j].token = t /\ t \in live[j],
           queue' = [queue EXCEPT ![j] = q], live' = [live EXCEPT ![j] = @ \ {t}],
           UNCHANGED <<run, processing>>, event' \in [Jobs -> Event]
    PROVE  Kept
<1>1. /\ Table(queue) /\ queue \in [Jobs -> Job] /\ live \in [Jobs -> SUBSET Nat]
      /\ \A k \in Jobs : live[k] \subseteq 1..Len(queue[k].history)
  BY InvariantTable DEF Table
<1>2. /\ queue' \in [Jobs -> Job]
      /\ \A k \in Jobs : queue'[k] = IF k = j THEN q ELSE queue[k]
  BY <1>1 DEF RowOK
<1>3. Table(queue')
  BY <1>1, <1>2 DEF Table
<1>4. Extends(queue', queue)
  BY <1>1, <1>2, SameLength
<1>5. \A k \in Jobs : live[k] \subseteq 1..Len(queue'[k].history)
  BY <1>1, <1>3, <1>4, TokensStayIssued
<1>6. /\ live' \in [Jobs -> SUBSET Nat]
      /\ \A k \in Jobs : live'[k] = IF k = j THEN live[j] \ {t} ELSE live[k]
  BY <1>1
<1>7. \A k \in Jobs : live'[k] \subseteq 1..Len(queue'[k].history)
  BY <1>5, <1>6
<1>8. IInv'
  BY <1>3, <1>6, <1>7, InvariantTable, InvariantTableNext
<1>9. LeaseRespected
  BY <1>2, <1>6 DEF LeaseRespected
<1>10. QED
  BY <1>8, <1>9 DEF Kept

(* finish: the one operation that ends an unexpired lease, and only with    *)
(* its own token.                                                           *)
LEMMA FinishKept ==
    ASSUME IInv, NEW j \in Jobs, NEW t \in live[j], NEW how \in Reports,
           Finish(j, t, how)
    PROVE  Kept
<1>1. /\ RowOK(queue[j]) /\ run[j] \in Run /\ event \in [Jobs -> Event]
      /\ t \in 1..Len(queue[j].history) /\ how \in Hows
  BY InvariantTable, HowsType DEF Table, Reports
<1>2. CASE Owned(queue[j], t)
  <2> DEFINE p == Publish(queue[j], run[j])
             q == Settled(p, run[j], how)
  <2>1. p = queue[j] /\ queue[j].token = t /\ queue[j].status = "LEASED"
    BY <1>1, <1>2, PublishRow DEF Owned
  <2> HIDE DEF p
  <2>2. RowOK(q) /\ Len(q.history) = Len(queue[j].history)
    BY <1>1, <2>1, SettledRow
  <2>3. queue' = [queue EXCEPT ![j] = q]
    BY <1>2 DEF Finish, p
  <2> HIDE DEF q
  <2>4. event' \in [Jobs -> Event]
    BY <1>2, SyncEventOfType DEF Finish
  <2>5. QED
    BY <2>1, <2>2, <2>3, <2>4, TokenDropped DEF Finish
<1>3. CASE ~ Owned(queue[j], t)
  <2> DEFINE q == MarkLost(queue[j], t)
  <2>1. RowOK(q) /\ Len(q.history) = Len(queue[j].history) /\ q.token = queue[j].token
    BY <1>1, MarkLostRow
  <2>2. queue' = [queue EXCEPT ![j] = q] /\ event' = event
    BY <1>3 DEF Finish
  <2> HIDE DEF q
  <2>3. QED
    BY <1>1, <2>1, <2>2, TokenDropped DEF Finish
<1>4. QED
  BY <1>2, <1>3

(* A worker that dies leaves the database as it is.                         *)
LEMMA WorkerStopsKept ==
    ASSUME IInv, NEW j \in Jobs, NEW t \in live[j], WorkerStops(j, t) PROVE Kept
<1> DEFINE q == queue[j]
<1>1. RowOK(q) /\ queue \in [Jobs -> Job] /\ event \in [Jobs -> Event]
  BY InvariantTable DEF Table
<1>2. queue' = [queue EXCEPT ![j] = q]
  BY <1>1 DEF WorkerStops
<1>3. QED
  BY <1>1, <1>2, TokenDropped DEF WorkerStops

(* A replayed dead letter starts a fresh budget and keeps its attempts.     *)
LEMMA ResetRow ==
    ASSUME NEW q, RowOK(q), q.status = "DEAD_LETTER", NEW m \in 1..10
    PROVE  RowOK(Reset(q, m)) /\ Reset(q, m).history = q.history
<1> DEFINE n == q.replays + 1
           e == Reset(q, m)
<1>1. q \in Job /\ WellLeased(q)
  BY DEF RowOK
<1>2. n \in Nat
  BY <1>1 DEF Job
<1>3. e = [q EXCEPT !.status = "QUEUED", !.budget = 0, !.max = m, !.avail = 0, !.replays = n]
  BY DEF Reset
<1> HIDE DEF n, e
<1>4. /\ e \in Job /\ e.status = "QUEUED" /\ e.token = q.token /\ e.lease = q.lease
      /\ e.history = q.history /\ e.attempts = q.attempts /\ e.budget = 0 /\ e.max = m
  <2>1. "QUEUED" \in JobStatus /\ 0 \in Nat /\ 0 \in Int
    BY DEF JobStatus
  <2>2. /\ e.status = "QUEUED" /\ e.token = q.token /\ e.lease = q.lease
        /\ e.history = q.history /\ e.attempts = q.attempts /\ e.budget = 0 /\ e.max = m
    BY <1>1, <1>3 DEF Job
  <2>3. e \in Job
    BY <1>1, <1>2, <1>3, <2>1 DEF Job
  <2>4. QED
    BY <2>2, <2>3
<1>5. WellLeased(e)
  BY <1>1, <1>4 DEF WellLeased
<1>6. WithinBudget(e)
  BY <1>4 DEF WithinBudget
<1>7. QED
  BY <1>4, <1>5, <1>6 DEF RowOK, e

(* replay never meets an unexpired lease: only dead letters are replayed.   *)
LEMMA ReplayKept ==
    ASSUME IInv, NEW j \in Jobs, NEW m \in Limits, Replay(j, m) PROVE Kept
<1> DEFINE f == ReconciledTable
           q == Reset(f[j], m)
<1>1. /\ Table(f) /\ Table(queue)
      /\ \A k \in Jobs : /\ Len(f[k].history) = Len(queue[k].history)
                         /\ queue[k].lease > 0 => f[k] = queue[k]
  BY ReconcileTable, InvariantTable
<1>2. f[j].status = "DEAD_LETTER" /\ queue' = [f EXCEPT ![j] = q]
  BY DEF Replay, ReconciledTable
<1> HIDE DEF f
<1>3. RowOK(q) /\ q.history = f[j].history
  BY <1>1, <1>2, ResetRow, QueueConstants DEF Table
<1> HIDE DEF q
<1>4. /\ queue' \in [Jobs -> Job]
      /\ \A k \in Jobs : queue'[k] = IF k = j THEN q ELSE f[k]
  BY <1>1, <1>2, <1>3 DEF Table, RowOK
<1>5. Table(queue')
  BY <1>1, <1>3, <1>4 DEF Table
<1>6. \A k \in Jobs : Len(queue'[k].history) = Len(queue[k].history)
  BY <1>1, <1>3, <1>4
<1>7. Extends(queue', queue)
  BY <1>1, <1>6, SameLength
<1>8. ~ (queue[j].lease > 0)
  <2>1. SUFFICES ASSUME queue[j].lease > 0 PROVE FALSE
    OBVIOUS
  <2>2. queue[j].status = "LEASED"
    BY <1>1, <2>1 DEF Table, RowOK, WellLeased
  <2>3. QED
    BY <1>1, <1>2, <2>1, <2>2
<1>9. \A k \in Jobs : queue[k].lease > 0 => queue'[k].token = queue[k].token
  BY <1>1, <1>4, <1>8
<1>10. QED
  BY <1>5, <1>7, <1>9, NewTable, InvariantTable, SyncEventsType DEF Replay

(* The steps of the environment leave the queue alone.                      *)
LEMMA EnvironmentKept ==
    ASSUME IInv, NEW j \in Jobs,
           EventClaim(j) \/ EventFail(j) \/ EventDropped(j) \/ Workflow(j)
    PROVE  Kept
<1>1. /\ Table(queue) /\ run \in [Jobs -> Run] /\ event \in [Jobs -> Event]
      /\ processing \in [Jobs -> Phases]
  BY InvariantTable
<1>2. UNCHANGED <<queue, live>>
  BY DEF EventClaim, EventFail, EventDropped, Workflow
<1>3. Extends(queue', queue)
  BY <1>1, <1>2, SameLength
<1>4. event' \in [Jobs -> Event]
  <2> DEFINE c == [status |-> "CLAIMED", retryable |-> FALSE]
            f == [status |-> "FAILED", retryable |-> TRUE]
  <2>1. c \in Event /\ f \in Event
    BY DEF Event, EventStatus
  <2>2. event' = event \/ event' = [event EXCEPT ![j] = c] \/ event' = [event EXCEPT ![j] = f]
    BY DEF EventClaim, EventFail, EventDropped, Workflow
  <2> HIDE DEF c, f
  <2>3. QED
    BY <1>1, <2>1, <2>2
<1>5. run' \in [Jobs -> Run] /\ processing' \in [Jobs -> Phases]
  BY <1>1 DEF EventClaim, EventFail, EventDropped, Workflow, Phases
<1>6. QED
  BY <1>1, <1>2, <1>3, <1>4, <1>5, NewTable

(* Every step preserves the invariant and respects unexpired leases.        *)
LEMMA NextKept == ASSUME IInv, [Next]_vars PROVE Kept
<1>1. CASE UNCHANGED vars
  <2>1. UNCHANGED <<queue, run, event, processing, live>>
    BY <1>1 DEF vars
  <2>2. IInv'
    BY <2>1 DEF IInv, TypeOK, LeaseShape, BudgetBound
  <2>3. QED
    BY <2>1, <2>2 DEF Kept, LeaseRespected
<1>2. CASE Tick
  BY <1>2, TickKept
<1>3. CASE Observe \/ PublishAll
  BY <1>3, ObserveKept, PublishAllKept
<1>4. ASSUME NEW late \in BOOLEAN, ClaimNone(late) PROVE Kept
  BY <1>4, ClaimNoneKept
<1>5. ASSUME NEW j \in Jobs, PublishRun(j) \/ EventEnd(j) PROVE Kept
  BY <1>5, PublishRunKept
<1>6. ASSUME NEW j \in Jobs, EventClaim(j) \/ EventFail(j) \/ EventDropped(j) \/ Workflow(j)
      PROVE  Kept
  BY <1>6, EnvironmentKept
<1>7. ASSUME NEW j \in Jobs, NEW p \in Priorities, NEW m \in Limits, Enqueue(j, p, m)
      PROVE  Kept
  BY <1>7, EnqueueKept
<1>8. ASSUME NEW j \in Jobs, NEW d \in Durations, NEW late \in BOOLEAN, Claim(j, d, late)
      PROVE  Kept
  BY <1>8, ClaimKept
<1>9. ASSUME NEW j \in Jobs, NEW m \in Limits, Replay(j, m) PROVE Kept
  BY <1>9, ReplayKept
<1>10. ASSUME NEW j \in Jobs, NEW t \in live[j], WorkerStops(j, t) PROVE Kept
  BY <1>10, WorkerStopsKept
<1>11. ASSUME NEW j \in Jobs, NEW t \in live[j], NEW d \in Durations, Heartbeat(j, t, d)
       PROVE  Kept
  BY <1>11, HeartbeatKept
<1>12. ASSUME NEW j \in Jobs, NEW t \in live[j], NEW how \in Reports, Finish(j, t, how)
       PROVE  Kept
  BY <1>12, FinishKept
<1>13. QED
  BY <1>1, <1>2, <1>3, <1>4, <1>5, <1>6, <1>7, <1>8, <1>9, <1>10, <1>11, <1>12 DEF Next

----------------------------------------------------------------------------
(* The inductive invariant holds in every reachable state of the queue,     *)
(* for any number of jobs and workers (all operations of queue.py).         *)
THEOREM Invariance == Spec => []IInv
<1>1. Init => IInv
  BY InitKept
<1>2. IInv /\ [Next]_vars => IInv'
  BY NextKept DEF Kept
<1>3. QED
  BY <1>1, <1>2, PTL DEF Spec

(* Whatever processes interleave, every record keeps its type: a budget is  *)
(* never refunded below zero and a lease's remaining time never negative.   *)
THEOREM TypeCorrect == Spec => []TypeOK
<1>1. IInv => TypeOK
  BY DEF IInv
<1>2. QED
  BY <1>1, Invariance, PTL

(* Every job has at most one attempt under way, fenced by the last token.   *)
THEOREM LeasesWellShaped == Spec => []LeaseShape
<1>1. IInv => LeaseShape
  BY DEF IInv
<1>2. QED
  BY <1>1, Invariance, PTL

(* No job is delivered beyond its budget or left queued with none.          *)
THEOREM BudgetsBounded == Spec => []BudgetBound
<1>1. IInv => BudgetBound
  BY DEF IInv
<1>2. QED
  BY <1>1, Invariance, PTL

(* Only the settlement of the worker that holds it ends an unexpired lease. *)
THEOREM LeasesExclusive == Spec => LeaseExclusive
<1>1. IInv /\ [Next]_vars
      => [\A j \in Jobs : queue[j].lease > 0 /\ queue'[j].token # queue[j].token
                          => queue[j].token \in live[j] \ live'[j]]_vars
  BY NextKept DEF Kept, LeaseRespected
<1>2. QED
  BY <1>1, Invariance, PTL DEF Spec, LeaseExclusive

----------------------------------------------------------------------------
(* No token is revived.                                                     *)

(* p is leased only if q was, to the same worker                            *)
Keeps(p, q) == p.lease > 0 => q.lease > 0 /\ p.token = q.token

NoRevival ==
    \A j \in Jobs : \A t \in 1..Len(queue[j].history) :
        queue'[j].token = t /\ queue'[j].lease > 0
        => queue[j].token = t /\ queue[j].lease > 0

(* A job that reached a checkpoint or failed is leased to nobody.           *)
LEMMA EndedUnleased ==
    ASSUME NEW q, RowOK(q), NEW s \in Checkpoints, NEW how \in Hows
    PROVE  Settle(q, s).lease = 0 /\ Failure(q, how).lease = 0
<1> DEFINE o == Outcome(how)
           d == IF how.terminal \/ Exhausted(q, how) THEN "DEAD_LETTER" ELSE "QUEUED"
           e == EndAttempt(q, s, FALSE)
           f == EndAttempt(q, o, how.expired)
<1>1. q \in Job /\ WellLeased(q) /\ how.expired \in BOOLEAN
  BY DEF RowOK, Hows
<1>2. o \in Outcomes \ {"RUNNING"} /\ s \in Outcomes \ {"RUNNING"}
  BY DEF Outcome, Outcomes, Checkpoints
<1> HIDE DEF o
<1>3. e \in Job /\ f \in Job
  BY <1>1, <1>2, EndAttemptRow
<1> HIDE DEF e, f
<1>4. Release(e, s).lease = 0
  BY <1>3 DEF Release, Job
<1> DEFINE r == Release(f, d)
<1>5. r.lease = 0 /\ DOMAIN r = DOMAIN f
  BY <1>3 DEF Release, Job
<1>6. Failure(q, how) = [r EXCEPT !.avail = Delay(q, how), !.replayable = ~ how.terminal,
                                  !.budget = IF how.busy THEN @ - 1 ELSE @]
  BY DEF Failure, Buried, r, f, o, d
<1> HIDE DEF r
<1>7. Failure(q, how).lease = 0
  BY <1>3, <1>5, <1>6 DEF Job
<1>8. QED
  BY <1>4, <1>7 DEF Settle, e

(* Synchronization grants no lease.                                         *)
LEMMA SyncKeeps ==
    ASSUME NEW q, RowOK(q), NEW r \in Run, NEW recover \in BOOLEAN
    PROVE  Keeps(SyncJob(q, r, recover), q)
<1>1. /\ r.status \in Checkpoints => Settle(q, r.status).lease = 0
      /\ Failure(q, Terminal).lease = 0 /\ Failure(q, Plain).lease = 0
  <2>1. "SUCCEEDED" \in Checkpoints
    BY DEF Checkpoints
  <2>2. QED
    BY <2>1, EndedUnleased, HowsType
<1>2. QED
  BY <1>1 DEF SyncJob, Keeps

(* ... however often it is repeated in a transaction.                       *)
LEMMA ReconcileKeeps ==
    ASSUME NEW q, RowOK(q), NEW r \in Run
    PROVE  Keeps(Publish(q, r), q) /\ Keeps(Reconcile(q, r), q)
<1> DEFINE p == Publish(q, r)
<1>1. RowOK(p) /\ Keeps(p, q)
  BY PublishRow, SyncKeeps DEF Publish
<1> HIDE DEF p
<1>2. Keeps(SyncJob(p, r, TRUE), p)
  BY <1>1, SyncKeeps
<1>3. QED
  BY <1>1, <1>2 DEF Keeps, Reconcile, p

(* Time only runs leases down.                                              *)
LEMMA AgedKeeps ==
    ASSUME NEW f, Table(f), NEW j \in Jobs
    PROVE  Keeps(Aged(f)[j], f[j])
<1>1. f[j] \in Job
  BY DEF Table
<1>2. Aged(f)[j] = [f[j] EXCEPT !.lease = IF f[j].lease > 0 THEN f[j].lease - 1 ELSE 0,
                                !.avail = AgedAvail(f, f[j].avail)]
  BY DEF Aged
<1>3. QED
  BY <1>1, <1>2 DEF Keeps, Job

(* What a claim finds when it selects is leased no longer than before.      *)
LEMMA SweptKeeps ==
    ASSUME IInv, NEW late \in BOOLEAN, NEW j \in Jobs
    PROVE  Keeps(ReconciledTable[j], queue[j]) /\ Keeps(Swept(late)[j], queue[j])
<1> DEFINE synced  == ReconciledTable
           expired == {k \in Jobs : synced[k].status = "LEASED" /\ synced[k].lease = 0}
           then    == IF late THEN Aged(synced) ELSE synced
<1>1. RowOK(queue[j]) /\ run[j] \in Run
  BY InvariantTable DEF Table
<1>2. Table(synced) /\ Keeps(synced[j], queue[j])
  BY <1>1, ReconcileTable, ReconcileKeeps DEF ReconciledTable
<1>3. Swept(late)[j] = IF j \in expired THEN Failure(then[j], Expired) ELSE then[j]
  BY DEF Swept, ReconciledTable
<1> HIDE DEF synced, expired
<1>4. RowOK(then[j]) /\ Keeps(then[j], synced[j])
  BY <1>2, AgedTable, AgedKeeps DEF Table, Keeps
<1> HIDE DEF then
<1>5. Failure(then[j], Expired).lease = 0
  <2>1. "SUCCEEDED" \in Checkpoints
    BY DEF Checkpoints
  <2>2. QED
    BY <1>4, <2>1, EndedUnleased, HowsType
<1>6. Keeps(Swept(late)[j], synced[j])
  BY <1>3, <1>4, <1>5 DEF Keeps
<1>7. QED
  BY <1>2, <1>6 DEF Keeps, synced

(* The evidence of a loss is no lease.                                      *)
LEMMA MarkLostKeeps ==
    ASSUME NEW q, RowOK(q), NEW t \in 1..Len(q.history)
    PROVE  Keeps(MarkLost(q, t), q)
<1>1. q \in Job
  BY DEF RowOK
<1>2. QED
  BY <1>1 DEF Keeps, MarkLost, SetAttempt, Job

(* A step after which every job is leased as before, or to nobody.          *)
LEMMA AllKeep ==
    ASSUME \A j \in Jobs : Keeps(queue'[j], queue[j]) PROVE NoRevival
  BY DEF NoRevival, Keeps

(* A step that replaces one row.                                            *)
LEMMA RowKeeps ==
    ASSUME IInv, NEW j \in Jobs, NEW q, Keeps(q, queue[j]), queue' = [queue EXCEPT ![j] = q]
    PROVE  NoRevival
<1>1. queue \in [Jobs -> Job]
  BY InvariantTable DEF Table
<1>2. \A k \in Jobs : queue'[k] = IF k = j THEN q ELSE queue[k]
  BY <1>1
<1>3. QED
  BY <1>2, AllKeep DEF Keeps

(* A claim's token is newer than every token handed out before.             *)
LEMMA ClaimFresh ==
    ASSUME IInv, NEW j \in Jobs, NEW d \in Durations, NEW late \in BOOLEAN,
           Claim(j, d, late)
    PROVE  NoRevival
<1> DEFINE f == Swept(late)
           q == Lease(f[j], d)
<1>1. /\ Table(f) /\ Table(queue) /\ Len(f[j].history) = Len(queue[j].history)
      /\ \A k \in Jobs : Keeps(f[k], queue[k])
  BY SweptTable, SweptKeeps, InvariantTable
<1>2. /\ f[j].status = "QUEUED" /\ f[j].budget < f[j].max
      /\ queue' = [f EXCEPT ![j] = q]
  BY DEF Claim, Eligible
<1>3. d \in Nat
  BY QueueConstants
<1> HIDE DEF f
<1>4. RowOK(q) /\ q.token = Len(queue[j].history) + 1
  BY <1>1, <1>2, <1>3, LeaseRow DEF Table
<1> HIDE DEF q
<1>5. \A k \in Jobs : queue'[k] = IF k = j THEN q ELSE f[k]
  BY <1>1, <1>2 DEF Table
<1>6. Len(queue[j].history) \in Nat
  BY <1>1, HistoryType DEF Table
<1>7. \A t \in 1..Len(queue[j].history) : queue'[j].token # t
  BY <1>4, <1>5, <1>6
<1>8. QED
  BY <1>1, <1>5, <1>7 DEF NoRevival, Keeps

(* heartbeat renews only what is unexpired and owned.                       *)
LEMMA HeartbeatFresh ==
    ASSUME IInv, NEW j \in Jobs, NEW t \in live[j], NEW d \in Durations,
           Heartbeat(j, t, d)
    PROVE  NoRevival
<1> DEFINE q == IF Owned(queue[j], t) THEN Renewed(queue[j], d) ELSE MarkLost(queue[j], t)
<1>1. RowOK(queue[j]) /\ t \in 1..Len(queue[j].history) /\ d \in Nat
  BY InvariantTable, QueueConstants DEF Table
<1>2. Keeps(q, queue[j])
  BY <1>1, RenewedRow, MarkLostKeeps DEF Keeps, Owned
<1>3. queue' = [queue EXCEPT ![j] = q]
  BY DEF Heartbeat
<1> HIDE DEF q
<1>4. QED
  BY <1>2, <1>3, RowKeeps

(* finish ends a lease or leaves it to its owner.                           *)
LEMMA FinishFresh ==
    ASSUME IInv, NEW j \in Jobs, NEW t \in live[j], NEW how \in Reports,
           Finish(j, t, how)
    PROVE  NoRevival
<1>1. RowOK(queue[j]) /\ run[j] \in Run /\ t \in 1..Len(queue[j].history) /\ how \in Hows
  BY InvariantTable, HowsType DEF Table, Reports
<1> DEFINE p == Publish(queue[j], run[j])
           s == Settled(p, run[j], how)
           q == IF Owned(queue[j], t) THEN s ELSE MarkLost(queue[j], t)
<1>2. RowOK(p)
  BY <1>1, PublishRow
<1> HIDE DEF p
<1>3. s.lease = 0
  <2> DEFINE h == [how EXCEPT !.terminal = @ \/ run[j].limit]
  <2>1. h \in Hows /\ "SUCCEEDED" \in Checkpoints
    BY <1>1 DEF Hows, Run, Checkpoints
  <2> HIDE DEF h
  <2>2. /\ Failure(p, h).lease = 0
        /\ run[j].status \in Checkpoints => Settle(p, run[j].status).lease = 0
    BY <1>2, <2>1, EndedUnleased
  <2>3. QED
    BY <2>2 DEF Settled, h
<1> HIDE DEF s
<1>4. Keeps(q, queue[j])
  BY <1>1, <1>3, MarkLostKeeps DEF Keeps
<1>5. queue' = [queue EXCEPT ![j] = q]
  BY DEF Finish, p, s
<1> HIDE DEF q
<1>6. QED
  BY <1>4, <1>5, RowKeeps

(* replay leaves the dead letter unleased.                                  *)
LEMMA ReplayFresh ==
    ASSUME IInv, NEW j \in Jobs, NEW m \in Limits, Replay(j, m) PROVE NoRevival
<1> DEFINE f == ReconciledTable
           q == Reset(f[j], m)
<1>1. Table(f) /\ \A k \in Jobs : Keeps(f[k], queue[k])
  BY ReconcileTable, SweptKeeps
<1>2. queue' = [f EXCEPT ![j] = q]
  BY DEF Replay, ReconciledTable
<1> HIDE DEF f
<1>3. Keeps(q, f[j])
  BY <1>1 DEF Keeps, Reset, Table, Job
<1> HIDE DEF q
<1>4. \A k \in Jobs : queue'[k] = IF k = j THEN q ELSE f[k]
  BY <1>1, <1>2 DEF Table
<1>5. QED
  BY <1>1, <1>3, <1>4, AllKeep DEF Keeps

(* A new job is leased to nobody.                                           *)
LEMMA EnqueueFresh ==
    ASSUME IInv, NEW j \in Jobs, NEW p \in Priorities, NEW m \in Limits,
           Enqueue(j, p, m)
    PROVE  NoRevival
<1> DEFINE n == NewJob(p, m)
           f == Publish(n, run[j])
           q == Publish(f, run[j])
<1>1. RowOK(n) /\ n.lease = 0 /\ run[j] \in Run
  BY QueueConstants, NewJobRow, InvariantTable DEF NewJob
<1>2. queue' = [queue EXCEPT ![j] = q]
  BY DEF Enqueue
<1> HIDE DEF n
<1>3. RowOK(f) /\ Keeps(f, n)
  BY <1>1, PublishRow, ReconcileKeeps
<1> HIDE DEF f
<1>4. Keeps(q, f)
  BY <1>1, <1>3, ReconcileKeeps
<1> HIDE DEF q
<1>5. Keeps(q, queue[j])
  BY <1>1, <1>3, <1>4 DEF Keeps
<1>6. QED
  BY <1>2, <1>5, RowKeeps

(* The transactions that only synchronize, and the passing of time.         *)
LEMMA SynchronizingFresh ==
    ASSUME IInv, \/ Tick \/ Observe \/ PublishAll
                 \/ \E late \in BOOLEAN : ClaimNone(late)
                 \/ \E j \in Jobs : Synchronized(j)
    PROVE  NoRevival
<1>1. /\ Table(queue)
      /\ \A j \in Jobs : RowOK(queue[j]) /\ run[j] \in Run
  BY InvariantTable DEF Table
<1>2. CASE Tick
  BY <1>1, <1>2, AgedKeeps, AllKeep DEF Tick
<1>3. CASE Observe
  BY <1>1, <1>3, ReconcileKeeps, AllKeep DEF Observe
<1>4. CASE PublishAll
  BY <1>1, <1>4, ReconcileKeeps, AllKeep DEF PublishAll
<1>5. ASSUME NEW late \in BOOLEAN, ClaimNone(late) PROVE NoRevival
  <2>1. queue' = Swept(late)
    BY <1>5 DEF ClaimNone
  <2>2. \A j \in Jobs : Keeps(Swept(late)[j], queue[j])
    BY SweptKeeps
  <2>3. QED
    BY <2>1, <2>2, AllKeep
<1>6. ASSUME NEW j \in Jobs, Synchronized(j) PROVE NoRevival
  BY <1>1, <1>6, ReconcileKeeps, RowKeeps DEF Synchronized
<1>7. QED
  BY <1>2, <1>3, <1>4, <1>5, <1>6

(* No step revives a token.                                                 *)
LEMMA NextFresh == ASSUME IInv, [Next]_vars PROVE NoRevival
<1>1. CASE UNCHANGED queue
  BY <1>1 DEF NoRevival
<1>2. CASE \/ Tick \/ Observe \/ PublishAll \/ \E late \in BOOLEAN : ClaimNone(late)
  BY <1>2, SynchronizingFresh
<1>3. ASSUME NEW j \in Jobs, PublishRun(j) \/ EventEnd(j) PROVE NoRevival
  <2>1. Synchronized(j)
    BY <1>3 DEF PublishRun, EventEnd
  <2>2. QED
    BY <2>1, SynchronizingFresh
<1>4. ASSUME NEW j \in Jobs, NEW p \in Priorities, NEW m \in Limits, Enqueue(j, p, m)
      PROVE  NoRevival
  BY <1>4, EnqueueFresh
<1>5. ASSUME NEW j \in Jobs, NEW d \in Durations, NEW late \in BOOLEAN, Claim(j, d, late)
      PROVE  NoRevival
  BY <1>5, ClaimFresh
<1>6. ASSUME NEW j \in Jobs, NEW m \in Limits, Replay(j, m) PROVE NoRevival
  BY <1>6, ReplayFresh
<1>7. ASSUME NEW j \in Jobs, NEW t \in live[j], NEW d \in Durations, Heartbeat(j, t, d)
      PROVE  NoRevival
  BY <1>7, HeartbeatFresh
<1>8. ASSUME NEW j \in Jobs, NEW t \in live[j], NEW how \in Reports, Finish(j, t, how)
      PROVE  NoRevival
  BY <1>8, FinishFresh
<1>9. ASSUME NEW j \in Jobs,
             \/ EventClaim(j) \/ EventFail(j) \/ EventDropped(j) \/ Workflow(j)
             \/ \E t \in live[j] : WorkerStops(j, t)
      PROVE  UNCHANGED queue
  BY <1>9 DEF EventClaim, EventFail, EventDropped, Workflow, WorkerStops
<1>10. QED
  BY <1>1, <1>2, <1>3, <1>4, <1>5, <1>6, <1>7, <1>8, <1>9 DEF Next, vars

(* A worker that lost its lease stays without it, whatever it sends and     *)
(* whatever is claimed after it: tokens are not handed out twice.           *)
THEOREM LeasesNeverRevived == Spec => LeaseNeverRevived
<1>1. IInv /\ [Next]_vars
      => [\A j \in Jobs : \A t \in 1..Len(queue[j].history) :
            queue'[j].token = t /\ queue'[j].lease > 0
            => queue[j].token = t /\ queue[j].lease > 0]_vars
  BY NextFresh DEF NoRevival
<1>2. QED
  BY <1>1, Invariance, PTL DEF Spec, LeaseNeverRevived

----------------------------------------------------------------------------
(* Records: a job, its attempts and its run *)

(* The attempts of the current generation are charged, and none is of a     *)
(* later one; the attempt under way belongs to the current generation.      *)
Accounted(q) ==
    /\ q.budget = Cardinality(Charged(q))
    /\ \A n \in 1..Len(q.history) : q.history[n].replay <= q.replays
    /\ q.token # NoToken => q.history[q.token].replay = q.replays

(* p has the attempts of q, each of them ended as it had.                   *)
SameHistory(p, q) ==
    /\ Len(q.history) <= Len(p.history)
    /\ \A n \in 1..Len(q.history) :
          /\ p.history[n].replay = q.history[n].replay
          /\ q.history[n].outcome # "RUNNING" => p.history[n].outcome = q.history[n].outcome

(* A job says no more than its run has reached.                             *)
NotAhead(q, r) ==
    /\ q.status = "SUCCEEDED" => r.status = "SUCCEEDED"
    /\ q.status = "WAITING_FOR_APPROVAL" => r.asked

(* From q to p a job only moved to where its run has come to a rest.        *)
Obeys(p, q, r) ==
    p.status # q.status
    => /\ r.status \in Checkpoints => p.status = r.status
       /\ r.limit => p.status = "DEAD_LETTER"

(* where a run at rest has left a job that no worker holds                  *)
Decided(q, r) ==
    /\ r.status \in Checkpoints => q.status = r.status
    /\ r.limit => q.status = "DEAD_LETTER" /\ ~ q.replayable

(* How a run is recorded: one that waits asked for approval, and one whose  *)
(* revisions are used up has failed.                                        *)
RunOK(r) ==
    /\ r.status = "WAITING_FOR_APPROVAL" => r.asked
    /\ r.limit => r.status = "FAILED"

(* One row, and one row after an operation on it.                           *)
Sound(q, r) == RowOK(q) /\ Accounted(q) /\ NotAhead(q, r)

Continues(p, q, r) == Sound(p, r) /\ SameHistory(p, q) /\ Obeys(p, q, r)

----------------------------------------------------------------------------
(* Attempts *)

(* A row whose attempt under way, if any, ended with outcome o.             *)
EndedAs(p, q, o) ==
    /\ Len(p.history) = Len(q.history)
    /\ p.replays = q.replays
    /\ p.token = NoToken
    /\ \A n \in 1..Len(q.history) :
          /\ p.history[n].replay = q.history[n].replay
          /\ p.history[n].outcome = IF n = q.token THEN o ELSE q.history[n].outcome

(* end_attempt writes to the attempt under way and to no other.             *)
LEMMA EndAttemptEnds ==
    ASSUME NEW q \in Job, WellLeased(q),
           NEW o \in Outcomes \ {"RUNNING"}, NEW lost \in BOOLEAN
    PROVE  LET e == EndAttempt(q, o, lost)
           IN  \A n \in 1..Len(q.history) :
                  /\ e.history[n].replay = q.history[n].replay
                  /\ e.history[n].outcome = IF n = q.token THEN o ELSE q.history[n].outcome
<1>1. CASE q.token = NoToken
  <2>1. \A n \in 1..Len(q.history) : n # q.token
    BY <1>1, HistoryType DEF NoToken
  <2>2. QED
    BY <1>1, <2>1 DEF EndAttempt
<1>2. CASE q.token # NoToken
  <2> DEFINE a == [q.history[q.token] EXCEPT !.outcome = o, !.lost = lost]
  <2>1. q.token \in 1..Len(q.history) /\ q.history[q.token].outcome = "RUNNING"
    BY <1>2, HistoryType DEF WellLeased, Job, NoToken
  <2>2. a \in Attempt /\ a.outcome = o /\ a.replay = q.history[q.token].replay
    BY <2>1, HistoryType DEF Attempt
  <2>3. EndAttempt(q, o, lost) = SetAttempt(q, q.token, a)
    BY <1>2, <2>1 DEF EndAttempt
  <2> HIDE DEF a
  <2>4. \A n \in 1..Len(q.history) :
           SetAttempt(q, q.token, a).history[n] = IF n = q.token THEN a ELSE q.history[n]
    BY <2>1, <2>2, ReplaceAttempt
  <2>5. QED
    BY <2>1, <2>2, <2>3, <2>4
<1>3. QED
  BY <1>1, <1>2

(* ... and the release that follows leaves the attempts alone.              *)
LEMMA ReleaseEnds ==
    ASSUME NEW q \in Job, WellLeased(q), NEW s \in JobStatus \ {"LEASED"},
           NEW o \in Outcomes \ {"RUNNING"}, NEW lost \in BOOLEAN
    PROVE  LET p == Release(EndAttempt(q, o, lost), s)
           IN  EndedAs(p, q, o) /\ p.budget = q.budget /\ p.status = s
<1> DEFINE e == EndAttempt(q, o, lost)
           p == Release(e, s)
<1>1. /\ e \in Job /\ SameTerms(e, q) /\ Len(e.history) = Len(q.history)
      /\ \A n \in 1..Len(q.history) :
            /\ e.history[n].replay = q.history[n].replay
            /\ e.history[n].outcome = IF n = q.token THEN o ELSE q.history[n].outcome
  BY EndAttemptRow, EndAttemptEnds
<1> HIDE DEF e
<1>2. /\ p.history = e.history /\ p.replays = e.replays /\ p.budget = e.budget
      /\ p.token = NoToken /\ p.status = s
  BY <1>1 DEF Release, Job
<1> HIDE DEF p
<1>3. EndedAs(p, q, o) /\ p.budget = q.budget /\ p.status = s
  BY <1>1, <1>2 DEF EndedAs, SameTerms
<1>4. QED
  BY <1>3 DEF p, e

(* settle *)
LEMMA SettleEnds ==
    ASSUME NEW q, RowOK(q), NEW s \in Checkpoints
    PROVE  /\ EndedAs(Settle(q, s), q, s)
           /\ Settle(q, s).budget = q.budget /\ Settle(q, s).status = s
<1>1. q \in Job /\ WellLeased(q)
  BY DEF RowOK
<1>2. s \in JobStatus \ {"LEASED"} /\ s \in Outcomes \ {"RUNNING"} /\ FALSE \in BOOLEAN
  BY DEF Checkpoints, JobStatus, Outcomes
<1> DEFINE p == Release(EndAttempt(q, s, FALSE), s)
<1>3. EndedAs(p, q, s) /\ p.budget = q.budget /\ p.status = s
  BY <1>1, <1>2, ReleaseEnds
<1>4. QED
  BY <1>3 DEF Settle

(* failure: the attempt ends, the job is buried or queued again, and only a *)
(* deferral is refunded.                                                    *)
LEMMA FailureEnds ==
    ASSUME NEW q, RowOK(q), NEW how \in Hows
    PROVE  LET p == Failure(q, how)
           IN  /\ EndedAs(p, q, Outcome(how))
               /\ p.budget = IF how.busy THEN q.budget - 1 ELSE q.budget
               /\ p.status = IF how.terminal \/ Exhausted(q, how) THEN "DEAD_LETTER"
                             ELSE "QUEUED"
               /\ p.replayable = (~ how.terminal)
<1> DEFINE o == Outcome(how)
           s == IF how.terminal \/ Exhausted(q, how) THEN "DEAD_LETTER" ELSE "QUEUED"
           d == Buried(q, how)
           p == Failure(q, how)
<1>1. q \in Job /\ WellLeased(q) /\ how.expired \in BOOLEAN
  BY DEF RowOK, Hows
<1>2. o \in Outcomes \ {"RUNNING"} /\ s \in JobStatus \ {"LEASED"}
  BY DEF Outcome, Outcomes, JobStatus
<1>3. d = Release(EndAttempt(q, o, how.expired), s)
  BY DEF Buried
<1> HIDE DEF o, s, d
<1>4. d \in Job /\ EndedAs(d, q, o) /\ d.budget = q.budget /\ d.status = s
  BY <1>1, <1>2, <1>3, ReleaseRow, ReleaseEnds
<1>5. p = [d EXCEPT !.avail = Delay(q, how), !.replayable = ~ how.terminal,
                    !.budget = IF how.busy THEN @ - 1 ELSE @]
  BY DEF Failure, d
<1> HIDE DEF p
<1>6. /\ p.history = d.history /\ p.replays = d.replays /\ p.token = d.token
      /\ p.status = d.status /\ p.replayable = (~ how.terminal)
      /\ p.budget = IF how.busy THEN d.budget - 1 ELSE d.budget
  BY <1>4, <1>5 DEF Job
<1>7. EndedAs(p, q, o)
  BY <1>4, <1>6 DEF EndedAs
<1>8. QED
  BY <1>4, <1>6, <1>7 DEF p, o, s

(* To end what is under way rewrites nothing that has ended.                *)
LEMMA EndedHistory ==
    ASSUME NEW p, NEW q, RowOK(q), NEW o, EndedAs(p, q, o)
    PROVE  SameHistory(p, q)
<1>1. Len(q.history) \in Nat
  BY HistoryType DEF RowOK
<1>2. QED
  BY <1>1 DEF EndedAs, SameHistory, RowOK, WellLeased

----------------------------------------------------------------------------
(* Budgets *)

(* The attempts that are charged are finitely many.                         *)
LEMMA ChargedFinite ==
    ASSUME NEW q, RowOK(q)
    PROVE  IsFiniteSet(Charged(q)) /\ Cardinality(Charged(q)) \in Nat
<1>1. IsFiniteSet(1..Len(q.history))
  BY HistoryType, FS_Interval DEF RowOK
<1>2. Charged(q) \subseteq 1..Len(q.history)
  BY DEF Charged
<1>3. QED
  BY <1>1, <1>2, FS_Subset, FS_CardinalityType

(* A row with the same generation, the same attempts and the same of them   *)
(* deferred spent the same.                                                 *)
LEMMA SameCharges ==
    ASSUME NEW p, NEW q, p.replays = q.replays, Len(p.history) = Len(q.history),
           \A n \in 1..Len(q.history) :
              /\ p.history[n].replay = q.history[n].replay
              /\ p.history[n].outcome = "DEFERRED" <=> q.history[n].outcome = "DEFERRED"
    PROVE  Charged(p) = Charged(q)
  BY DEF Charged

(* An attempt that ends stays charged, unless it is deferred, which takes   *)
(* one charge back.                                                         *)
LEMMA EndedAccounted ==
    ASSUME NEW p, NEW q, RowOK(q), Accounted(q), NEW o \in Outcomes, EndedAs(p, q, o),
           \/ o # "DEFERRED" /\ p.budget = q.budget
           \/ o = "DEFERRED" /\ p.budget = q.budget - 1 /\ q.status = "LEASED"
    PROVE  Accounted(p)
<1>1. /\ \A n \in 1..Len(p.history) : p.history[n].replay <= p.replays
      /\ p.token = NoToken
  BY DEF Accounted, EndedAs
<1>2. CASE o # "DEFERRED"
  <2>1. \A n \in 1..Len(q.history) : n = q.token => q.history[n].outcome = "RUNNING"
    BY DEF RowOK, WellLeased
  <2>2. Charged(p) = Charged(q)
    BY <1>2, <2>1, SameCharges DEF EndedAs
  <2>3. QED
    BY <1>1, <1>2, <2>2 DEF Accounted
<1>3. CASE o = "DEFERRED"
  <2>1. /\ q.token # NoToken /\ q.token \in 1..Len(q.history)
        /\ q.history[q.token].outcome = "RUNNING"
    BY <1>3, HistoryType DEF RowOK, WellLeased, Job, NoToken
  <2>2. q.token \in Charged(q)
    BY <2>1 DEF Accounted, Charged
  <2>3. Charged(p) = Charged(q) \ {q.token}
    BY <1>3 DEF EndedAs, Charged
  <2>4. Cardinality(Charged(p)) = Cardinality(Charged(q)) - 1
    BY <2>2, <2>3, ChargedFinite, FS_RemoveElement
  <2>5. QED
    BY <1>1, <1>3, <2>4 DEF Accounted
<1>4. QED
  BY <1>2, <1>3

(* A row with the attempts, the generation, the token and the budget of     *)
(* another spent as much of it.                                             *)
LEMMA AccountedSame ==
    ASSUME NEW p, NEW q, Accounted(q), p.history = q.history, p.replays = q.replays,
           p.token = q.token, p.budget = q.budget
    PROVE  Accounted(p)
<1>1. Charged(p) = Charged(q)
  BY SameCharges
<1>2. QED
  BY <1>1 DEF Accounted

(* claim charges the attempt it adds.                                       *)
LEMMA LeaseAccounted ==
    ASSUME NEW q, RowOK(q), Accounted(q), NEW d \in Nat
    PROVE  Accounted(Lease(q, d)) /\ SameHistory(Lease(q, d), q)
           /\ Lease(q, d).status = "LEASED"
<1> DEFINE a == [replay |-> q.replays, outcome |-> "RUNNING", lost |-> FALSE, notes |-> 0]
           h == Append(q.history, a)
           e == Lease(q, d)
           m == Len(q.history) + 1
<1>1. q \in Job /\ q.replays \in Nat /\ q.attempts = Len(q.history)
  BY DEF RowOK, Job, WellLeased
<1>2. a \in Attempt /\ a.outcome = "RUNNING" /\ a.replay = q.replays
  BY <1>1 DEF Attempt, Outcomes
<1>3. q.history \in Seq(Attempt) /\ Len(q.history) \in Nat
      /\ \A n \in 1..Len(q.history) : q.history[n] \in Attempt
  BY <1>1, HistoryType
<1> HIDE DEF a
<1>4. /\ Len(h) = m
      /\ \A n \in 1..Len(q.history) : h[n] = q.history[n]
      /\ h[m] = a
  BY <1>2, <1>3, AppendProperties
<1> HIDE DEF h
<1>5. e = [q EXCEPT !.status = "LEASED", !.token = q.attempts + 1, !.lease = d,
                    !.attempts = @ + 1, !.budget = @ + 1, !.history = h]
  BY DEF Lease, a, h
<1> HIDE DEF e
<1>6. /\ e.history = h /\ e.replays = q.replays /\ e.token = m
      /\ e.budget = q.budget + 1 /\ e.status = "LEASED"
  BY <1>1, <1>5 DEF Job
<1>7. m \notin Charged(q) /\ Charged(e) = Charged(q) \cup {m}
  <2>1. 1..Len(h) = 1..Len(q.history) \cup {m} /\ m \notin 1..Len(q.history)
    BY <1>3, <1>4
  <2> HIDE DEF m
  <2>2. QED
    BY <1>2, <1>4, <1>6, <2>1 DEF Charged
<1>8. Cardinality(Charged(e)) = Cardinality(Charged(q)) + 1
  BY <1>7, ChargedFinite, FS_AddElement
<1>9. \A n \in 1..Len(h) : h[n].replay <= q.replays
  BY <1>1, <1>2, <1>3, <1>4 DEF Accounted
<1>10. Accounted(e)
  BY <1>2, <1>4, <1>6, <1>8, <1>9 DEF Accounted
<1>11. SameHistory(e, q)
  BY <1>3, <1>4, <1>6 DEF SameHistory
<1>12. QED
  BY <1>6, <1>10, <1>11 DEF e

(* replay opens a generation nothing was spent in.                          *)
LEMMA ResetAccounted ==
    ASSUME NEW q, RowOK(q), q.status = "DEAD_LETTER", Accounted(q), NEW m \in 1..10
    PROVE  Accounted(Reset(q, m)) /\ SameHistory(Reset(q, m), q)
           /\ Reset(q, m).status = "QUEUED"
<1> DEFINE g == q.replays + 1
           e == Reset(q, m)
<1>1. q \in Job /\ WellLeased(q) /\ q.replays \in Nat
  BY DEF RowOK, Job
<1>2. e = [q EXCEPT !.status = "QUEUED", !.budget = 0, !.max = m, !.avail = 0,
                    !.replays = g]
  BY DEF Reset
<1>3. g > q.replays
  BY <1>1
<1> HIDE DEF e, g
<1>4. /\ e.history = q.history /\ e.replays = g /\ e.token = q.token /\ e.budget = 0
      /\ e.status = "QUEUED"
  BY <1>1, <1>2 DEF Job
<1>5. q.token = NoToken
  BY <1>1 DEF WellLeased
<1>6. /\ Len(q.history) \in Nat
      /\ \A n \in 1..Len(q.history) : /\ q.history[n].replay <= q.replays
                                      /\ q.history[n].replay \in Nat
  BY <1>1, HistoryType DEF Accounted, Attempt
<1>7. \A n \in 1..Len(q.history) : q.history[n].replay < g
  BY <1>1, <1>6 DEF g
<1>8. Charged(e) = {}
  BY <1>4, <1>6, <1>7 DEF Charged, g
<1>9. g \in Nat
  BY <1>1 DEF g
<1>10. Accounted(e)
  BY <1>4, <1>5, <1>6, <1>7, <1>8, <1>9, FS_EmptySet DEF Accounted
<1>11. SameHistory(e, q)
  BY <1>4, <1>6 DEF SameHistory
<1>12. QED
  BY <1>4, <1>10, <1>11 DEF e

(* A rejected caller's evidence of its loss costs nothing and rewrites      *)
(* nothing.                                                                 *)
LEMMA MarkLostAccounted ==
    ASSUME NEW q, RowOK(q), Accounted(q), NEW t \in 1..Len(q.history)
    PROVE  /\ Accounted(MarkLost(q, t)) /\ SameHistory(MarkLost(q, t), q)
           /\ MarkLost(q, t).status = q.status
<1>1. q \in Job /\ Len(q.history) \in Nat
  BY HistoryType DEF RowOK
<1>2. CASE q.history[t].lost
  BY <1>1, <1>2 DEF MarkLost, SameHistory
<1>3. CASE ~ q.history[t].lost
  <2> DEFINE b == q.history[t]
             n == b.notes + 1
             a == [b EXCEPT !.lost = TRUE, !.notes = n]
             e == SetAttempt(q, t, a)
  <2>1. b \in Attempt
    BY <1>1, HistoryType
  <2>2. n \in Nat
    BY <2>1 DEF Attempt
  <2>3. MarkLost(q, t) = e
    BY <1>3 DEF MarkLost
  <2> HIDE DEF b, n
  <2>4. a \in Attempt /\ a.outcome = b.outcome /\ a.replay = b.replay
    BY <2>1, <2>2 DEF Attempt
  <2> HIDE DEF a
  <2>5. /\ SameTerms(e, q) /\ e.status = q.status /\ e.token = q.token
        /\ Len(e.history) = Len(q.history)
        /\ \A i \in 1..Len(q.history) : e.history[i] = IF i = t THEN a ELSE q.history[i]
    BY <1>1, <2>4, ReplaceAttempt
  <2> HIDE DEF e
  <2>6. \A i \in 1..Len(q.history) : /\ e.history[i].replay = q.history[i].replay
                                     /\ e.history[i].outcome = q.history[i].outcome
    BY <2>4, <2>5 DEF b
  <2>7. Charged(e) = Charged(q)
    BY <2>5, <2>6, SameCharges DEF SameTerms
  <2>8. q.token # NoToken => q.token \in 1..Len(q.history)
    BY <1>1 DEF RowOK, WellLeased, Job, NoToken
  <2>9. Accounted(e)
    BY <2>5, <2>6, <2>7, <2>8 DEF Accounted, SameTerms
  <2>10. SameHistory(e, q)
    BY <1>1, <2>5, <2>6 DEF SameHistory
  <2>11. QED
    BY <2>3, <2>5, <2>9, <2>10
<1>4. QED
  BY <1>2, <1>3

----------------------------------------------------------------------------
(* Synchronization *)

(* A failure, refunded or not, leaves a row that accounts for itself.       *)
LEMMA FailureContinues ==
    ASSUME NEW q, RowOK(q), Accounted(q), NEW how \in Hows,
           how.busy => q.status = "LEASED" /\ ~ how.expired
    PROVE  LET p == Failure(q, how)
           IN  /\ RowOK(p) /\ Accounted(p) /\ SameHistory(p, q)
               /\ p.status \in {"QUEUED", "DEAD_LETTER"}
               /\ how.terminal => p.status = "DEAD_LETTER" /\ ~ p.replayable
<1> DEFINE p == Failure(q, how)
           o == Outcome(how)
<1>1. RowOK(p)
  BY FailureRow
<1>2. /\ EndedAs(p, q, o)
      /\ p.budget = IF how.busy THEN q.budget - 1 ELSE q.budget
      /\ p.status = IF how.terminal \/ Exhausted(q, how) THEN "DEAD_LETTER" ELSE "QUEUED"
      /\ p.replayable = (~ how.terminal)
  BY FailureEnds
<1>3. o \in Outcomes /\ (o = "DEFERRED" <=> how.busy /\ ~ how.expired)
  BY DEF Outcome, Outcomes
<1> HIDE DEF p, o
<1>4. Accounted(p)
  BY <1>2, <1>3, EndedAccounted
<1>5. SameHistory(p, q)
  BY <1>2, EndedHistory
<1>6. QED
  BY <1>1, <1>2, <1>4, <1>5 DEF p

(* Settling at the checkpoint the run has reached.                          *)
LEMMA SettleContinues ==
    ASSUME NEW q, RowOK(q), Accounted(q), NEW r \in Run, RunOK(r), r.status \in Checkpoints
    PROVE  Continues(Settle(q, r.status), q, r) /\ Decided(Settle(q, r.status), r)
<1> DEFINE p == Settle(q, r.status)
<1>1. RowOK(p) /\ EndedAs(p, q, r.status) /\ p.budget = q.budget /\ p.status = r.status
  BY SettleRow, SettleEnds
<1>2. r.status \in Outcomes /\ r.status # "DEFERRED" /\ ~ r.limit
  BY DEF Checkpoints, Outcomes, RunOK
<1> HIDE DEF p
<1>3. Accounted(p) /\ SameHistory(p, q)
  BY <1>1, <1>2, EndedAccounted, EndedHistory
<1>4. NotAhead(p, r) /\ Obeys(p, q, r) /\ Decided(p, r)
  BY <1>1, <1>2 DEF NotAhead, Obeys, Decided, RunOK
<1>5. QED
  BY <1>1, <1>3, <1>4 DEF Continues, Sound, p

(* A row continues itself.                                                  *)
LEMMA ContinuesSelf ==
    ASSUME NEW q, NEW r, Sound(q, r) PROVE Continues(q, q, r)
<1>1. Len(q.history) \in Nat
  BY HistoryType DEF Sound, RowOK
<1>2. QED
  BY <1>1 DEF Continues, SameHistory, Obeys

(* Two operations on a row in one transaction.                              *)
LEMMA ContinuesTwice ==
    ASSUME NEW p, NEW q, NEW q2, NEW r, Sound(q, r), Continues(q2, q, r), Continues(p, q2, r)
    PROVE  Continues(p, q, r)
<1>1. /\ Len(q.history) \in Nat /\ Len(q2.history) \in Nat /\ Len(p.history) \in Nat
  BY HistoryType DEF Continues, Sound, RowOK
<1>2. SameHistory(p, q)
  BY <1>1 DEF Continues, SameHistory
<1>3. Obeys(p, q, r)
  BY DEF Continues, Obeys
<1>4. QED
  BY <1>2, <1>3 DEF Continues

(* synchronize: what it does to a job follows the run, and a job it is not  *)
(* to leave alone is decided afterwards.                                    *)
LEMMA SyncContinues ==
    ASSUME NEW q, NEW r \in Run, RunOK(r), Sound(q, r), NEW recover \in BOOLEAN
    PROVE  LET p == SyncJob(q, r, recover)
           IN  /\ Continues(p, q, r)
               /\ \/ p.status = "ABSENT"
                  \/ q.status = "LEASED" /\ ~ (recover /\ q.lease = 0) /\ p = q
                  \/ Decided(p, r)
<1> DEFINE p == SyncJob(q, r, recover)
           Leave == q.status = "LEASED" /\ ~ (recover /\ q.lease = 0)
<1>1. RowOK(q) /\ Accounted(q) /\ NotAhead(q, r) /\ Continues(q, q, r)
  BY ContinuesSelf DEF Sound
<1>2. CASE q.status = "ABSENT" \/ r.status = "NONE" \/ Leave
  <2>1. p = q
    BY <1>2 DEF SyncJob
  <2>2. r.status = "NONE" => Decided(p, r)
    BY DEF Decided, RunOK, Checkpoints
  <2>3. QED
    BY <1>1, <1>2, <2>1, <2>2
<1>3. CASE ~ (q.status = "ABSENT" \/ r.status = "NONE" \/ Leave) /\ r.status \in Checkpoints
  <2>1. p = IF q.status = r.status THEN q ELSE Settle(q, r.status)
    BY <1>3 DEF SyncJob
  <2>2. q.status = r.status => Decided(q, r)
    BY <1>3 DEF Decided, RunOK, Checkpoints
  <2> HIDE DEF p
  <2>3. Continues(p, q, r) /\ Decided(p, r)
    BY <1>1, <1>3, <2>1, <2>2, SettleContinues
  <2>4. QED
    BY <2>3 DEF p
<1>4. CASE /\ ~ (q.status = "ABSENT" \/ r.status = "NONE" \/ Leave)
           /\ r.status \notin Checkpoints /\ Overrules(q, r)
  <2>1. p = Failure(q, Terminal)
    BY <1>4 DEF SyncJob
  <2>2. Terminal.terminal /\ ~ Terminal.busy
    BY DEF Terminal, Plain
  <2>3. /\ RowOK(p) /\ Accounted(p) /\ SameHistory(p, q)
        /\ p.status = "DEAD_LETTER" /\ ~ p.replayable
    BY <1>1, <2>1, <2>2, HowsType, FailureContinues
  <2> HIDE DEF p
  <2>4. NotAhead(p, r) /\ Obeys(p, q, r) /\ Decided(p, r)
    BY <1>4, <2>3 DEF NotAhead, Obeys, Decided
  <2>5. QED
    BY <2>3, <2>4 DEF Continues, Sound, p
<1>5. CASE /\ ~ (q.status = "ABSENT" \/ r.status = "NONE" \/ Leave)
           /\ r.status \notin Checkpoints /\ ~ Overrules(q, r)
           /\ r.status = "FAILED" /\ q.status = "WAITING_FOR_APPROVAL"
  <2>1. p = Failure(q, Plain)
    BY <1>5 DEF SyncJob
  <2>2. ~ Plain.busy
    BY DEF Plain
  <2>3. /\ RowOK(p) /\ Accounted(p) /\ SameHistory(p, q)
        /\ p.status \in {"QUEUED", "DEAD_LETTER"}
    BY <1>1, <2>1, <2>2, HowsType, FailureContinues
  <2>4. ~ r.limit
    BY <1>5 DEF Overrules
  <2> HIDE DEF p
  <2>5. NotAhead(p, r) /\ Obeys(p, q, r) /\ Decided(p, r)
    BY <1>5, <2>3, <2>4 DEF NotAhead, Obeys, Decided
  <2>6. QED
    BY <2>3, <2>5 DEF Continues, Sound, p
<1>6. CASE /\ ~ (q.status = "ABSENT" \/ r.status = "NONE" \/ Leave)
           /\ r.status \notin Checkpoints /\ ~ Overrules(q, r)
           /\ ~ (r.status = "FAILED" /\ q.status = "WAITING_FOR_APPROVAL")
  <2>1. p = q
    BY <1>6 DEF SyncJob
  <2>2. Decided(p, r)
    BY <1>6, <2>1 DEF Decided, Overrules, RunOK
  <2>3. QED
    BY <1>1, <2>1, <2>2
<1>7. QED
  BY <1>2, <1>3, <1>4, <1>5, <1>6

(* where a job stands once it was reconciled with its run                   *)
Reconciled(p, r) ==
    \/ p.status = "ABSENT"
    \/ p.status = "LEASED" /\ p.lease # 0
    \/ Decided(p, r)

(* ... and so does the synchronization that recovers expired leases, which  *)
(* leaves only unexpired ones undecided.                                    *)
LEMMA ReconcileContinues ==
    ASSUME NEW q, NEW r \in Run, RunOK(r), Sound(q, r)
    PROVE  /\ Continues(Publish(q, r), q, r)
           /\ Continues(Reconcile(q, r), q, r)
           /\ Reconciled(Reconcile(q, r), r)
<1> DEFINE p == Publish(q, r)
           x == SyncJob(p, r, TRUE)
<1>1. Continues(p, q, r)
  BY SyncContinues DEF Publish
<1> HIDE DEF p
<1>2. Sound(p, r)
  BY <1>1 DEF Continues
<1>3. /\ Continues(x, p, r)
      /\ \/ x.status = "ABSENT"
         \/ p.status = "LEASED" /\ p.lease # 0 /\ x = p
         \/ Decided(x, r)
  BY <1>2, SyncContinues
<1> HIDE DEF x
<1>4. Continues(x, q, r) /\ Reconciled(x, r)
  BY <1>1, <1>3, ContinuesTwice DEF Reconciled
<1>5. QED
  BY <1>1, <1>4 DEF Reconcile, p, x

----------------------------------------------------------------------------
(* The records together *)

(* An event says no more than its run has reached and closes nothing that   *)
(* the run leaves open.                                                     *)
EventFits(e, r) ==
    /\ e.status = "COMPLETED" => r.status = "SUCCEEDED"
    /\ e.status = "WAITING_FOR_APPROVAL" => r.asked
    /\ e.status = "FAILED" /\ ~ e.retryable => r.limit

Records ==
    /\ IInv
    /\ \A j \in Jobs : /\ RunOK(run[j])
                       /\ Accounted(queue[j])
                       /\ NotAhead(queue[j], run[j])
                       /\ EventFits(event[j], run[j])

RowsContinue == \A j \in Jobs : Continues(queue'[j], queue[j], run[j])

(* The invariant, for one job.                                              *)
LEMMA RecordsRow ==
    ASSUME Records, NEW j \in Jobs
    PROVE  /\ run[j] \in Run /\ RunOK(run[j])
           /\ Sound(queue[j], run[j]) /\ Continues(queue[j], queue[j], run[j])
<1>1. run[j] \in Run /\ RowOK(queue[j])
  BY InvariantTable DEF Records, Table
<1>2. RunOK(run[j]) /\ Sound(queue[j], run[j])
  BY <1>1 DEF Records, Sound
<1>3. QED
  BY <1>1, <1>2, ContinuesSelf

(* A step that replaces the row of one job.                                 *)
LEMMA RowContinues ==
    ASSUME Records, NEW j \in Jobs, NEW q, Continues(q, queue[j], run[j]),
           queue' = [queue EXCEPT ![j] = q]
    PROVE  RowsContinue
<1>1. queue \in [Jobs -> Job]
  BY InvariantTable DEF Records, Table
<1>2. \A k \in Jobs : queue'[k] = IF k = j THEN q ELSE queue[k]
  BY <1>1
<1>3. QED
  BY <1>2, RecordsRow DEF RowsContinue

(* The passing of time spends nothing and decides nothing.                  *)
LEMMA AgedContinues ==
    ASSUME NEW f, Table(f), NEW j \in Jobs, NEW r, Sound(f[j], r)
    PROVE  Continues(Aged(f)[j], f[j], r) /\ Aged(f)[j].status = f[j].status
<1> DEFINE q == f[j]
           p == Aged(f)[j]
<1>1. /\ RowOK(p) /\ p.history = q.history /\ p.token = q.token /\ p.status = q.status
  BY AgedTable DEF Table
<1>2. q \in Job
  BY DEF Table
<1>3. p = [q EXCEPT !.lease = IF q.lease > 0 THEN q.lease - 1 ELSE 0,
                    !.avail = AgedAvail(f, q.avail)]
  BY DEF Aged
<1> HIDE DEF p, q
<1>4. p.replays = q.replays /\ p.budget = q.budget
  BY <1>2, <1>3 DEF Job
<1>5. Sound(q, r)
  BY DEF q
<1>6. Accounted(p)
  BY <1>1, <1>4, <1>5, AccountedSame DEF Sound
<1>7. SameHistory(p, q)
  BY <1>1, <1>5, ContinuesSelf DEF Continues, SameHistory
<1>8. Sound(p, r) /\ Obeys(p, q, r)
  BY <1>1, <1>5, <1>6 DEF Sound, NotAhead, Obeys
<1>9. QED
  BY <1>1, <1>7, <1>8 DEF Continues, p, q

(* What a claim finds when it selects follows the runs, even if leases      *)
(* expired and the clock advanced meanwhile; what is queued then belongs to *)
(* a run that is not at rest.                                               *)
LEMMA SweptContinues ==
    ASSUME Records, NEW late \in BOOLEAN, NEW j \in Jobs
    PROVE  /\ Continues(Swept(late)[j], queue[j], run[j])
           /\ Swept(late)[j].status = "QUEUED" =>
                 run[j].status \notin Checkpoints /\ ~ run[j].limit
<1> DEFINE synced  == ReconciledTable
           expired == {k \in Jobs : synced[k].status = "LEASED" /\ synced[k].lease = 0}
           then    == IF late THEN Aged(synced) ELSE synced
           fail    == Failure(then[j], Expired)
           Open    == run[j].status \notin Checkpoints /\ ~ run[j].limit
<1>1. run[j] \in Run /\ RunOK(run[j]) /\ Sound(queue[j], run[j])
  BY RecordsRow
<1>2. Table(synced)
  BY ReconcileTable DEF Records
<1>3. Continues(synced[j], queue[j], run[j]) /\ Reconciled(synced[j], run[j])
  BY <1>1, ReconcileContinues DEF ReconciledTable
<1>4. Swept(late)[j] = IF j \in expired THEN fail ELSE then[j]
  BY DEF Swept, ReconciledTable
<1> HIDE DEF synced
<1>5. /\ Continues(then[j], synced[j], run[j]) /\ then[j].status = synced[j].status
  BY <1>2, <1>3, AgedContinues, ContinuesSelf DEF Continues
<1> HIDE DEF then
<1>6. Continues(then[j], queue[j], run[j])
  BY <1>1, <1>3, <1>5, ContinuesTwice
<1>7. CASE j \in expired
  <2>1. Open
    BY <1>3, <1>7 DEF Reconciled, Decided, Checkpoints
  <2>2. Expired \in Hows /\ ~ Expired.busy
    BY HowsType DEF Expired, Plain
  <2>3. /\ RowOK(fail) /\ Accounted(fail) /\ SameHistory(fail, then[j])
        /\ fail.status \in {"QUEUED", "DEAD_LETTER"}
    BY <1>5, <2>2, FailureContinues DEF Continues, Sound
  <2> HIDE DEF fail
  <2>4. Continues(fail, then[j], run[j])
    BY <2>1, <2>3 DEF Continues, Sound, NotAhead, Obeys
  <2>5. Continues(fail, queue[j], run[j])
    BY <1>1, <1>6, <2>4, ContinuesTwice
  <2>6. QED
    BY <1>4, <1>7, <2>1, <2>5
<1>8. CASE j \notin expired
  <2>1. then[j].status = "QUEUED" => Open
    BY <1>3, <1>5 DEF Reconciled, Decided, Checkpoints
  <2>2. QED
    BY <1>4, <1>6, <1>8, <2>1
<1>9. QED
  BY <1>7, <1>8

(* claim: only a job whose run is not at rest is delivered.                 *)
LEMMA ClaimContinues ==
    ASSUME Records, NEW j \in Jobs, NEW d \in Durations, NEW late \in BOOLEAN,
           Claim(j, d, late)
    PROVE  RowsContinue
<1> DEFINE f == Swept(late)
           q == Lease(f[j], d)
<1>1. Table(f) /\ \A k \in Jobs : Continues(f[k], queue[k], run[k])
  BY SweptTable, SweptContinues DEF Records
<1>2. /\ f[j].status = "QUEUED" /\ f[j].budget < f[j].max
      /\ queue' = [f EXCEPT ![j] = q]
  BY DEF Claim, Eligible
<1>3. run[j].status \notin Checkpoints /\ ~ run[j].limit
  BY <1>2, SweptContinues
<1>4. d \in Nat
  BY QueueConstants
<1> HIDE DEF f
<1>5. RowOK(f[j]) /\ Accounted(f[j])
  BY <1>1 DEF Continues, Sound
<1>6. RowOK(q) /\ Accounted(q) /\ SameHistory(q, f[j]) /\ q.status = "LEASED"
  BY <1>2, <1>4, <1>5, LeaseRow, LeaseAccounted
<1> HIDE DEF q
<1>7. Continues(q, f[j], run[j])
  BY <1>3, <1>6 DEF Continues, Sound, NotAhead, Obeys
<1>8. Continues(q, queue[j], run[j])
  BY <1>1, <1>7, RecordsRow, ContinuesTwice
<1>9. \A k \in Jobs : queue'[k] = IF k = j THEN q ELSE f[k]
  BY <1>1, <1>2 DEF Table
<1>10. QED
  BY <1>1, <1>8, <1>9 DEF RowsContinue

(* heartbeat: renewed, or refused with the loss on record.                  *)
LEMMA HeartbeatContinues ==
    ASSUME Records, NEW j \in Jobs, NEW t \in live[j], NEW d \in Durations,
           Heartbeat(j, t, d)
    PROVE  RowsContinue
<1> DEFINE o == queue[j]
           n == Renewed(o, d)
           m == MarkLost(o, t)
           q == IF Owned(o, t) THEN n ELSE m
<1>1. RowOK(o) /\ t \in 1..Len(o.history) /\ d \in Nat
  BY InvariantTable, QueueConstants DEF Records, Table
<1>2. Sound(o, run[j]) /\ SameHistory(o, o)
  BY RecordsRow DEF Continues
<1>3. queue' = [queue EXCEPT ![j] = q]
  BY DEF Heartbeat
<1>4. o.status = "LEASED" => Continues(n, o, run[j])
  <2> SUFFICES ASSUME o.status = "LEASED" PROVE Continues(n, o, run[j])
    OBVIOUS
  <2>1. RowOK(n) /\ n.history = o.history /\ n.token = o.token
    BY <1>1, RenewedRow
  <2>2. n.status = o.status /\ n.replays = o.replays /\ n.budget = o.budget
    BY <1>1 DEF Renewed, RowOK, Job
  <2> HIDE DEF n, o
  <2>3. Accounted(n)
    BY <1>2, <2>1, <2>2, AccountedSame DEF Sound
  <2>4. QED
    BY <1>2, <2>1, <2>2, <2>3 DEF Continues, Sound, NotAhead, Obeys, SameHistory
<1>5. Continues(m, o, run[j])
  <2>1. RowOK(m) /\ Accounted(m) /\ SameHistory(m, o) /\ m.status = o.status
    BY <1>1, <1>2, MarkLostRow, MarkLostAccounted DEF Sound
  <2> HIDE DEF m, o
  <2>2. QED
    BY <1>2, <2>1 DEF Continues, Sound, NotAhead, Obeys
<1>6. Continues(q, o, run[j])
  BY <1>4, <1>5 DEF Owned
<1> HIDE DEF q
<1>7. QED
  BY <1>3, <1>6, RowContinues

(* The outcome of an owned delivery is the run's, whatever the worker says. *)
LEMMA SettledContinues ==
    ASSUME NEW q, NEW r \in Run, RunOK(r), Sound(q, r), q.status = "LEASED",
           NEW how \in Reports
    PROVE  Continues(Settled(q, r, how), q, r)
<1> DEFINE h == [how EXCEPT !.terminal = @ \/ r.limit]
           p == Failure(q, h)
<1>1. RowOK(q) /\ Accounted(q)
  BY DEF Sound
<1>2. CASE r.status \in Checkpoints
  BY <1>1, <1>2, SettleContinues DEF Settled
<1>3. CASE r.status \notin Checkpoints
  <2>1. how \in Hows /\ (how.busy => ~ how.expired)
    <3>1. how = Plain \/ how = Terminal \/ how = Busy
      BY DEF Reports
    <3>2. ~ Plain.expired /\ ~ Terminal.expired /\ ~ Busy.expired
      BY DEF Plain, Terminal, Busy
    <3>3. QED
      BY <3>1, <3>2, HowsType
  <2>2. h \in Hows
    BY <2>1 DEF Hows, Run
  <2>3. h.busy = how.busy /\ h.expired = how.expired /\ h.terminal = (how.terminal \/ r.limit)
    BY <2>1 DEF Hows
  <2>4. Settled(q, r, how) = p
    BY <1>3 DEF Settled
  <2> HIDE DEF h
  <2>5. /\ RowOK(p) /\ Accounted(p) /\ SameHistory(p, q)
        /\ p.status \in {"QUEUED", "DEAD_LETTER"}
        /\ h.terminal => p.status = "DEAD_LETTER"
    BY <1>1, <2>1, <2>2, <2>3, FailureContinues
  <2> HIDE DEF p
  <2>6. NotAhead(p, r) /\ Obeys(p, q, r)
    BY <1>3, <2>3, <2>5 DEF NotAhead, Obeys
  <2>7. QED
    BY <2>4, <2>5, <2>6 DEF Continues, Sound
<1>4. QED
  BY <1>2, <1>3

(* finish: the owner settles, everyone else is refused.                     *)
LEMMA FinishContinues ==
    ASSUME Records, NEW j \in Jobs, NEW t \in live[j], NEW how \in Reports,
           Finish(j, t, how)
    PROVE  RowsContinue
<1> DEFINE o == queue[j]
           p == Publish(o, run[j])
           s == Settled(p, run[j], how)
           m == MarkLost(o, t)
           q == IF Owned(o, t) THEN s ELSE m
<1>1. /\ RowOK(o) /\ t \in 1..Len(o.history)
      /\ run[j] \in Run /\ RunOK(run[j]) /\ Sound(o, run[j])
  BY InvariantTable, RecordsRow DEF Records, Table
<1>2. Owned(o, t) => Continues(s, o, run[j])
  <2> SUFFICES ASSUME Owned(o, t) PROVE Continues(s, o, run[j])
    OBVIOUS
  <2>1. o.status = "LEASED" /\ o.lease > 0
    BY DEF Owned
  <2>2. p = o
    BY <1>1, <2>1, PublishRow
  <2>3. QED
    BY <1>1, <2>1, <2>2, SettledContinues
<1>3. Continues(m, o, run[j])
  <2>1. RowOK(m) /\ Accounted(m) /\ SameHistory(m, o) /\ m.status = o.status
    BY <1>1, MarkLostRow, MarkLostAccounted DEF Sound
  <2> HIDE DEF m, o
  <2>2. QED
    BY <1>1, <2>1 DEF Continues, Sound, NotAhead, Obeys
<1>4. queue' = [queue EXCEPT ![j] = q]
  BY DEF Finish
<1>5. Continues(q, o, run[j])
  BY <1>2, <1>3
<1> HIDE DEF q
<1>6. QED
  BY <1>4, <1>5, RowContinues

(* replay: a dead letter that may be replayed belongs to a run not at rest. *)
LEMMA ReplayContinues ==
    ASSUME Records, NEW j \in Jobs, NEW m \in Limits, Replay(j, m)
    PROVE  RowsContinue
<1> DEFINE f == ReconciledTable
           q == Reset(f[j], m)
<1>1. \A k \in Jobs : /\ Continues(f[k], queue[k], run[k]) /\ Reconciled(f[k], run[k])
                      /\ Sound(queue[k], run[k])
  BY RecordsRow, ReconcileContinues DEF ReconciledTable
<1>2. /\ f[j].status = "DEAD_LETTER" /\ f[j].replayable
      /\ queue' = [f EXCEPT ![j] = q]
  BY DEF Replay, ReconciledTable
<1>3. Table(f) /\ m \in 1..10
  BY ReconcileTable, QueueConstants DEF Records
<1> HIDE DEF f
<1>4. run[j].status \notin Checkpoints /\ ~ run[j].limit
  BY <1>1, <1>2 DEF Reconciled, Decided, Checkpoints
<1>5. RowOK(f[j]) /\ Accounted(f[j])
  BY <1>1 DEF Continues, Sound
<1>6. RowOK(q) /\ Accounted(q) /\ SameHistory(q, f[j]) /\ q.status = "QUEUED"
  BY <1>2, <1>3, <1>5, ResetRow, ResetAccounted
<1> HIDE DEF q
<1>7. Continues(q, f[j], run[j])
  BY <1>4, <1>6 DEF Continues, Sound, NotAhead, Obeys
<1>8. Continues(q, queue[j], run[j])
  BY <1>1, <1>7, ContinuesTwice
<1>9. \A k \in Jobs : queue'[k] = IF k = j THEN q ELSE f[k]
  BY <1>2, <1>3 DEF Table
<1>10. QED
  BY <1>1, <1>8, <1>9 DEF RowsContinue

(* enqueue: a new job starts with nothing spent, where its run is.          *)
LEMMA EnqueueContinues ==
    ASSUME Records, NEW j \in Jobs, NEW p \in Priorities, NEW m \in Limits,
           Enqueue(j, p, m)
    PROVE  RowsContinue
<1> DEFINE n == NewJob(p, m)
           f == Publish(n, run[j])
           q == Publish(f, run[j])
<1>1. run[j] \in Run /\ RunOK(run[j]) /\ Sound(queue[j], run[j])
  BY RecordsRow
<1>2. RowOK(n) /\ Len(n.history) = 0 /\ n.status = "QUEUED" /\ n.budget = 0
      /\ n.token = NoToken
  BY QueueConstants, NewJobRow, EmptySeq DEF NewJob
<1>3. queue' = [queue EXCEPT ![j] = q] /\ queue[j].status = "ABSENT"
  BY DEF Enqueue
<1> HIDE DEF n
<1>4. Sound(n, run[j])
  <2>1. Charged(n) = {}
    BY <1>2 DEF Charged
  <2>2. Accounted(n)
    BY <1>2, <2>1, FS_EmptySet DEF Accounted
  <2>3. QED
    BY <1>2, <2>2 DEF Sound, NotAhead
<1>5. Continues(f, n, run[j]) /\ Decided(f, run[j])
  <2>1. /\ Continues(f, n, run[j])
        /\ f.status = "ABSENT" \/ Decided(f, run[j])
    BY <1>1, <1>2, <1>4, SyncContinues DEF Publish
  <2>2. f.status = "ABSENT" => Decided(f, run[j])
    BY <1>2, <2>1 DEF Continues, Obeys, Decided, Checkpoints
  <2>3. QED
    BY <2>1, <2>2
<1> HIDE DEF f
<1>6. Continues(q, f, run[j])
  BY <1>1, <1>5, ReconcileContinues DEF Continues
<1> HIDE DEF q
<1>7. Len(queue[j].history) = 0
  BY <1>1, <1>3 DEF Sound, RowOK, WellLeased
<1>8. Len(q.history) \in Nat
  BY <1>6, HistoryType DEF Continues, Sound, RowOK
<1>9. SameHistory(q, queue[j])
  BY <1>7, <1>8 DEF SameHistory
<1>10. Obeys(q, queue[j], run[j])
  BY <1>5, <1>6 DEF Continues, Obeys, Decided
<1>11. Continues(q, queue[j], run[j])
  BY <1>6, <1>9, <1>10 DEF Continues
<1>12. QED
  BY <1>3, <1>11, RowContinues

(* The transactions that only synchronize, and the passing of time.         *)
LEMMA SynchronizingContinues ==
    ASSUME Records, \/ Tick \/ Observe \/ PublishAll
                    \/ \E late \in BOOLEAN : ClaimNone(late)
                    \/ \E j \in Jobs : Synchronized(j)
    PROVE  RowsContinue
<1>1. /\ Table(queue)
      /\ \A j \in Jobs : /\ Sound(queue[j], run[j])
                         /\ Continues(Publish(queue[j], run[j]), queue[j], run[j])
                         /\ Continues(Reconcile(queue[j], run[j]), queue[j], run[j])
  BY InvariantTable, RecordsRow, ReconcileContinues DEF Records
<1>2. CASE Tick
  BY <1>1, <1>2, AgedContinues DEF Tick, RowsContinue
<1>3. CASE Observe
  BY <1>1, <1>3 DEF Observe, RowsContinue
<1>4. CASE PublishAll
  BY <1>1, <1>4 DEF PublishAll, RowsContinue
<1>5. ASSUME NEW late \in BOOLEAN, ClaimNone(late) PROVE RowsContinue
  <2>1. queue' = Swept(late)
    BY <1>5 DEF ClaimNone
  <2>2. QED
    BY <2>1, SweptContinues DEF RowsContinue
<1>6. ASSUME NEW j \in Jobs, Synchronized(j) PROVE RowsContinue
  BY <1>1, <1>6, RowContinues DEF Synchronized
<1>7. QED
  BY <1>2, <1>3, <1>4, <1>5, <1>6

(* Every step continues every job.                                          *)
LEMMA NextContinues == ASSUME Records, [Next]_vars PROVE RowsContinue
<1>1. CASE UNCHANGED queue
  BY <1>1, RecordsRow DEF RowsContinue
<1>2. CASE \/ Tick \/ Observe \/ PublishAll \/ \E late \in BOOLEAN : ClaimNone(late)
  BY <1>2, SynchronizingContinues
<1>3. ASSUME NEW j \in Jobs, PublishRun(j) \/ EventEnd(j) PROVE RowsContinue
  <2>1. Synchronized(j)
    BY <1>3 DEF PublishRun, EventEnd
  <2>2. QED
    BY <2>1, SynchronizingContinues
<1>4. ASSUME NEW j \in Jobs, NEW p \in Priorities, NEW m \in Limits, Enqueue(j, p, m)
      PROVE  RowsContinue
  BY <1>4, EnqueueContinues
<1>5. ASSUME NEW j \in Jobs, NEW d \in Durations, NEW late \in BOOLEAN, Claim(j, d, late)
      PROVE  RowsContinue
  BY <1>5, ClaimContinues
<1>6. ASSUME NEW j \in Jobs, NEW m \in Limits, Replay(j, m) PROVE RowsContinue
  BY <1>6, ReplayContinues
<1>7. ASSUME NEW j \in Jobs, NEW t \in live[j], NEW d \in Durations, Heartbeat(j, t, d)
      PROVE  RowsContinue
  BY <1>7, HeartbeatContinues
<1>8. ASSUME NEW j \in Jobs, NEW t \in live[j], NEW how \in Reports, Finish(j, t, how)
      PROVE  RowsContinue
  BY <1>8, FinishContinues
<1>9. ASSUME NEW j \in Jobs,
             \/ EventClaim(j) \/ EventFail(j) \/ EventDropped(j) \/ Workflow(j)
             \/ \E t \in live[j] : WorkerStops(j, t)
      PROVE  UNCHANGED queue
  BY <1>9 DEF EventClaim, EventFail, EventDropped, Workflow, WorkerStops
<1>10. QED
  BY <1>1, <1>2, <1>3, <1>4, <1>5, <1>6, <1>7, <1>8, <1>9 DEF Next, vars

----------------------------------------------------------------------------
(* Runs and events *)

(* A transaction of the workflow takes nothing back that was relied on.     *)
LEMMA RunStepKeeps ==
    ASSUME NEW r \in Run, NEW s \in Run, RunOK(r), RunStep(r, s)
    PROVE  /\ RunOK(s)
           /\ \A q : NotAhead(q, r) => NotAhead(q, s)
           /\ \A e : EventFits(e, r) => EventFits(e, s)
<1> DEFINE Keeping == /\ r.status # "SUCCEEDED" /\ (r.asked => s.asked)
                      /\ (r.limit => s.limit) /\ RunOK(s)
<1>1. ASSUME RunCreated(r, s) PROVE Keeping
  <2>1. s.status = "RUNNING" /\ ~ s.limit /\ ~ r.asked /\ ~ r.limit /\ r.status = "NONE"
    BY <1>1 DEF RunCreated, NoRun
  <2>2. QED
    BY <2>1 DEF RunOK
<1>2. ASSUME RunRestarted(r, s) \/ RunFailed(r, s) \/ RunDecidedOn(r, s) PROVE Keeping
  <2>1. /\ s.asked = r.asked /\ s.limit = r.limit /\ r.status # "SUCCEEDED"
        /\ s.status # "WAITING_FOR_APPROVAL"
    BY <1>2 DEF RunRestarted, RunFailed, RunDecidedOn, Run
  <2>2. ~ r.limit
    BY <1>2 DEF RunRestarted, RunFailed, RunDecidedOn, RunOK
  <2>3. QED
    BY <2>1, <2>2 DEF RunOK
<1>3. ASSUME RunPaused(r, s) \/ RunSucceeded(r, s) PROVE Keeping
  <2>1. /\ s.asked /\ s.limit = r.limit /\ r.status = "RUNNING"
    BY <1>3 DEF RunPaused, RunSucceeded, Run
  <2>2. ~ r.limit
    BY <2>1 DEF RunOK
  <2>3. QED
    BY <2>1, <2>2 DEF RunOK
<1>4. ASSUME RunLimited(r, s) PROVE Keeping
  <2>1. s.asked = r.asked /\ s.limit /\ s.status = "FAILED" /\ r.status = "RUNNING"
    BY <1>4 DEF RunLimited, Run
  <2>2. QED
    BY <2>1 DEF RunOK
<1>5. Keeping
  BY <1>1, <1>2, <1>3, <1>4 DEF RunStep
<1>6. QED
  BY <1>5 DEF NotAhead, EventFits

(* event_store.synchronize derives an event that fits its run.              *)
LEMMA SyncEventFits ==
    ASSUME NEW e \in Event, NEW r \in Run, RunOK(r), EventFits(e, r)
    PROVE  EventFits(SyncEvent(e, r), r)
<1>1. CASE r.status = "NONE"
  BY <1>1 DEF SyncEvent
<1>2. CASE r.status # "NONE"
  <2> DEFINE status == IF KeepsFailure(e, r) THEN "FAILED" ELSE StatusFor(r)
  <2>1. SyncEvent(e, r) = [status |-> status, retryable |-> status = "FAILED" /\ ~ r.limit]
    BY <1>2 DEF SyncEvent
  <2>2. /\ status = "COMPLETED" => r.status = "SUCCEEDED"
        /\ status = "WAITING_FOR_APPROVAL" => r.status = "WAITING_FOR_APPROVAL"
    BY DEF StatusFor, Run, RunStatus
  <2> HIDE DEF status
  <2>3. /\ SyncEvent(e, r).status = status
        /\ SyncEvent(e, r).retryable = (status = "FAILED" /\ ~ r.limit)
    BY <2>1
  <2> DEFINE x == SyncEvent(e, r)
  <2> HIDE DEF x
  <2>4. /\ x.status = "COMPLETED" => r.status = "SUCCEEDED"
        /\ x.status = "WAITING_FOR_APPROVAL" => r.asked
        /\ x.status = "FAILED" /\ ~ x.retryable => r.limit
    BY <2>2, <2>3 DEF RunOK, x
  <2>5. QED
    BY <2>4 DEF EventFits, x
<1>3. QED
  BY <1>1, <1>2

(* An empty database satisfies the invariant.                               *)
LEMMA InitRecords == Init => Records
<1> SUFFICES ASSUME Init, NEW j \in Jobs
             PROVE  /\ RunOK(run[j])
                    /\ Accounted(queue[j])
                    /\ NotAhead(queue[j], run[j])
                    /\ EventFits(event[j], run[j])
  BY InitKept DEF Records
<1>1. queue[j] = Absent /\ run[j] = NoRun /\ event[j] = NewEvent
  BY DEF Init
<1>2. Absent.history = << >> /\ Absent.status = "ABSENT"
      /\ Absent.budget = 0 /\ Absent.token = NoToken
  BY AbsentRow DEF Absent, NewJob
<1>3. Len(Absent.history) = 0
  BY <1>2, EmptySeq
<1>4. Charged(Absent) = {}
  BY <1>3 DEF Charged
<1>5. Accounted(Absent)
  BY <1>2, <1>3, <1>4, FS_EmptySet DEF Accounted
<1>6. RunOK(NoRun) /\ NotAhead(Absent, NoRun) /\ EventFits(NewEvent, NoRun)
  BY <1>2 DEF RunOK, NoRun, NotAhead, EventFits, NewEvent
<1>7. QED
  BY <1>1, <1>5, <1>6

(* What a step does to the event and the run of a job.                      *)
LEMMA NextFits ==
    ASSUME Records, [Next]_vars, NEW j \in Jobs
    PROVE  /\ RunOK(run'[j])
           /\ EventFits(event'[j], run'[j])
           /\ \A q : NotAhead(q, run[j]) => NotAhead(q, run'[j])
<1> DEFINE Fits == /\ RunOK(run'[j])
                   /\ EventFits(event'[j], run'[j])
                   /\ \A q : NotAhead(q, run[j]) => NotAhead(q, run'[j])
<1>1. /\ run \in [Jobs -> Run] /\ event \in [Jobs -> Event]
      /\ run' \in [Jobs -> Run]
      /\ RunOK(run[j]) /\ EventFits(event[j], run[j])
  BY InvariantTable, InvariantTableNext, NextKept DEF Records, Kept
<1>2. EventFits(SyncEvent(event[j], run[j]), run[j])
  BY <1>1, SyncEventFits
<1>3. CASE UNCHANGED run /\ event'[j] \in {event[j], SyncEvent(event[j], run[j])}
  BY <1>1, <1>2, <1>3
<1>4. CASE UNCHANGED <<run, event>>
  BY <1>3, <1>4
<1>5. CASE UNCHANGED run /\ SyncEvents
  <2>1. event'[j] = SyncEvent(event[j], run[j])
    BY <1>5 DEF SyncEvents
  <2>2. QED
    BY <1>3, <1>5, <2>1
<1>6. ASSUME UNCHANGED run, NEW k \in Jobs, SyncEventOf(k) PROVE Fits
  <2>1. event'[j] = IF j = k THEN SyncEvent(event[k], run[k]) ELSE event[j]
    BY <1>1, <1>6 DEF SyncEventOf
  <2>2. QED
    BY <1>3, <1>6, <2>1
<1>7. ASSUME NEW k \in Jobs, EventClaim(k) \/ EventFail(k) PROVE Fits
  <2>1. UNCHANGED run
    BY <1>7 DEF EventClaim, EventFail
  <2>2. \/ event'[j] = event[j]
        \/ event'[j] = [status |-> "CLAIMED", retryable |-> FALSE]
        \/ event'[j] = [status |-> "FAILED", retryable |-> TRUE]
    BY <1>1, <1>7 DEF EventClaim, EventFail
  <2>3. EventFits(event'[j], run[j])
    BY <1>1, <2>2 DEF EventFits
  <2>4. QED
    BY <1>1, <2>1, <2>3
<1>8. ASSUME NEW k \in Jobs, Workflow(k) PROVE Fits
  <2>1. UNCHANGED event
    BY <1>8 DEF Workflow
  <2>2. PICK s \in Run : RunStep(run[k], s) /\ run' = [run EXCEPT ![k] = s]
    BY <1>8 DEF Workflow
  <2>3. run'[j] = IF j = k THEN s ELSE run[j]
    BY <1>1, <2>2
  <2>4. CASE j # k
    BY <1>1, <2>1, <2>3, <2>4
  <2>5. CASE j = k
    BY <1>1, <2>1, <2>2, <2>3, <2>5, RunStepKeeps
  <2>6. QED
    BY <2>4, <2>5
<1>9. CASE Tick \/ Observe \/ PublishAll \/ \E late \in BOOLEAN : ClaimNone(late)
  BY <1>4, <1>5, <1>9 DEF Tick, Observe, PublishAll, ClaimNone
<1>10. ASSUME NEW k \in Jobs, PublishRun(k) \/ EventEnd(k) \/ EventDropped(k) PROVE Fits
  BY <1>4, <1>6, <1>10 DEF PublishRun, EventEnd, EventDropped, Synchronized
<1>11. ASSUME NEW k \in Jobs,
              \/ \E p \in Priorities, m \in Limits : Enqueue(k, p, m)
              \/ \E d \in Durations, late \in BOOLEAN : Claim(k, d, late)
              \/ \E m \in Limits : Replay(k, m)
       PROVE  Fits
  BY <1>5, <1>6, <1>11 DEF Enqueue, Claim, Replay
<1>12. ASSUME NEW k \in Jobs, NEW t \in live[k],
              \/ WorkerStops(k, t)
              \/ \E d \in Durations : Heartbeat(k, t, d)
              \/ \E how \in Reports : Finish(k, t, how)
       PROVE  Fits
  BY <1>4, <1>6, <1>12 DEF WorkerStops, Heartbeat, Finish
<1>13. CASE UNCHANGED vars
  BY <1>4, <1>13 DEF vars
<1>14. QED
  BY <1>7, <1>8, <1>9, <1>10, <1>11, <1>12, <1>13 DEF Next

(* Every step preserves the invariant.                                      *)
LEMMA NextRecords == ASSUME Records, [Next]_vars PROVE Records'
<1>1. IInv'
  BY NextKept DEF Records, Kept
<1>2. ASSUME NEW j \in Jobs
      PROVE  /\ RunOK(run'[j]) /\ Accounted(queue'[j])
             /\ NotAhead(queue'[j], run'[j]) /\ EventFits(event'[j], run'[j])
  BY NextContinues, NextFits DEF RowsContinue, Continues, Sound
<1>3. QED
  BY <1>1, <1>2 DEF Records

----------------------------------------------------------------------------
(* The records of all jobs are sound in every reachable state.              *)
THEOREM RecordsInvariance == Spec => []Records
<1>1. Init => Records
  BY InitRecords
<1>2. Records /\ [Next]_vars => Records'
  BY NextRecords
<1>3. QED
  BY <1>1, <1>2, PTL DEF Spec

(* Through deliveries, deferrals, expiries and replays the budget spent is  *)
(* the number of attempts of the current generation that were not deferred. *)
THEOREM BudgetsAccounted == Spec => []BudgetAccounting
<1>1. Records => BudgetAccounting
  BY DEF Records, Accounted, BudgetAccounting
<1>2. QED
  BY <1>1, RecordsInvariance, PTL

(* No job and no event is ever ahead of its run, and none closes what the   *)
(* run leaves open.                                                         *)
THEOREM RecordsAlwaysAgree == Spec => []RecordsAgree
<1>1. Records => RecordsAgree
  BY DEF Records, NotAhead, EventFits, RecordsAgree, NeverAheadOfRun, RetryStaysOpen
<1>2. QED
  BY <1>1, RecordsInvariance, PTL

(* A run at a checkpoint, or with its revisions used up, decides its job:   *)
(* no claim, expiry, settlement or replay moves it anywhere else.           *)
THEOREM RunsPrevail == Spec => RunPrevails
<1>1. Records /\ [Next]_vars
      => [\A j \in Jobs :
             run[j].status \in Checkpoints /\ queue'[j].status # queue[j].status
             => queue'[j].status = run[j].status]_vars
  BY NextContinues DEF RowsContinue, Continues, Obeys
<1>2. Records /\ [Next]_vars
      => [\A j \in Jobs :
             run[j].limit /\ queue'[j].status # queue[j].status
             => queue'[j].status = "DEAD_LETTER"]_vars
  BY NextContinues DEF RowsContinue, Continues, Obeys
<1>3. Spec => CheckpointPrevails
  BY <1>1, RecordsInvariance, PTL DEF Spec, CheckpointPrevails
<1>4. Spec => RevisionLimitPrevails
  BY <1>2, RecordsInvariance, PTL DEF Spec, RevisionLimitPrevails
<1>5. QED
  BY <1>3, <1>4 DEF RunPrevails

(* The history of attempts only grows, and no attempt's end is rewritten.   *)
THEOREM HistoryAlwaysKept == Spec => HistoryKept
<1>1. Records /\ [Next]_vars
      => [\A j \in Jobs :
            /\ Len(queue[j].history) <= Len(queue'[j].history)
            /\ \A n \in 1..Len(queue[j].history) :
                  /\ queue'[j].history[n].replay = queue[j].history[n].replay
                  /\ queue[j].history[n].outcome # "RUNNING"
                     => queue'[j].history[n].outcome = queue[j].history[n].outcome]_vars
  BY NextContinues DEF RowsContinue, Continues, SameHistory
<1>2. QED
  BY <1>1, RecordsInvariance, PTL DEF Spec, HistoryKept

----------------------------------------------------------------------------
(* How long a job waits that goes back to the queue. *)

(* From q to p: a job that goes back to the queue waits from now on, and    *)
(* after a failure as long as its budget says; one that stays in the queue  *)
(* keeps its priority, and is due if it was.                                *)
Requeued(p, q) ==
    /\ q.status = "LEASED" /\ p.status = "QUEUED" =>
          /\ p.priority = q.priority /\ p.avail >= 0
          /\ p.history[q.token].outcome = "FAILED" =>
                p.avail = Backoff(p.budget) /\ p.budget > 0
    /\ q.status = "QUEUED" /\ p.status = "QUEUED" =>
          p.priority = q.priority /\ (q.avail < 0 => p.avail < 0)

RowsRequeued == \A j \in Jobs : Requeued(queue'[j], queue[j])

(* where synchronization has left a job for good                            *)
Closed(q, r) ==
    \/ r.status \in Checkpoints /\ q.status = r.status
    \/ r.status = "FAILED" /\ q.status = "DEAD_LETTER" /\ ~ q.replayable

(* What a claimed attempt's failure costs, as failure computes it.          *)
LEMMA FailureDelays ==
    ASSUME NEW q, RowOK(q), NEW how \in Hows
    PROVE  Failure(q, how).avail = Delay(q, how) /\ Failure(q, how).priority = q.priority
<1> DEFINE o == Outcome(how)
           s == IF how.terminal \/ Exhausted(q, how) THEN "DEAD_LETTER" ELSE "QUEUED"
           d == Buried(q, how)
           p == Failure(q, how)
<1>1. q \in Job /\ WellLeased(q) /\ how.expired \in BOOLEAN
  BY DEF RowOK, Hows
<1>2. o \in Outcomes \ {"RUNNING"} /\ s \in JobStatus \ {"LEASED"}
  BY DEF Outcome, Outcomes, JobStatus
<1>3. d = Release(EndAttempt(q, o, how.expired), s)
  BY DEF Buried
<1> HIDE DEF o, s, d
<1>4. d \in Job /\ SameTerms(d, q)
  BY <1>1, <1>2, <1>3, ReleaseRow
<1>5. p = [d EXCEPT !.avail = Delay(q, how), !.replayable = ~ how.terminal,
                    !.budget = IF how.busy THEN @ - 1 ELSE @]
  BY DEF Failure, d
<1> HIDE DEF p
<1>6. p.avail = Delay(q, how) /\ p.priority = d.priority
  BY <1>4, <1>5 DEF Job
<1>7. QED
  BY <1>4, <1>6 DEF SameTerms, p

(* The backoff doubles from one second to a minute.                         *)
LEMMA BackoffDoubles ==
    ASSUME NEW b \in Nat, b > 0
    PROVE  Backoff(b) = IF b > 6 THEN 60 ELSE 2 ^ (b - 1)
<1>1. /\ 2 ^ 0 = 1 /\ 2 ^ 1 = 2 /\ 2 ^ 2 = 4 /\ 2 ^ 3 = 8 /\ 2 ^ 4 = 16 /\ 2 ^ 5 = 32
  BY SMT
<1>2. CASE b > 6
  BY <1>2 DEF Backoff
<1>3. CASE b = 1
  BY <1>1, <1>3 DEF Backoff
<1>4. CASE b = 2
  BY <1>1, <1>4 DEF Backoff
<1>5. CASE b = 3
  BY <1>1, <1>5 DEF Backoff
<1>6. CASE b = 4
  BY <1>1, <1>6 DEF Backoff
<1>7. CASE b = 5
  BY <1>1, <1>7 DEF Backoff
<1>8. CASE b = 6
  BY <1>1, <1>8 DEF Backoff
<1>9. QED
  BY <1>2, <1>3, <1>4, <1>5, <1>6, <1>7, <1>8

(* A leased job that fails goes behind those that are due.                  *)
LEMMA FailureRequeues ==
    ASSUME NEW q, RowOK(q), q.status = "LEASED", NEW how \in Hows
    PROVE  Requeued(Failure(q, how), q)
<1> DEFINE p == Failure(q, how)
<1>1. /\ EndedAs(p, q, Outcome(how))
      /\ p.budget = IF how.busy THEN q.budget - 1 ELSE q.budget
  BY FailureEnds
<1>2. p.avail = Delay(q, how) /\ p.priority = q.priority
  BY FailureDelays
<1>3. q.budget \in Nat /\ q.budget > 0 /\ q.token \in 1..Len(q.history)
  BY HistoryType DEF RowOK, Job, WellLeased, WithinBudget, NoToken
<1>4. Backoff(q.budget) \in Nat
  <2>1. CASE q.budget >= 7 \/ q.budget <= 1
    BY <2>1 DEF Backoff
  <2>2. CASE q.budget \in 2..6
    <3>1. Backoff(q.budget) = <<1, 2, 4, 8, 16, 32>>[q.budget]
      BY <2>2 DEF Backoff
    <3>2. \/ q.budget = 2 \/ q.budget = 3 \/ q.budget = 4 \/ q.budget = 5 \/ q.budget = 6
      BY <2>2
    <3>3. QED
      BY <3>1, <3>2
  <2>3. QED
    BY <1>3, <2>1, <2>2
<1> HIDE DEF p
<1>5. p.avail >= 0
  BY <1>2, <1>4 DEF Delay
<1>6. p.history[q.token].outcome = "FAILED" => p.avail = Backoff(p.budget) /\ p.budget > 0
  <2>1. SUFFICES ASSUME p.history[q.token].outcome = "FAILED"
                 PROVE  p.avail = Backoff(p.budget) /\ p.budget > 0
    OBVIOUS
  <2>2. Outcome(how) = "FAILED"
    BY <1>1, <1>3, <2>1 DEF EndedAs
  <2>3. ~ how.expired /\ ~ how.busy
    BY <2>2 DEF Outcome
  <2>4. QED
    BY <1>1, <1>2, <1>3, <2>3 DEF Delay
<1>7. QED
  BY <1>2, <1>5, <1>6 DEF Requeued, p

(* Synchronization leaves what is closed ...                                *)
LEMMA ClosedStays ==
    ASSUME NEW q, NEW r, Closed(q, r), NEW recover \in BOOLEAN
    PROVE  SyncJob(q, r, recover) = q
  BY DEF Closed, SyncJob, Overrules, Checkpoints

(* ... and leaves or closes what is queued or leased.                       *)
LEMMA SyncLeavesOrCloses ==
    ASSUME NEW q, RowOK(q), NEW r \in Run, NEW recover \in BOOLEAN,
           q.status \in {"QUEUED", "LEASED"}
    PROVE  SyncJob(q, r, recover) = q \/ Closed(SyncJob(q, r, recover), r)
<1>1. r.status \in Checkpoints => Settle(q, r.status).status = r.status
  BY SettleEnds
<1>2. Failure(q, Terminal).status = "DEAD_LETTER" /\ ~ Failure(q, Terminal).replayable
  BY HowsType, FailureEnds DEF Terminal, Plain
<1>3. q.status # "WAITING_FOR_APPROVAL"
  OBVIOUS
<1>4. QED
  BY <1>1, <1>2, <1>3 DEF SyncJob, Closed, Overrules

(* What publication and inspection do to a job that is queued or leased.    *)
LEMMA ReconcileLeavesOrCloses ==
    ASSUME NEW q, RowOK(q), NEW r \in Run, q.status \in {"QUEUED", "LEASED"}
    PROVE  /\ Publish(q, r) = q \/ Closed(Publish(q, r), r)
           /\ Reconcile(q, r) = q \/ Closed(Reconcile(q, r), r)
<1> DEFINE p == Publish(q, r)
<1>1. p = q \/ Closed(p, r)
  BY SyncLeavesOrCloses DEF Publish
<1>2. CASE p = q
  BY <1>2, SyncLeavesOrCloses DEF Reconcile
<1>3. CASE Closed(p, r)
  BY <1>3, ClosedStays DEF Reconcile
<1>4. QED
  BY <1>1, <1>2, <1>3

(* Neither sends a job back to the queue that a worker holds, nor touches   *)
(* one that stays in the queue.                                             *)
LEMMA ReconcileRequeues ==
    ASSUME NEW q, RowOK(q), NEW r \in Run
    PROVE  Requeued(Publish(q, r), q) /\ Requeued(Reconcile(q, r), q)
<1>1. ASSUME NEW p, p = q \/ Closed(p, r) PROVE Requeued(p, q)
  BY <1>1 DEF Requeued, Closed, Checkpoints
<1>2. CASE q.status \in {"QUEUED", "LEASED"}
  BY <1>1, <1>2, ReconcileLeavesOrCloses
<1>3. CASE q.status \notin {"QUEUED", "LEASED"}
  BY <1>3 DEF Requeued
<1>4. QED
  BY <1>2, <1>3

(* A job that is due counts itself among those that are.                    *)
LEMMA AgedStaysDue ==
    ASSUME NEW f, NEW j \in Jobs, f[j].status = "QUEUED", f[j].avail \in Int, f[j].avail < 0
    PROVE  AgedAvail(f, f[j].avail) < 0
<1> DEFINE S == {k \in Jobs : /\ f[k].status = "QUEUED"
                              /\ f[j].avail <= f[k].avail /\ f[k].avail <= 0}
<1>1. IsFiniteSet(Jobs)
  BY QueueConstants, FS_Interval DEF Jobs
<1>2. S \subseteq Jobs /\ j \in S
  OBVIOUS
<1>3. IsFiniteSet(S) /\ S # {}
  BY <1>1, <1>2, FS_Subset
<1>4. Cardinality(S) \in Nat /\ Cardinality(S) # 0
  BY <1>3, FS_CardinalityType, FS_EmptySet
<1>5. AgedAvail(f, f[j].avail) = 0 - Cardinality(S)
  BY DEF AgedAvail
<1> HIDE DEF S
<1>6. QED
  BY <1>4, <1>5

(* Aging a table moves no job ahead of another (ORDER BY avail of claim).   *)
LEMMA AgedRequeues ==
    ASSUME NEW f, Table(f), NEW j \in Jobs
    PROVE  /\ Requeued(Aged(f)[j], f[j])
           /\ Aged(f)[j].priority = f[j].priority /\ Aged(f)[j].status = f[j].status
           /\ f[j].status = "QUEUED" /\ f[j].avail < 0 => Aged(f)[j].avail < 0
<1> DEFINE q == f[j]
           p == Aged(f)[j]
           a == AgedAvail(f, q.avail)
<1>1. q \in Job /\ q.avail \in Int
  BY DEF Table, RowOK, Job
<1>2. p.status = q.status
  BY AgedTable
<1>3. p = [q EXCEPT !.lease = IF q.lease > 0 THEN q.lease - 1 ELSE 0, !.avail = a]
  BY DEF Aged
<1>4. q.status = "QUEUED" /\ q.avail < 0 => a < 0
  BY <1>1, AgedStaysDue
<1> HIDE DEF p, q, a
<1>5. p.priority = q.priority /\ p.avail = a
  BY <1>1, <1>3 DEF Job
<1>6. QED
  BY <1>2, <1>4, <1>5 DEF Requeued, p, q

(* What a claim expires goes behind what was due when it began.             *)
LEMMA SweptRequeues ==
    ASSUME IInv, NEW late \in BOOLEAN, NEW j \in Jobs
    PROVE  Requeued(Swept(late)[j], queue[j])
<1> DEFINE synced  == ReconciledTable
           expired == {k \in Jobs : synced[k].status = "LEASED" /\ synced[k].lease = 0}
           then    == IF late THEN Aged(synced) ELSE synced
           fail    == Failure(then[j], Expired)
           q       == queue[j]
<1>1. RowOK(q) /\ run[j] \in Run
  BY InvariantTable DEF Table
<1>2. Table(synced)
  BY ReconcileTable
<1>3. /\ q.status \in {"QUEUED", "LEASED"} => synced[j] = q \/ Closed(synced[j], run[j])
  BY <1>1, ReconcileLeavesOrCloses DEF ReconciledTable
<1>4. Swept(late)[j] = IF j \in expired THEN fail ELSE then[j]
  BY DEF Swept, ReconciledTable
<1> HIDE DEF synced
<1>5. /\ Table(then) /\ RowOK(then[j])
      /\ then[j].status = synced[j].status /\ then[j].priority = synced[j].priority
      /\ then[j].token = synced[j].token
      /\ synced[j].status = "QUEUED" /\ synced[j].avail < 0 => then[j].avail < 0
  <2>1. CASE late
    BY <1>2, <2>1, AgedTable, AgedRequeues DEF Table
  <2>2. CASE ~ late
    BY <1>2, <2>2 DEF Table
  <2>3. QED
    BY <2>1, <2>2
<1> HIDE DEF then, q
<1>6. CASE Closed(synced[j], run[j]) \/ q.status \notin {"QUEUED", "LEASED"}
  <2>1. CASE q.status \notin {"QUEUED", "LEASED"}
    BY <2>1 DEF Requeued, q
  <2>2. CASE Closed(synced[j], run[j])
    <3>1. synced[j].status \notin {"QUEUED", "LEASED"}
      BY <2>2 DEF Closed, Checkpoints
    <3>2. Swept(late)[j].status # "QUEUED"
      BY <1>4, <1>5, <3>1
    <3>3. QED
      BY <3>2 DEF Requeued
  <2>3. QED
    BY <1>6, <2>1, <2>2
<1>7. CASE synced[j] = q /\ q.status \in {"QUEUED", "LEASED"}
  <2>1. CASE j \in expired
    <3>1. Expired \in Hows /\ then[j].status = "LEASED" /\ q.status = "LEASED"
      BY <1>5, <1>7, <2>1, HowsType
    <3>2. Requeued(fail, then[j])
      BY <1>5, <3>1, FailureRequeues
    <3>3. then[j].priority = q.priority /\ then[j].token = q.token
      BY <1>5, <1>7
    <3> HIDE DEF fail
    <3>4. Requeued(fail, q)
      BY <3>1, <3>2, <3>3 DEF Requeued
    <3>5. QED
      BY <1>4, <2>1, <3>4 DEF q
  <2>2. CASE j \notin expired
    <3>1. Swept(late)[j] = then[j]
      BY <1>4, <2>2
    <3>2. Requeued(then[j], q)
      BY <1>5, <1>7 DEF Requeued
    <3>3. QED
      BY <3>1, <3>2 DEF q
  <2>3. QED
    BY <2>1, <2>2
<1>8. QED
  BY <1>3, <1>6, <1>7 DEF q

(* A step that replaces the row of one job.                                 *)
LEMMA RowRequeued ==
    ASSUME IInv, NEW j \in Jobs, NEW q, Requeued(q, queue[j]),
           queue' = [queue EXCEPT ![j] = q]
    PROVE  RowsRequeued
<1>1. queue \in [Jobs -> Job]
  BY InvariantTable DEF Table
<1>2. \A k \in Jobs : queue'[k] = IF k = j THEN q ELSE queue[k]
  BY <1>1
<1>3. \A k \in Jobs : Requeued(queue[k], queue[k])
  BY DEF Requeued
<1>4. QED
  BY <1>2, <1>3 DEF RowsRequeued

(* What a claim hands out is leased; the others went where Swept says.      *)
LEMMA ClaimRequeues ==
    ASSUME IInv, NEW j \in Jobs, NEW d \in Durations, NEW late \in BOOLEAN,
           Claim(j, d, late)
    PROVE  RowsRequeued
<1> DEFINE f == Swept(late)
           q == Lease(f[j], d)
<1>1. /\ Table(f) /\ \A k \in Jobs : Requeued(f[k], queue[k])
  BY SweptTable, SweptRequeues
<1>2. queue' = [f EXCEPT ![j] = q]
  BY DEF Claim
<1> HIDE DEF f
<1>3. q.status = "LEASED"
  BY <1>1 DEF Lease, Table, Job
<1> HIDE DEF q
<1>4. \A k \in Jobs : queue'[k] = IF k = j THEN q ELSE f[k]
  BY <1>1, <1>2 DEF Table
<1>5. QED
  BY <1>1, <1>3, <1>4 DEF RowsRequeued, Requeued

(* A worker's report sends its job back as far as the failure demands.      *)
LEMMA FinishRequeues ==
    ASSUME IInv, NEW j \in Jobs, NEW t \in live[j], NEW how \in Reports,
           Finish(j, t, how)
    PROVE  RowsRequeued
<1>1. RowOK(queue[j]) /\ run[j] \in Run /\ t \in 1..Len(queue[j].history) /\ how \in Hows
  BY InvariantTable, HowsType DEF Table, Reports
<1>2. CASE Owned(queue[j], t)
  <2> DEFINE p == Publish(queue[j], run[j])
             h == [how EXCEPT !.terminal = @ \/ run[j].limit]
             s == Settled(p, run[j], how)
  <2>1. p = queue[j] /\ queue[j].status = "LEASED"
    BY <1>1, <1>2, PublishRow DEF Owned
  <2>2. h \in Hows
    BY <1>1 DEF Hows, Run
  <2>3. queue' = [queue EXCEPT ![j] = s]
    BY <1>2 DEF Finish
  <2> HIDE DEF p, h
  <2>4. Requeued(Failure(p, h), p)
    BY <1>1, <2>1, <2>2, FailureRequeues
  <2>5. run[j].status \in Checkpoints => Requeued(Settle(p, run[j].status), p)
    BY <1>1, <2>1, SettleEnds DEF Requeued, Checkpoints
  <2>6. Requeued(s, queue[j])
    BY <2>1, <2>4, <2>5 DEF Settled, h
  <2> HIDE DEF s
  <2>7. QED
    BY <2>3, <2>6, RowRequeued
<1>3. CASE ~ Owned(queue[j], t)
  <2> DEFINE q == MarkLost(queue[j], t)
  <2>1. Requeued(q, queue[j])
    <3>1. queue[j] \in Job
      BY <1>1 DEF RowOK
    <3>2. /\ q.status = queue[j].status /\ q.priority = queue[j].priority
          /\ q.avail = queue[j].avail
      BY <3>1 DEF MarkLost, SetAttempt, Job
    <3> HIDE DEF q
    <3>3. QED
      BY <3>2 DEF Requeued
  <2>2. queue' = [queue EXCEPT ![j] = q]
    BY <1>3 DEF Finish
  <2> HIDE DEF q
  <2>3. QED
    BY <2>1, <2>2, RowRequeued
<1>4. QED
  BY <1>2, <1>3

(* A renewal, or the record of a loss, requeues nothing.                    *)
LEMMA HeartbeatRequeues ==
    ASSUME IInv, NEW j \in Jobs, NEW t \in live[j], NEW d \in Durations,
           Heartbeat(j, t, d)
    PROVE  RowsRequeued
<1> DEFINE q == IF Owned(queue[j], t) THEN Renewed(queue[j], d) ELSE MarkLost(queue[j], t)
<1>1. queue[j] \in Job
  BY InvariantTable DEF Table, RowOK
<1>2. /\ q.status = queue[j].status /\ q.priority = queue[j].priority
      /\ q.avail = queue[j].avail
  BY <1>1 DEF Renewed, MarkLost, SetAttempt, Job
<1>3. queue' = [queue EXCEPT ![j] = q]
  BY DEF Heartbeat
<1> HIDE DEF q
<1>4. QED
  BY <1>2, <1>3, RowRequeued DEF Requeued

(* What is replayed was neither leased nor queued.                          *)
LEMMA ReplayRequeues ==
    ASSUME IInv, NEW j \in Jobs, NEW m \in Limits, Replay(j, m) PROVE RowsRequeued
<1> DEFINE f == ReconciledTable
           q == Reset(f[j], m)
<1>1. /\ Table(f) /\ Table(queue) /\ \A k \in Jobs : run[k] \in Run
      /\ \A k \in Jobs : Requeued(f[k], queue[k])
  BY ReconcileTable, ReconcileRequeues, InvariantTable DEF Table, ReconciledTable
<1>2. f[j].status = "DEAD_LETTER" /\ f[j].replayable /\ queue' = [f EXCEPT ![j] = q]
  BY DEF Replay, ReconciledTable
<1>3. queue[j].status \in {"QUEUED", "LEASED"} => f[j] = queue[j] \/ Closed(f[j], run[j])
  BY <1>1, ReconcileLeavesOrCloses DEF Table, ReconciledTable
<1>4. queue[j].status \notin {"QUEUED", "LEASED"}
  BY <1>2, <1>3 DEF Closed, Checkpoints
<1> HIDE DEF f, q
<1>5. \A k \in Jobs : queue'[k] = IF k = j THEN q ELSE f[k]
  BY <1>1, <1>2 DEF Table
<1>6. QED
  BY <1>1, <1>4, <1>5 DEF RowsRequeued, Requeued

(* Every step.                                                              *)
LEMMA NextRequeues == ASSUME IInv, [Next]_vars PROVE RowsRequeued
<1>1. CASE UNCHANGED queue
  BY <1>1 DEF RowsRequeued, Requeued
<1>2. /\ Table(queue)
      /\ \A j \in Jobs : /\ Requeued(Publish(queue[j], run[j]), queue[j])
                         /\ Requeued(Reconcile(queue[j], run[j]), queue[j])
  BY InvariantTable, ReconcileRequeues DEF Table
<1>3. CASE Tick
  BY <1>2, <1>3, AgedRequeues DEF Tick, RowsRequeued
<1>4. CASE Observe \/ PublishAll
  BY <1>2, <1>4 DEF Observe, PublishAll, RowsRequeued
<1>5. ASSUME NEW late \in BOOLEAN, ClaimNone(late) PROVE RowsRequeued
  <2>1. queue' = Swept(late)
    BY <1>5 DEF ClaimNone
  <2>2. QED
    BY <2>1, SweptRequeues DEF RowsRequeued
<1>6. ASSUME NEW j \in Jobs, PublishRun(j) \/ EventEnd(j) PROVE RowsRequeued
  <2>1. queue' = [queue EXCEPT ![j] = Publish(queue[j], run[j])]
    BY <1>6 DEF PublishRun, EventEnd, Synchronized
  <2>2. QED
    BY <1>2, <2>1, RowRequeued
<1>7. ASSUME NEW j \in Jobs, NEW p \in Priorities, NEW m \in Limits, Enqueue(j, p, m)
      PROVE  RowsRequeued
  <2> DEFINE q == Publish(Publish(NewJob(p, m), run[j]), run[j])
  <2>1. queue' = [queue EXCEPT ![j] = q] /\ queue[j].status = "ABSENT"
    BY <1>7 DEF Enqueue
  <2>2. Requeued(q, queue[j])
    BY <2>1 DEF Requeued
  <2> HIDE DEF q
  <2>3. QED
    BY <2>1, <2>2, RowRequeued
<1>8. ASSUME NEW j \in Jobs, NEW d \in Durations, NEW late \in BOOLEAN, Claim(j, d, late)
      PROVE  RowsRequeued
  BY <1>8, ClaimRequeues
<1>9. ASSUME NEW j \in Jobs, NEW m \in Limits, Replay(j, m) PROVE RowsRequeued
  BY <1>9, ReplayRequeues
<1>10. ASSUME NEW j \in Jobs, NEW t \in live[j], NEW d \in Durations, Heartbeat(j, t, d)
       PROVE  RowsRequeued
  BY <1>10, HeartbeatRequeues
<1>11. ASSUME NEW j \in Jobs, NEW t \in live[j], NEW how \in Reports, Finish(j, t, how)
       PROVE  RowsRequeued
  BY <1>11, FinishRequeues
<1>12. ASSUME NEW j \in Jobs,
              \/ EventClaim(j) \/ EventFail(j) \/ EventDropped(j) \/ Workflow(j)
              \/ \E t \in live[j] : WorkerStops(j, t)
       PROVE  UNCHANGED queue
  BY <1>12 DEF EventClaim, EventFail, EventDropped, Workflow, WorkerStops
<1>13. QED
  BY <1>1, <1>3, <1>4, <1>5, <1>6, <1>7, <1>8, <1>9, <1>10, <1>11, <1>12 DEF Next, vars

(* A job that is given back, expired or failed never overtakes one of its   *)
(* priority that was due before it, however many jobs and workers there are *)
(* and whenever their leases end.                                           *)
THEOREM RequeuedAlwaysBehind == Spec => RequeuedGoesBehind
<1>1. ASSUME IInv, RowsRequeued, IInv', NEW j \in Jobs, NEW k \in Jobs,
             queue[j].status = "LEASED", queue'[j].status = "QUEUED",
             queue[k].status = "QUEUED", queue'[k].status = "QUEUED",
             queue[k].avail < 0, queue[k].priority >= queue[j].priority
      PROVE  ~ Precedes(queue', j, k)
  <2>1. /\ queue[j].priority \in Int /\ queue[k].priority \in Int
        /\ queue'[j].avail \in Int /\ queue'[k].avail \in Int
    BY <1>1, InvariantTable, InvariantTableNext DEF Table, RowOK, Job
  <2>2. Requeued(queue'[j], queue[j]) /\ Requeued(queue'[k], queue[k])
    BY <1>1 DEF RowsRequeued
  <2>3. /\ queue'[j].priority = queue[j].priority /\ queue'[j].avail >= 0
        /\ queue'[k].priority = queue[k].priority /\ queue'[k].avail < 0
    BY <1>1, <2>2 DEF Requeued
  <2>4. QED
    BY <1>1, <2>1, <2>3 DEF Precedes
<1>2. IInv /\ IInv' /\ [Next]_vars
      => [\A j, k \in Jobs :
            /\ queue[j].status = "LEASED" /\ queue'[j].status = "QUEUED"
            /\ queue[k].status = "QUEUED" /\ queue'[k].status = "QUEUED"
            /\ queue[k].avail < 0 /\ queue[k].priority >= queue[j].priority
            => ~ Precedes(queue', j, k)]_vars
  BY <1>1, NextRequeues
<1>3. QED
  BY <1>2, Invariance, PTL DEF Spec, RequeuedGoesBehind

(* However often a job was delivered, deferred, expired and replayed, after *)
(* a failure it waits for a time that doubles with each attempt charged to  *)
(* it, up to a minute.                                                      *)
THEOREM FailuresBackOff == Spec => FailureBacksOff
<1>1. ASSUME Records, Records', RowsRequeued, NEW j \in Jobs,
             queue[j].token # NoToken,
             queue'[j].history[queue[j].token].outcome = "FAILED",
             queue'[j].status = "QUEUED"
      PROVE  LET charged == Cardinality(Charged(queue'[j]))
             IN  /\ queue'[j].budget = charged
                 /\ queue'[j].avail = IF charged > 6 THEN 60 ELSE 2 ^ (charged - 1)
  <2> DEFINE b == queue'[j].budget
  <2>1. queue[j].status = "LEASED"
    BY <1>1, InvariantTable DEF Records, Table, RowOK, WellLeased
  <2>2. b \in Nat
    BY <1>1, InvariantTableNext DEF Records, Table, RowOK, Job
  <2>3. b = Cardinality(Charged(queue'[j]))
    BY <1>1 DEF Records, Accounted
  <2>4. queue'[j].avail = Backoff(b) /\ b > 0
    BY <1>1, <2>1 DEF RowsRequeued, Requeued
  <2> HIDE DEF b
  <2>5. queue'[j].avail = IF b > 6 THEN 60 ELSE 2 ^ (b - 1)
    BY <2>2, <2>4, BackoffDoubles
  <2>6. QED
    BY <2>3, <2>5 DEF b
<1>2. Records /\ Records' /\ [Next]_vars
      => [\A j \in Jobs :
            LET t == queue[j].token
            IN  /\ t # NoToken
                /\ queue'[j].history[t].outcome = "FAILED"
                /\ queue'[j].status = "QUEUED"
                => /\ queue'[j].budget = Cardinality(Charged(queue'[j]))
                   /\ queue'[j].avail = IF Cardinality(Charged(queue'[j])) > 6 THEN 60
                                        ELSE 2 ^ (Cardinality(Charged(queue'[j])) - 1)]_vars
  BY <1>1, NextRequeues DEF Records
<1>3. QED
  BY <1>2, RecordsInvariance, PTL DEF Spec, FailureBacksOff
=============================================================================
