----------------------------- MODULE Approvals -----------------------------
(***************************************************************************)
(* The human decision boundary of one workflow run (opscheck/approvals.py):*)
(* approval requests, decisions, revisions and their recovery.  Several    *)
(* processes run the commands decide, resume and workflow on the run; each *)
(* committed SQLite transaction is one step, the run's OS lock serializes  *)
(* the commands, and a process may die between any two steps.              *)
(*                                                                         *)
(* An approval is identified by its iteration.  A briefing is the sequence *)
(* of the review comments worked into it; the original is empty.  The DAG  *)
(* that produces the original (_run_tasks) is one step here; module Engine *)
(* opens it.                                                               *)
(***************************************************************************)
EXTENDS Naturals, Sequences, FiniteSets, RunStates

CONSTANTS
    Processes,
    Comments,       \* review comments of rejections
    MaxRevisions,   \* max_human_revisions of the run's configuration
    MaxCrashes      \* bound: processes that die

None == "none"      \* no process, no task row, no comment

ASSUME ApprovalConstants ==
    /\ None \notin Processes /\ None \notin Comments
    /\ MaxRevisions \in 1..20
    /\ MaxCrashes \in Nat

VARIABLES
    status,         \* runs.status
    limit,          \* revision_limit_reached is recorded
    briefed,        \* the output of briefing_agent is saved
    approvals,      \* the table approvals, by iteration
    gate,           \* status of the task row approval_gate
    revisions,      \* revisions[i]: the task row revision_agent_i
    lock,           \* the process holding the run's lock, or None
    pc,             \* pc[p]: where process p is in its command
    seen,           \* seen[p]: the approval a decision is bound to, 0 for none
    verdict,        \* verdict[p]: the decision p was asked to make
    crashes

database == <<status, limit, briefed, approvals, gate, revisions>>
vars == <<database, lock, pc, seen, verdict, crashes>>

Iterations == 1..MaxRevisions

Briefings == UNION {[1..n -> Comments] : n \in 0..MaxRevisions}

Approval == [status : {"pending", "approved", "rejected"},
             comment : Comments \cup {None}, briefing : Briefings]

Revision == [status : {None, "pending", "running", "failed", "succeeded"},
             output : Briefings]

NoRevision == [status |-> None, output |-> << >>]

Approve == [decision |-> "approved", comment |-> None]
Verdicts == {Approve} \cup [decision : {"rejected"}, comment : Comments]

Locked == {"decide", "resume", "workflow", "tasks", "advance", "revising",
           "request", "publish"}
Steps == {"idle", "decide_lock", "resume_lock", "workflow_lock"} \cup Locked

TypeOK ==
    /\ status \in RunStatus
    /\ limit \in BOOLEAN /\ briefed \in BOOLEAN
    /\ approvals \in Seq(Approval)
    /\ gate \in {None, "pending", "waiting", "succeeded", "failed"}
    /\ revisions \in [Iterations -> Revision]
    /\ lock \in Processes \cup {None}
    /\ pc \in [Processes -> Steps]
    /\ seen \in [Processes -> Nat]
    /\ verdict \in [Processes -> Verdicts]
    /\ crashes \in 0..MaxCrashes

Init ==
    /\ status = "NONE" /\ limit = FALSE /\ briefed = FALSE
    /\ approvals = << >> /\ gate = None
    /\ revisions = [i \in Iterations |-> NoRevision]
    /\ lock = None
    /\ pc = [p \in Processes |-> "idle"]
    /\ seen = [p \in Processes |-> 0]
    /\ verdict = [p \in Processes |-> Approve]
    /\ crashes = 0

----------------------------------------------------------------------------
(* Control *)

At(p, step) == pc[p] = step
Goto(p, step) == pc' = [pc EXCEPT ![p] = step]

(* the command ends, with a result or an error                              *)
Leave(p) == Goto(p, "idle") /\ lock' = None

(* a lock held by another process is RunBusyError                           *)
Acquire(p, from, to) ==
    /\ At(p, from)
    /\ IF lock = None
       THEN Goto(p, to) /\ lock' = p
       ELSE Goto(p, "idle") /\ UNCHANGED lock
    /\ UNCHANGED <<database, seen, verdict, crashes>>

Crash(p) ==
    /\ ~ At(p, "idle") /\ crashes < MaxCrashes
    /\ crashes' = crashes + 1
    /\ Goto(p, "idle")
    /\ lock' = IF lock = p THEN None ELSE lock
    /\ UNCHANGED <<database, seen, verdict>>

----------------------------------------------------------------------------
(* decide *)

Pending == {i \in DOMAIN approvals : approvals[i].status = "pending"}

(* Before the lock: an explicit approval id (named), or the one pending now *)
DecideStart(p, v, named) ==
    /\ At(p, "idle") /\ status # "NONE"
    /\ verdict' = [verdict EXCEPT ![p] = v]
    /\ seen' = [seen EXCEPT ![p] = IF named # 0 THEN named
                                   ELSE IF Pending = {} THEN 0
                                   ELSE CHOOSE i \in Pending : TRUE]
    /\ Goto(p, "decide_lock")
    /\ UNCHANGED <<database, lock, crashes>>

(* faulty: the decision goes to whatever is pending by now                  *)
TargetsLatest(p) == Pending

Targets(p) == Pending \cap {seen[p]}

Decided(a, v) == [a EXCEPT !.status = v.decision, !.comment = v.comment]

Decide(p) ==
    /\ At(p, "decide")
    /\ status = "WAITING_FOR_APPROVAL"
    /\ \E i \in Targets(p) :
          approvals' = [approvals EXCEPT ![i] = Decided(@, verdict[p])]
    /\ status' = "RUNNING"
    /\ Goto(p, "advance")
    /\ UNCHANGED <<limit, briefed, gate, revisions, lock, seen, verdict, crashes>>

(* complete, failed, running, or no longer pending: an error                *)
DecideRefused(p) ==
    /\ At(p, "decide")
    /\ status # "WAITING_FOR_APPROVAL" \/ Targets(p) = {}
    /\ Leave(p)
    /\ UNCHANGED <<database, seen, verdict, crashes>>

----------------------------------------------------------------------------
(* resume_run and run_workflow *)

(* resume_run looks for a saved briefing before it takes the lock           *)
ResumeStart(p) ==
    /\ At(p, "idle") /\ status # "NONE"
    /\ Goto(p, IF briefed THEN "resume_lock" ELSE "workflow_lock")
    /\ UNCHANGED <<database, lock, seen, verdict, crashes>>

(* faulty: a run that used up its revisions is resumed as well              *)
ResumeLimited(p) ==
    /\ At(p, "resume")
    /\ status' = IF status = "FAILED" THEN "RUNNING" ELSE status
    /\ Goto(p, "advance")
    /\ UNCHANGED <<limit, briefed, approvals, gate, revisions, lock, seen, verdict, crashes>>

(* faulty: the run is marked and reported, but not advanced                 *)
ResumeOnly(p) ==
    /\ At(p, "resume")
    /\ status' = IF status = "FAILED" /\ ~ limit THEN "RUNNING" ELSE status
    /\ Goto(p, "publish")
    /\ UNCHANGED <<limit, briefed, approvals, gate, revisions, lock, seen, verdict, crashes>>

Resume(p) ==
    /\ At(p, "resume")
    /\ status' = IF status = "FAILED" /\ ~ limit THEN "RUNNING" ELSE status
    /\ Goto(p, "advance")
    /\ UNCHANGED <<limit, briefed, approvals, gate, revisions, lock, seen, verdict, crashes>>

WorkflowStart(p) ==
    /\ At(p, "idle")
    /\ Goto(p, "workflow_lock")
    /\ UNCHANGED <<database, lock, seen, verdict, crashes>>

Finished == status \in Checkpoints \/ (status = "FAILED" /\ limit)

(* every task row without a saved result is to be done again                *)
ResetTask(s) == IF s \in {None, "succeeded"} THEN s ELSE "pending"

Workflow(p) ==
    /\ At(p, "workflow")
    /\ IF Finished
       THEN Goto(p, "publish") /\ UNCHANGED database
       ELSE /\ status' = "RUNNING"
            /\ gate' = ResetTask(gate)
            /\ revisions' = [i \in Iterations |->
                                [revisions[i] EXCEPT !.status = ResetTask(@)]]
            /\ Goto(p, "tasks")
            /\ UNCHANGED <<limit, briefed, approvals>>
    /\ UNCHANGED <<lock, seen, verdict, crashes>>

(* a changed input or configuration, unless the run is still to be created  *)
WorkflowRefused(p) ==
    /\ At(p, "workflow") /\ status # "NONE"
    /\ Leave(p)
    /\ UNCHANGED <<database, seen, verdict, crashes>>

Tasks(p) ==
    /\ At(p, "tasks")
    /\ briefed' = TRUE
    /\ Goto(p, "advance")
    /\ UNCHANGED <<status, limit, approvals, gate, revisions, lock, seen, verdict, crashes>>

TasksFail(p) ==
    /\ At(p, "tasks") /\ ~ briefed
    /\ status' = "FAILED"
    /\ Goto(p, "advance")
    /\ UNCHANGED <<limit, briefed, approvals, gate, revisions, lock, seen, verdict, crashes>>

----------------------------------------------------------------------------
(* advance: continue from the committed evidence alone *)

Latest == approvals[Len(approvals)]

Rejected == Cardinality({i \in DOMAIN approvals : approvals[i].status = "rejected"})

(* neither over, waiting, unbriefed, nor before an undecided version        *)
Advancing(p) ==
    /\ At(p, "advance") /\ status = "RUNNING" /\ briefed
    /\ approvals # << >> => Latest.status # "pending"

AdvanceNothing(p) ==
    /\ At(p, "advance") /\ ~ Advancing(p)
    /\ Goto(p, "publish")
    /\ UNCHANGED <<database, lock, seen, verdict, crashes>>

(* faulty: the run is not told                                              *)
RequestUnannounced(briefing) ==
    /\ approvals' = Append(approvals, [status |-> "pending", comment |-> None,
                                       briefing |-> briefing])
    /\ gate' = "waiting"
    /\ UNCHANGED <<status, limit, briefed, revisions>>

(* _request: the pending approval, the waiting gate, the waiting run        *)
Request(briefing) ==
    /\ approvals' = Append(approvals, [status |-> "pending", comment |-> None,
                                       briefing |-> briefing])
    /\ gate' = "waiting"
    /\ status' = "WAITING_FOR_APPROVAL"
    /\ UNCHANGED <<limit, briefed, revisions>>

AdvanceFirst(p) ==
    /\ Advancing(p) /\ approvals = << >>
    /\ Request(<< >>)
    /\ Goto(p, "publish")
    /\ UNCHANGED <<lock, seen, verdict, crashes>>

(* faulty: any decision completes the run                                   *)
AdvanceDecided(p) ==
    /\ Advancing(p) /\ approvals # << >>
    /\ status' = "SUCCEEDED"
    /\ gate' = "succeeded"
    /\ Goto(p, "publish")
    /\ UNCHANGED <<limit, briefed, approvals, revisions, lock, seen, verdict, crashes>>

AdvanceApproved(p) ==
    /\ Advancing(p) /\ approvals # << >> /\ Latest.status = "approved"
    /\ status' = "SUCCEEDED"
    /\ gate' = "succeeded"
    /\ Goto(p, "publish")
    /\ UNCHANGED <<limit, briefed, approvals, revisions, lock, seen, verdict, crashes>>

(* faulty: the revision budget is checked one rejection too late            *)
OverBudgetLate == Rejected > MaxRevisions

OverBudget == Rejected >= MaxRevisions

AdvanceLimit(p) ==
    /\ Advancing(p) /\ approvals # << >> /\ Latest.status = "rejected" /\ OverBudget
    /\ status' = "FAILED"
    /\ limit' = TRUE
    /\ gate' = "failed"
    /\ Goto(p, "publish")
    /\ UNCHANGED <<briefed, approvals, revisions, lock, seen, verdict, crashes>>

Saved(i) == revisions[i].status = "succeeded"

(* _revision: a saved output is requested as it is; otherwise the revision  *)
(* task starts                                                              *)
AdvanceRejected(p) ==
    /\ Advancing(p) /\ approvals # << >> /\ Latest.status = "rejected" /\ ~ OverBudget
    /\ IF Saved(Len(approvals))
       THEN Goto(p, "request") /\ UNCHANGED revisions
       ELSE /\ Goto(p, "revising")
            /\ revisions' = [revisions EXCEPT ![Len(approvals)].status = "running"]
    /\ UNCHANGED <<status, limit, briefed, approvals, gate, lock, seen, verdict, crashes>>

(* faulty: the comment is worked into the original briefing                 *)
ReviseOriginal(p) ==
    /\ At(p, "revising")
    /\ revisions' = [revisions EXCEPT ![Len(approvals)] =
                        [status |-> "succeeded",
                         output |-> Append(approvals[1].briefing, Latest.comment)]]
    /\ Goto(p, "request")
    /\ UNCHANGED <<status, limit, briefed, approvals, gate, lock, seen, verdict, crashes>>

Revise(p) ==
    /\ At(p, "revising")
    /\ revisions' = [revisions EXCEPT ![Len(approvals)] =
                        [status |-> "succeeded",
                         output |-> Append(Latest.briefing, Latest.comment)]]
    /\ Goto(p, "request")
    /\ UNCHANGED <<status, limit, briefed, approvals, gate, lock, seen, verdict, crashes>>

ReviseFail(p) ==
    /\ At(p, "revising")
    /\ revisions' = [revisions EXCEPT ![Len(approvals)].status = "failed"]
    /\ status' = "FAILED"
    /\ Goto(p, "publish")
    /\ UNCHANGED <<limit, briefed, approvals, gate, lock, seen, verdict, crashes>>

RequestNext(p) ==
    /\ At(p, "request")
    /\ Request(revisions[Len(approvals)].output)
    /\ Goto(p, "publish")
    /\ UNCHANGED <<lock, seen, verdict, crashes>>

(* _publish_result: reports are derived; event and job follow in Queue      *)
Publish(p) ==
    /\ At(p, "publish")
    /\ Leave(p)
    /\ UNCHANGED <<database, seen, verdict, crashes>>

----------------------------------------------------------------------------
(* a command under way takes its next step *)
Step(p) ==
    \/ Acquire(p, "decide_lock", "decide")
    \/ Acquire(p, "resume_lock", "resume")
    \/ Acquire(p, "workflow_lock", "workflow")
    \/ Decide(p) \/ DecideRefused(p)
    \/ Resume(p)
    \/ Workflow(p) \/ WorkflowRefused(p) \/ Tasks(p) \/ TasksFail(p)
    \/ AdvanceNothing(p) \/ AdvanceFirst(p) \/ AdvanceApproved(p)
    \/ AdvanceLimit(p) \/ AdvanceRejected(p)
    \/ Revise(p) \/ ReviseFail(p) \/ RequestNext(p)
    \/ Publish(p)

Start(p) ==
    \/ \E v \in Verdicts, named \in 0..Len(approvals) : DecideStart(p, v, named)
    \/ ResumeStart(p)
    \/ WorkflowStart(p)

Next == \E p \in Processes : Step(p) \/ Start(p) \/ Crash(p)

Spec == Init /\ [][Next]_vars

(* A process that is not killed goes on with its command.  Whoever looks    *)
(* after the run keeps calling resume, at moments of its own choosing: it   *)
(* is not the case that each call comes while another command is running.   *)
FairSpec ==
    /\ Spec
    /\ \A p \in Processes :
          /\ WF_vars(Step(p))
          /\ SF_vars(lock = None /\ ResumeStart(p))
          /\ SF_vars(lock = None /\ Acquire(p, "resume_lock", "resume"))

----------------------------------------------------------------------------
(* Invariants *)

(* Only the process that holds the run's lock is past it (workflow.py 92).  *)
LockHolder == \A p \in Processes : pc[p] \in Locked <=> lock = p

(* At most one version is pending, it is the latest, and the run waits      *)
(* exactly while there is one, whatever crashed in between.                 *)
WaitingIffPending ==
    /\ Pending \subseteq {Len(approvals)}
    /\ (status = "WAITING_FOR_APPROVAL") <=> Pending # {}

(* A run succeeds only if a human approved its latest version after         *)
(* rejecting every earlier one; an approval is never followed by another    *)
(* version.                                                                 *)
SuccessApproved ==
    /\ status = "SUCCEEDED" => approvals # << >> /\ Latest.status = "approved"
    /\ \A i \in DOMAIN approvals :
          i < Len(approvals) => approvals[i].status = "rejected"

(* At most MaxRevisions versions are rejected, and the limit is recorded    *)
(* only for a failed run all of whose versions were.                        *)
RevisionBudget ==
    /\ Len(approvals) <= MaxRevisions
    /\ limit => status = "FAILED" /\ Rejected = MaxRevisions

(* Each version is the previous one with its reviewer's comment worked in:  *)
(* no crash or retry skips, repeats or mixes up a revision.                 *)
VersionsChain ==
    \A i \in DOMAIN approvals :
        IF i = 1 THEN approvals[i].briefing = << >>
        ELSE approvals[i].briefing =
                Append(approvals[i-1].briefing, approvals[i-1].comment)

(* The gate's task row tells what the run's status tells, up to a reset     *)
(* that resuming work undoes.                                               *)
GateAgrees ==
    /\ status = "WAITING_FOR_APPROVAL" => gate = "waiting"
    /\ status = "SUCCEEDED" <=> gate = "succeeded"
    /\ limit <=> gate = "failed"

(* The tables agree with each other: the run's row with its approvals and   *)
(* with the row of the gate.                                                *)
StatusesAgree == WaitingIffPending /\ GateAgrees

----------------------------------------------------------------------------
(* Action properties *)

(* A version is decided only by a command that was bound to this version    *)
(* before it took the lock: a delayed command never decides a successor.    *)
DecisionBinds ==
    [][\A i \in Pending :
          approvals'[i].status # "pending"
          => \E p \in Processes : /\ pc[p] = "decide" /\ seen[p] = i
                                  /\ approvals'[i].status = verdict[p].decision]_vars

(* The history of approvals only grows; a decision once made and a briefing *)
(* once shown never change (the triggers of initialize).                    *)
HistoryRetained ==
    [][/\ Len(approvals) <= Len(approvals')
       /\ \A i \in DOMAIN approvals :
             /\ approvals'[i].briefing = approvals[i].briefing
             /\ i \notin Pending => approvals'[i] = approvals[i]]_vars

(* A revision that was saved is never computed again.                       *)
RevisionReused ==
    [][\A i \in Iterations : Saved(i) => revisions'[i] = revisions[i]]_vars

(* What a human was shown, decided and asked for stays on record, and each  *)
(* decision is about the version it was made for.                           *)
HistorySound == DecisionBinds /\ HistoryRetained /\ RevisionReused

(* A run that has been asked about does not stay interrupted.               *)
InterruptionEnds ==
    (status = "RUNNING" /\ approvals # << >>) ~> (status # "RUNNING")

----------------------------------------------------------------------------
(* The run as the rest of the system sees it.                               *)
Lifecycle == INSTANCE RunLifecycle WITH
    run <- [status |-> status, limit |-> limit, asked |-> approvals # << >>]

ImplementsLifecycle == Lifecycle!Spec
============================================================================
