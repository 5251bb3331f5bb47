------------------------------- MODULE Engine ------------------------------
(***************************************************************************)
(* One invocation after another of run_workflow on one run                 *)
(* (opscheck/workflow.py): the fixed DAG of tasks, an orchestration thread *)
(* that alone writes SQLite, a pool of worker threads, retries within an   *)
(* invocation, crashes between any two steps and resumption from the task  *)
(* rows.  The run's lock admits one invocation at a time, so one           *)
(* orchestrator is modelled.                                               *)
(*                                                                         *)
(* The orchestrator's memory of the task rows (tasks, outputs) is written  *)
(* together with them and lost with the process, so the rows stand for     *)
(* both.  The four input files are one value, their version; version 1 is  *)
(* what the run was created from.  An output of a worker is the version it *)
(* read.  Lifetime attempt totals and the texts of errors are left out.    *)
(* The variable undone is history: no action looks at it.                  *)
(***************************************************************************)
EXTENDS Naturals, FiniteSets, RunStates

CONSTANTS
    MaxAttempts,    \* max_attempts: the allowance per task and invocation
    Transient,      \* tasks that may fail with a retryable error
    Fatal,          \* tasks that may fail with an error of their own
    MaxVersions,    \* bound: versions of the input files
    MaxCrashes,     \* bound: invocations that die
    MaxFailures     \* bound: transient and fatal failures

ASSUME EngineConstants ==
    /\ MaxAttempts \in 1..5
    /\ MaxVersions \in Nat \ {0}
    /\ MaxCrashes \in Nat
    /\ MaxFailures \in Nat

PLAN == [planner        |-> {},
         quality_agent  |-> {"planner"},
         change_agent   |-> {"planner"},
         verifier       |-> {"quality_agent", "change_agent"},
         briefing_agent |-> {"verifier"}]

Tasks == DOMAIN PLAN

(* PLAN.items() visits the tasks in the order of the dictionary             *)
Earlier(t) ==
    CASE t = "planner"        -> {}
      [] t = "quality_agent"  -> {"planner"}
      [] t = "change_agent"   -> {"planner", "quality_agent"}
      [] t = "verifier"       -> {"planner", "quality_agent", "change_agent"}
      [] t = "briefing_agent" -> Tasks \ {"briefing_agent"}

Workers == {"quality_agent", "change_agent"}        \* the tasks that read inputs

VARIABLES
    status,         \* runs.status
    fingerprint,    \* the version runs.fingerprint was computed from, 0 for none
    rows,           \* rows[t]: status of the task row, "none" before creation
    output,         \* output[t]: the version a worker's saved output came from
    pc,             \* where the orchestrator is; "down" between invocations
    observed,       \* the version its fingerprint was computed from
    allowance,      \* allowance_used
    thread,         \* thread[t]: the future of t, "none" unless submitted
    read,           \* read[t]: the version t's thread read
    batch,          \* the futures returned by wait and not yet handled
    input,          \* the version of the input files now
    undone,         \* history: the run's bytes were put back since the verifier
                    \* took its first fingerprint and before it took its second
    crashes, failures

saved == <<status, fingerprint, rows, output>>
memory == <<pc, observed, allowance, thread, read, batch>>
files == <<input, undone>>
vars == <<saved, memory, files, crashes, failures>>

Versions == 1..MaxVersions

RowStatus == {"none", "pending", "running", "succeeded", "failed", "blocked"}

Done == {"ok", "transient", "fatal"}

(* where the verifier's thread is between its two fingerprints              *)
Recomputing == {"same", "requalified", "recomputed"}

TypeOK ==
    /\ status \in RunStatus
    /\ fingerprint \in 0..MaxVersions
    /\ rows \in [Tasks -> RowStatus]
    /\ output \in [Workers -> 0..MaxVersions]
    /\ pc \in {"down", "begin", "schedule", "wait", "handle", "final", "advance"}
    /\ observed \in 0..MaxVersions
    /\ allowance \in [Tasks -> 0..MaxAttempts]
    /\ thread \in [Tasks -> {"none", "running"} \cup Recomputing \cup Done]
    /\ read \in [Workers -> 0..MaxVersions]
    /\ batch \subseteq Tasks
    /\ input \in Versions /\ undone \in BOOLEAN
    /\ crashes \in 0..MaxCrashes
    /\ failures \in 0..MaxFailures

Init ==
    /\ status = "NONE" /\ fingerprint = 0
    /\ rows = [t \in Tasks |-> "none"]
    /\ output = [t \in Workers |-> 0]
    /\ pc = "down" /\ observed = 0
    /\ allowance = [t \in Tasks |-> 0]
    /\ thread = [t \in Tasks |-> "none"]
    /\ read = [t \in Workers |-> 0]
    /\ batch = {}
    /\ input = 1 /\ undone = FALSE
    /\ crashes = 0 /\ failures = 0

----------------------------------------------------------------------------
(* The orchestrator *)

(* The fingerprint of the files is taken before the lock and the database.  *)
Fingerprint ==
    /\ pc = "down" /\ status \notin Checkpoints
    /\ observed' = input
    /\ pc' = "begin"
    /\ UNCHANGED <<saved, allowance, thread, read, batch, files, crashes, failures>>

(* faulty: a task that was running when the process died is left so         *)
BeginKeepingRunning ==
    /\ pc = "begin"
    /\ status # "NONE" => observed = fingerprint
    /\ fingerprint' = observed
    /\ status' = "RUNNING"
    /\ rows' = [t \in Tasks |-> IF rows[t] \in {"running", "succeeded"} THEN rows[t]
                                ELSE "pending"]
    /\ output' = [t \in Workers |-> IF rows[t] = "succeeded" THEN output[t] ELSE 0]
    /\ allowance' = [t \in Tasks |-> 0]
    /\ pc' = "schedule"
    /\ UNCHANGED <<observed, thread, read, batch, files, crashes, failures>>

(* faulty: everything is done again                                         *)
BeginAfresh ==
    /\ pc = "begin"
    /\ status # "NONE" => observed = fingerprint
    /\ fingerprint' = observed
    /\ status' = "RUNNING"
    /\ rows' = [t \in Tasks |-> "pending"]
    /\ output' = [t \in Workers |-> 0]
    /\ allowance' = [t \in Tasks |-> 0]
    /\ pc' = "schedule"
    /\ UNCHANGED <<observed, thread, read, batch, files, crashes, failures>>

Begin ==
    /\ pc = "begin"
    /\ status # "NONE" => observed = fingerprint
    /\ fingerprint' = observed
    /\ status' = "RUNNING"
    /\ rows' = [t \in Tasks |-> IF rows[t] = "succeeded" THEN "succeeded" ELSE "pending"]
    /\ output' = [t \in Workers |-> IF rows[t] = "succeeded" THEN output[t] ELSE 0]
    /\ allowance' = [t \in Tasks |-> 0]
    /\ pc' = "schedule"
    /\ UNCHANGED <<observed, thread, read, batch, files, crashes, failures>>

BeginRefused ==
    /\ pc = "begin" /\ status # "NONE" /\ observed # fingerprint
    /\ pc' = "down"
    /\ UNCHANGED <<saved, observed, allowance, thread, read, batch, files, crashes, failures>>

Succeeded(ts) == \A t \in ts : rows[t] = "succeeded"

Ready(t) == rows[t] = "pending" /\ Succeeded(PLAN[t])

Start(t) ==
    /\ pc = "schedule"
    /\ Ready(t) /\ \A u \in Earlier(t) : ~ Ready(u)
    /\ rows' = [rows EXCEPT ![t] = "running"]
    /\ allowance' = [allowance EXCEPT ![t] = @ + 1]
    /\ thread' = [thread EXCEPT ![t] = "running"]
    /\ UNCHANGED <<status, fingerprint, output, pc, observed, read, batch, files, crashes, failures>>

Futures == {t \in Tasks : thread[t] # "none"}

(* faulty: it waits although nothing is in flight                           *)
ScheduledWaits ==
    /\ pc = "schedule" /\ \A t \in Tasks : ~ Ready(t)
    /\ pc' = "wait"
    /\ UNCHANGED <<saved, observed, allowance, thread, read, batch, files, crashes, failures>>

Scheduled ==
    /\ pc = "schedule" /\ \A t \in Tasks : ~ Ready(t)
    /\ pc' = IF Futures = {} THEN "final" ELSE "wait"
    /\ UNCHANGED <<saved, observed, allowance, thread, read, batch, files, crashes, failures>>

(* FIRST_COMPLETED returns every future that is done by now                 *)
Wait ==
    /\ pc = "wait"
    /\ batch' = {t \in Futures : thread[t] \in Done}
    /\ batch' # {}
    /\ pc' = "handle"
    /\ UNCHANGED <<saved, observed, allowance, thread, read, files, crashes, failures>>

Retries(t) == thread[t] = "transient" /\ allowance[t] < MaxAttempts

Handle(t) ==
    /\ pc = "handle" /\ t \in batch
    /\ batch' = batch \ {t}
    /\ thread' = [thread EXCEPT ![t] = "none"]
    /\ rows' = [rows EXCEPT ![t] = IF thread[t] = "ok" THEN "succeeded"
                                   ELSE IF Retries(t) THEN "pending" ELSE "failed"]
    /\ output' = IF thread[t] = "ok" /\ t \in Workers
                 THEN [output EXCEPT ![t] = read[t]] ELSE output
    /\ UNCHANGED <<status, fingerprint, pc, observed, allowance, read, files, crashes, failures>>

Handled ==
    /\ pc = "handle" /\ batch = {}
    /\ pc' = "schedule"
    /\ UNCHANGED <<saved, observed, allowance, thread, read, batch, files, crashes, failures>>

(* faulty: the run fails only when a task did, blocked tasks are forgotten  *)
BlockedForgotten == rows

Blocked == [t \in Tasks |-> IF rows[t] = "pending" THEN "blocked" ELSE rows[t]]

Final ==
    /\ pc = "final"
    /\ rows' = Blocked
    /\ status' = IF Succeeded(Tasks) THEN status ELSE "FAILED"
    /\ pc' = "advance"
    /\ UNCHANGED <<fingerprint, output, observed, allowance, thread, read, batch, files, crashes, failures>>

(* advance and _publish_result: a run that is still RUNNING has its         *)
(* briefing and asks for approval (module Approvals)                        *)
(* faulty: a failed run is put before a human as well                       *)
AdvanceAlways ==
    /\ pc = "advance"
    /\ status' = "WAITING_FOR_APPROVAL"
    /\ pc' = "down"
    /\ UNCHANGED <<fingerprint, rows, output, observed, allowance, thread, read, batch, files, crashes, failures>>

Advance ==
    /\ pc = "advance"
    /\ status' = IF status = "RUNNING" THEN "WAITING_FOR_APPROVAL" ELSE status
    /\ pc' = "down"
    /\ UNCHANGED <<fingerprint, rows, output, observed, allowance, thread, read, batch, files, crashes, failures>>

(* The process dies with its threads and its memory.                        *)
Crash ==
    /\ pc # "down" /\ crashes < MaxCrashes
    /\ crashes' = crashes + 1
    /\ pc' = "down"
    /\ thread' = [t \in Tasks |-> "none"]
    /\ batch' = {}
    /\ UNCHANGED <<saved, observed, allowance, read, files, failures>>

----------------------------------------------------------------------------
(* The worker threads: execute *)

Becomes(t, s) == thread' = [thread EXCEPT ![t] = s]

ThreadOnly == UNCHANGED <<saved, pc, observed, allowance, batch, input, crashes>>

(* planner, quality_agent, change_agent and briefing_agent; validate and    *)
(* compare read the files                                                   *)
Execute(t) ==
    /\ thread[t] = "running" /\ t # "verifier"
    /\ Becomes(t, "ok")
    /\ read' = IF t \in Workers THEN [read EXCEPT ![t] = input] ELSE read
    /\ ThreadOnly /\ UNCHANGED <<undone, failures>>

ExecuteFail(t) ==
    /\ thread[t] = "running" /\ failures < MaxFailures
    /\ \/ t \in Transient /\ Becomes(t, "transient")
       \/ t \in Fatal /\ Becomes(t, "fatal")
    /\ failures' = failures + 1
    /\ ThreadOnly /\ UNCHANGED <<read, undone>>

(* faulty: the fingerprint is not taken again after the recomputation       *)
UnchangedOnce == thread["verifier"] = "recomputed" \/ input = fingerprint

(* _verify: the fingerprint, both engines again, the fingerprint again      *)
Unchanged == input = fingerprint

CompareFirst ==
    /\ thread["verifier"] = "running"
    /\ Becomes("verifier", IF Unchanged THEN "same" ELSE "fatal")
    /\ undone' = FALSE
    /\ ThreadOnly /\ UNCHANGED <<read, failures>>

Recompute(t, stage, next) ==
    /\ thread["verifier"] = stage
    /\ Becomes("verifier", IF output[t] = input THEN next ELSE "fatal")
    /\ ThreadOnly /\ UNCHANGED <<read, undone, failures>>

CompareAgain ==
    /\ thread["verifier"] = "recomputed"
    /\ Becomes("verifier", IF Unchanged THEN "ok" ELSE "fatal")
    /\ ThreadOnly /\ UNCHANGED <<read, undone, failures>>

Thread(t) == Execute(t) \/ ExecuteFail(t)

Verify ==
    \/ CompareFirst
    \/ Recompute("quality_agent", "same", "requalified")
    \/ Recompute("change_agent", "requalified", "recomputed")
    \/ CompareAgain

----------------------------------------------------------------------------
(* The files: anybody may change them at any moment, to what they have been *)
(* before as well.                                                          *)

Edit ==
    \E v \in Versions \ {input} :
        /\ input' = v
        /\ undone' = (undone \/ (v = fingerprint /\ thread["verifier"] \in Recomputing))
        /\ UNCHANGED <<saved, memory, crashes, failures>>

----------------------------------------------------------------------------
Orchestrate ==
    \/ Begin \/ BeginRefused
    \/ \E t \in Tasks : Start(t) \/ Handle(t)
    \/ Scheduled \/ Wait \/ Handled \/ Final \/ Advance

Next ==
    \/ Fingerprint \/ Orchestrate \/ Crash
    \/ \E t \in Tasks : Thread(t)
    \/ Verify
    \/ Edit

Spec == Init /\ [][Next]_vars

(* The orchestrator keeps running and every task comes to an end: the       *)
(* engines are loops over the rows, the model adapter has timeouts.         *)
FairSpec ==
    /\ Spec
    /\ WF_vars(Orchestrate)
    /\ \A t \in Tasks : WF_vars(Thread(t))
    /\ WF_vars(Verify)

(* ... and somebody keeps retrying the run until it is finished.            *)
RetriedSpec == FairSpec /\ WF_vars(Fingerprint)

----------------------------------------------------------------------------
(* Invariants *)

(* A task starts only when everything it depends on has succeeded, and this *)
(* stays so across failures, crashes and resumption: no task ever runs on,  *)
(* or keeps, a result whose premise was undone.                             *)
DependenciesFirst ==
    \A t \in Tasks :
        rows[t] \in {"running", "succeeded"} \/ thread[t] # "none" => Succeeded(PLAN[t])

(* While an invocation is at work its running rows and its futures are the  *)
(* same tasks, and the pool of two threads never has to make one wait.      *)
FuturesTracked ==
    /\ pc \in {"schedule", "wait", "handle"} => Futures = {t \in Tasks : rows[t] = "running"}
    /\ pc \notin {"schedule", "wait", "handle"} => Futures = {}
    /\ Cardinality(Futures) <= 2

(* The rows, the futures and the threads of the pool fit each other and the *)
(* graph, whatever failed, was retried or was left behind by a crash.       *)
ScheduleSound == TypeOK /\ DependenciesFirst /\ FuturesTracked

(* A run waits for approval only with all its tasks done; one that failed   *)
(* left no task in doubt: a task is blocked exactly when something it needs *)
(* did not succeed, and some task failed.                                   *)
FinalVerdict ==
    /\ status = "WAITING_FOR_APPROVAL" => Succeeded(Tasks)
    /\ status = "FAILED" =>
          /\ \E t \in Tasks : rows[t] = "failed"
          /\ \A t \in Tasks : /\ rows[t] \in {"succeeded", "failed", "blocked"}
                               /\ rows[t] = "blocked" <=> ~ Succeeded(PLAN[t])

(* Verified results come from the very bytes the run was created from,      *)
(* although files may change, and change back, while the specialists read   *)
(* them, between invocations and while the verifier reads them.  What two   *)
(* equal fingerprints cannot show is excepted, and nothing else: that the   *)
(* files were other than the run's, and the run's again, in between.        *)
VerifiedInputs ==
    rows["verifier"] = "succeeded" /\ ~ undone => \A t \in Workers : output[t] = fingerprint

(* A task that succeeded is never done again and keeps its output.          *)
SuccessKept ==
    [][\A t \in Tasks : rows[t] = "succeeded" =>
          /\ rows'[t] = "succeeded"
          /\ t \in Workers => output'[t] = output[t]]_vars

(* An invocation that is not killed comes to its end.                       *)
InvocationEnds == (pc # "down") ~> (pc = "down")

(* A run whose inputs stay as they are gets its briefing in the end, after  *)
(* finitely many crashes and failures, if it is retried.                    *)
RunGetsBriefed == [](input = 1) => <>(status = "WAITING_FOR_APPROVAL")

(* The loop of _run_tasks ends for every mix of failures and retries, and   *)
(* ends with the briefing if it is begun often enough.                      *)
EngineProgress == InvocationEnds /\ RunGetsBriefed

(* docs/CLI_GUIDE.md 189: "if files changed, restore the original bytes to  *)
(* retry that event."                                                       *)
RestoredRunRecovers ==
    <>[](fingerprint # 0 /\ input = fingerprint) => <>(status = "WAITING_FOR_APPROVAL")

----------------------------------------------------------------------------
Lifecycle == INSTANCE RunLifecycle WITH
    run <- [status |-> status, limit |-> FALSE,
            asked |-> status = "WAITING_FOR_APPROVAL"]

ImplementsLifecycle == Lifecycle!Spec
============================================================================
