----------------------------- MODULE RunStates -----------------------------
(***************************************************************************)
(* A workflow run as the rest of the system sees it: its row in the table  *)
(* runs, and whether the event revision_limit_reached is recorded for it.  *)
(* The ingestion event and the queue job of a run are derived from this    *)
(* and from nothing else, so this is the interface between the workflow    *)
(* (opscheck/workflow.py, opscheck/approvals.py) and the delivery of runs  *)
(* (opscheck/event_store.py, opscheck/queue_store.py).                     *)
(*                                                                         *)
(* PENDING is never visible to another connection: run_workflow inserts a  *)
(* run and sets it RUNNING in one transaction.                             *)
(***************************************************************************)

RunStatus == {"NONE", "RUNNING", "WAITING_FOR_APPROVAL", "SUCCEEDED", "FAILED"}

Checkpoints == {"WAITING_FOR_APPROVAL", "SUCCEEDED"}

(* limit: revision_limit_reached is recorded; asked: an approval request    *)
(* was committed at some time                                               *)
Run == [status : RunStatus, limit : BOOLEAN, asked : BOOLEAN]

NoRun == [status |-> "NONE", limit |-> FALSE, asked |-> FALSE]

----------------------------------------------------------------------------
(* What one committed transaction of the workflow may do to a run.          *)

RunCreated(r, s) ==                                  \* run_workflow, a new run
    r = NoRun /\ s = [r EXCEPT !.status = "RUNNING"]

RunRestarted(r, s) ==                                 \* run_workflow or resume_run
    /\ r.status = "FAILED" /\ ~ r.limit
    /\ s = [r EXCEPT !.status = "RUNNING"]

RunFailed(r, s) ==                                    \* a task or a revision failed
    r.status = "RUNNING" /\ s = [r EXCEPT !.status = "FAILED"]

RunPaused(r, s) ==                                   \* an approval is requested
    /\ r.status = "RUNNING"
    /\ s = [r EXCEPT !.status = "WAITING_FOR_APPROVAL", !.asked = TRUE]

RunDecidedOn(r, s) ==                                  \* a human decision
    /\ r.status = "WAITING_FOR_APPROVAL"
    /\ s = [r EXCEPT !.status = "RUNNING"]

RunSucceeded(r, s) ==                                 \* after an approval
    /\ r.status = "RUNNING" /\ r.asked
    /\ s = [r EXCEPT !.status = "SUCCEEDED"]

RunLimited(r, s) ==                            \* after the last rejection
    /\ r.status = "RUNNING" /\ r.asked
    /\ s = [r EXCEPT !.status = "FAILED", !.limit = TRUE]

RunStep(r, s) ==
    \/ RunCreated(r, s)
    \/ RunRestarted(r, s)
    \/ RunFailed(r, s)
    \/ RunPaused(r, s)
    \/ RunDecidedOn(r, s)
    \/ RunSucceeded(r, s)
    \/ RunLimited(r, s)
============================================================================
