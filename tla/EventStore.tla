---------------------------- MODULE EventStore -----------------------------
(***************************************************************************)
(* The status of an ingestion event (opscheck/event_store.py) and how it   *)
(* is derived from the run the event reserved.  RECEIVED and VALIDATED are *)
(* written by one transaction, so only the second is ever visible; INVALID *)
(* events reserve no run and are never derived.                            *)
(***************************************************************************)
EXTENDS RunStates

EventStatus == {"VALIDATED", "CLAIMED", "WORKFLOW_CREATED",
                "WAITING_FOR_APPROVAL", "COMPLETED", "FAILED"}

Event == [status : EventStatus, retryable : BOOLEAN]

NewEvent == [status |-> "VALIDATED", retryable |-> FALSE]

StatusFor(r) ==
    CASE r.status = "WAITING_FOR_APPROVAL" -> "WAITING_FOR_APPROVAL"
      [] r.status = "SUCCEEDED"            -> "COMPLETED"
      [] r.status = "FAILED"               -> "FAILED"
      [] OTHER                             -> "WORKFLOW_CREATED"

(* An ingestion failure outlives the RUNNING status of the run it could not *)
(* resume: only an explicit retry clears it.                                *)
KeepsFailure(e, r) == e.status = "FAILED" /\ r.status = "RUNNING"

SyncEvent(e, r) ==
    IF r.status = "NONE" THEN e
    ELSE LET status == IF KeepsFailure(e, r) THEN "FAILED" ELSE StatusFor(r)
         IN  [status |-> status, retryable |-> status = "FAILED" /\ ~ r.limit]
============================================================================
