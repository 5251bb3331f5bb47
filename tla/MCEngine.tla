------------------------------ MODULE MCEngine -----------------------------
(* Instances of Engine for TLC. *)
EXTENDS Engine

(* fail_once injects transient failures into the specialists; the model     *)
(* adapter's transport fails transiently in briefing_agent                  *)
TransientTasks == {"quality_agent", "change_agent", "briefing_agent"}

(* malformed inputs and rejected model output                               *)
FatalTasks == {"quality_agent", "briefing_agent"}
============================================================================
