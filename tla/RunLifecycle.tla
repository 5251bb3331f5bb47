--------------------------- MODULE RunLifecycle ----------------------------
(***************************************************************************)
(* What a workflow run promises to the records derived from it: its row    *)
(* moves by the steps of RunStates and by no others.  Queue takes this as  *)
(* its environment; Approvals and Engine are shown to implement it.        *)
(***************************************************************************)
EXTENDS RunStates

VARIABLE run

Init == run = NoRun

Next == \E r \in Run : RunStep(run, r) /\ run' = r

Spec == Init /\ [][Next]_run
============================================================================
