---------------------------- MODULE MCApprovals ----------------------------
(* An instance of Approvals for TLC: two processes handle up to three       *)
(* versions of a briefing and may be killed twice.                          *)
EXTENDS Approvals

CONSTANTS p1, p2, c1

TwoProcesses == {p1, p2}
============================================================================
