----------------------------- MODULE MCReports -----------------------------
(* An instance of Reports for TLC: the first version of the run has no      *)
(* briefing yet.                                                            *)
EXTENDS Reports, TLC

CONSTANTS json, html, briefing

FileOrder == <<json, html, briefing>>

ShowsBy == [v \in Versions |-> IF v = 1 THEN {json, html} ELSE FileSet]

Symmetry == Permutations(Clients) \cup Permutations(Workers)
=============================================================================
