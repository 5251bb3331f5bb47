----------------------------- MODULE MCIngestion ----------------------------
(* Instances of Ingestion for TLC: MCIngestionIdentity.cfg has two contents *)
(* and an external id, MCIngestion.cfg one event and everything that may    *)
(* happen to it.                                                            *)
EXTENDS Ingestion, TLC

CONSTANTS p1, p2, c1, c2, x1

TwoProcesses == {p1, p2}
TwoContents == {c1, c2}
OneId == {x1}

Interchangeable ==
    Permutations(TwoProcesses) \cup Permutations(TwoContents)
=============================================================================
