----------------------------- MODULE Snapshots ------------------------------
(***************************************************************************)
(* What load_csv of opscheck/core.py returns to the engines: the names in  *)
(* the header and a row of cells for each record.                          *)
(*                                                                         *)
(* A cell is a text and whether white space surrounds it.  Texts are       *)
(* numbered in the order in which sorted puts them; 0 is the empty text.   *)
(***************************************************************************)
EXTENDS Naturals, Sequences

CONSTANTS
    Texts, Columns,
    MaxFindings    \* how many findings a result keeps

Blank == 0

ASSUME SnapshotConstants ==
    /\ Texts \subseteq Nat /\ Blank \in Texts
    /\ MaxFindings \in Nat

Cell == [text : Texts, padded : BOOLEAN]

(* rows have a cell for each header                                         *)
Dataset(ds) == ds.headers \subseteq Columns /\ ds.rows \in Seq([ds.headers -> Cell])
=============================================================================
