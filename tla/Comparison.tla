----------------------------- MODULE Comparison -----------------------------
(***************************************************************************)
(* compare and _index of opscheck/core.py: two snapshots are matched by a  *)
(* key column, and every key is counted as added, removed, changed or      *)
(* unchanged; the first findings are kept.                                 *)
(***************************************************************************)
EXTENDS Snapshots, FiniteSets

CONSTANTS
    Key,           \* the name of the key column
    Versions       \* the snapshots that may be compared

ASSUME ComparisonConstants == \A ds \in Versions : Dataset(ds)

VARIABLES
    before, after,
    comparing,
    next,           \* the row to index next
    old, new,       \* the rows indexed by their keys
    pending,        \* keys still to be compared
    counts, changesKept

comparison == <<before, after, comparing, next, old, new, pending, counts, changesKept>>

Empty == [k \in {} |-> 0]
Kinds == {"added", "removed", "changed", "unchanged"}

ComparisonTypeOK ==
    /\ comparing \in {"old", "new", "compare", "done", "refused"}
    /\ next \in Nat
    /\ pending \subseteq Texts
    /\ DOMAIN old \subseteq Texts /\ DOMAIN new \subseteq Texts
    /\ counts \in [Kinds -> Nat]
    /\ Len(changesKept) <= MaxFindings

ComparisonInit ==
    /\ before \in Versions /\ after \in Versions
    /\ comparing = "old" /\ next = 1
    /\ old = Empty /\ new = Empty /\ pending = {}
    /\ counts = [kind \in Kinds |-> 0] /\ changesKept = <<>>

----------------------------------------------------------------------------
KeyOf(row) == row[Key].text

(* faulty: the key is used as it is written                                 *)
MatchesPadded(row, index) ==
    KeyOf(row) \in DOMAIN index /\ index[KeyOf(row)][Key].padded = row[Key].padded

(* the trimmed key has been seen                                            *)
Matches(row, index) == KeyOf(row) \in DOMAIN index

Extended(index, row) == [k \in DOMAIN index \cup {KeyOf(row)} |->
                            IF k = KeyOf(row) THEN row ELSE index[k]]

(* _index, one row; a missing key column refuses the dataset at once        *)
IndexRow(ds, index) ==
    LET row == ds.rows[next]
    IN  IF Key \notin ds.headers \/ KeyOf(row) = Blank \/ Matches(row, index)
        THEN comparing' = "refused" /\ UNCHANGED <<next, old, new>>
        ELSE /\ next' = next + 1
             /\ UNCHANGED comparing
             /\ IF comparing = "old"
                THEN old' = Extended(old, row) /\ UNCHANGED new
                ELSE new' = Extended(new, row) /\ UNCHANGED old

IndexOld ==
    /\ comparing = "old"
    /\ IF next <= Len(before.rows)
       THEN IndexRow(before, old)
       ELSE /\ comparing' = IF Key \in before.headers THEN "new" ELSE "refused"
            /\ next' = 1
            /\ UNCHANGED <<old, new>>
    /\ UNCHANGED <<before, after, pending, counts, changesKept>>

IndexNew ==
    /\ comparing = "new"
    /\ IF next <= Len(after.rows)
       THEN IndexRow(after, new) /\ UNCHANGED pending
       ELSE /\ comparing' = IF Key \in after.headers THEN "compare" ELSE "refused"
            /\ pending' = DOMAIN old \cup DOMAIN new
            /\ UNCHANGED <<next, old, new>>
    /\ UNCHANGED <<before, after, counts, changesKept>>

Shared == (before.headers \cap after.headers) \ {Key}

Fields(k) == {f \in Shared : old[k][f] # new[k][f]}

Kind(k) ==
    IF k \notin DOMAIN old THEN "added"
    ELSE IF k \notin DOMAIN new THEN "removed"
    ELSE IF Fields(k) # {} THEN "changed" ELSE "unchanged"

FieldsOf(k) ==
    CASE Kind(k) = "added" -> after.headers \ {Key}
      [] Kind(k) = "removed" -> before.headers \ {Key}
      [] OTHER -> Fields(k)

RoomLeft == Len(changesKept) < MaxFindings

(* the next key in order                                                    *)
Compare ==
    /\ comparing = "compare" /\ pending # {}
    /\ \E k \in pending :
          /\ \A other \in pending : k <= other
          /\ pending' = pending \ {k}
          /\ counts' = [counts EXCEPT ![Kind(k)] = @ + 1]
          /\ changesKept' = IF Kind(k) # "unchanged" /\ RoomLeft
                            THEN Append(changesKept,
                                        [kind |-> Kind(k), key |-> k, fields |-> FieldsOf(k)])
                            ELSE changesKept
    /\ UNCHANGED <<before, after, comparing, next, old, new>>

ComparisonEnds ==
    /\ comparing = "compare" /\ pending = {}
    /\ comparing' = "done"
    /\ UNCHANGED <<before, after, next, old, new, pending, counts, changesKept>>

ComparisonNext == IndexOld \/ IndexNew \/ Compare \/ ComparisonEnds

ComparisonSpec == ComparisonInit /\ [][ComparisonNext]_comparison

TotalChanges == counts["added"] + counts["removed"] + counts["changed"]

(* the status of the result; the schema's change counts too                 *)
Unchanged == TotalChanges = 0 /\ before.headers = after.headers

----------------------------------------------------------------------------
(* What a comparison is, told without indexes and loops.                    *)

RowsWith(ds, k) == {i \in 1..Len(ds.rows) : KeyOf(ds.rows[i]) = k}
KeysOf(ds) == {KeyOf(ds.rows[i]) : i \in 1..Len(ds.rows)}

Comparable(ds) ==
    /\ Key \in ds.headers
    /\ Blank \notin KeysOf(ds)
    /\ \A k \in KeysOf(ds) : Cardinality(RowsWith(ds, k)) = 1

Differs(k) ==
    \E i \in RowsWith(before, k), j \in RowsWith(after, k), c \in Columns \ {Key} :
        /\ c \in before.headers \cap after.headers
        /\ before.rows[i][c] # after.rows[j][c]

Changed ==
    (KeysOf(after) \ KeysOf(before)) \cup (KeysOf(before) \ KeysOf(after))
    \cup {k \in KeysOf(before) \cap KeysOf(after) : Differs(k)}

(* Snapshots are refused exactly if a key is missing, blank or, once        *)
(* trimmed, not unique: neither is a row silently overwritten by another.   *)
RefusalExact ==
    comparing \in {"done", "refused"} =>
        (comparing = "refused" <=> ~ (Comparable(before) /\ Comparable(after)))

(* Every row of both snapshots is counted once, however few findings are    *)
(* kept, and the total is that of the keys that really differ.              *)
RowsAccounted ==
    comparing = "done" =>
        /\ counts["added"] + counts["changed"] + counts["unchanged"] = Len(after.rows)
        /\ counts["removed"] + counts["changed"] + counts["unchanged"] = Len(before.rows)

(* The findings kept are the first of the changed keys, in their order; a   *)
(* result is called unchanged only if nothing differs but white space       *)
(* around the keys.                                                         *)
FindingsFirst ==
    comparing = "done" =>
        /\ TotalChanges = Cardinality(Changed)
        /\ Len(changesKept) = IF TotalChanges < MaxFindings THEN TotalChanges ELSE MaxFindings
        /\ \A i \in 1..Len(changesKept) :
              /\ changesKept[i].key \in Changed
              /\ Cardinality({k \in Changed : k < changesKept[i].key}) = i - 1
        /\ Unchanged => Changed = {}

(* The result of compare is that of the definition without indexes, and     *)
(* what is kept on the way stays within its bounds.                         *)
ComparedExactly == ComparisonTypeOK /\ RefusalExact /\ RowsAccounted /\ FindingsFirst
=============================================================================
