------------------------------- MODULE MCCore -------------------------------
(***************************************************************************)
(* The deterministic engines of opscheck/core.py for TLC.  A behaviour is  *)
(* two threads loading files (CsvLoading), one call of validate or one of  *)
(* compare; what is not called rests where it would begin.                 *)
(***************************************************************************)
EXTENDS CsvLoading, Validation, Comparison, SequencesExt, TLC

CONSTANTS t1, t2

VARIABLE call       \* which of the three

Interchangeable == Permutations(Threads)

Plain(t) == [text |-> t, padded |-> FALSE]
Padded(t) == [text |-> t, padded |-> TRUE]

----------------------------------------------------------------------------
(* Files of up to three records, one more than may be loaded.               *)
SmallFiles ==
    {[readable |-> TRUE, records |-> s] : s \in BoundedSeq(Record, MaxRecords + 2)}
    \cup {[readable |-> FALSE, records |-> <<>>]}

----------------------------------------------------------------------------
(* Validation: the texts are "7", "9", "9.0" and "x"; a snapshot has up to  *)
(* two rows of two columns or three of one.                                 *)
SomeConforms == [string |-> 1..4, number |-> 1..3, integer |-> 1..2]
SomeValues == [t \in 1..3 |-> IF t = 1 THEN 7 ELSE 9]

AmountCells == {Plain(t) : t \in 0..4} \cup {Padded(2)}
IdCells == {Plain(0), Plain(1), Padded(1)}

PairRows == {[amount |-> a, id |-> i] : a \in AmountCells, i \in IdCells}
SingleRows == {[amount |-> a] : a \in {Plain(0), Plain(2), Padded(2), Plain(3), Plain(4)}}

SomeDatasets ==
    {[headers |-> {"amount", "id"}, rows |-> s] : s \in BoundedSeq(PairRows, 2)}
    \cup {[headers |-> {"amount"}, rows |-> s] : s \in BoundedSeq(SingleRows, 3)}

AmountRules ==
    {[required |-> TRUE, unique |-> TRUE],
     [type |-> "number", min |-> 8, unique |-> TRUE],
     [type |-> "integer", min |-> 7, max |-> 8, required |-> TRUE],
     [type |-> "number", min |-> 8, max |-> 8],
     [type |-> "number", min |-> 9, max |-> 6],
     [type |-> "integer", allowed |-> {2}, unique |-> TRUE],
     [max |-> 8], [allowed |-> {}]}

IdRules == {[unique |-> TRUE], [required |-> TRUE, allowed |-> {2}]}

On(c, r) == [column |-> c, rule |-> r]

SomeRuleFiles ==
    {<<On("amount", a)>> : a \in AmountRules}
    \cup {<<On("amount", a), On("id", i)>> : a \in AmountRules, i \in IdRules}
    \cup {<<On("note", [required |-> FALSE]), On("id", i), On("amount", a)>> :
             a \in AmountRules, i \in IdRules}

SomeRules == AmountRules \cup IdRules \cup {[required |-> FALSE]}

----------------------------------------------------------------------------
(* Comparison: snapshots of up to two rows with three keys, blank or        *)
(* padded, a column that may differ and one that may be missing.            *)
KeyCells == {Plain(0)} \cup {Plain(t) : t \in 1..3} \cup {Padded(t) : t \in 1..3}

RowsOver(headers) ==
    {r \in [headers -> KeyCells] :
        /\ "amount" \in headers => r["amount"].text = 1
        /\ "note" \in headers => r["note"] = Plain(1)}

KeyedDatasets ==
    UNION {{[headers |-> h, rows |-> s] : s \in BoundedSeq(RowsOver(h), 2)} :
              h \in {{"id"}, {"id", "amount"}, {"id", "note"}, {"note"}}}

----------------------------------------------------------------------------
LoadingRests ==
    /\ loader = [t \in Threads |-> [pc |-> "idle", file |-> [readable |-> FALSE, records |-> <<>>],
                                    parsed |-> 0, previous |-> InitialLimit, verdict |-> "unknown"]]
    /\ Init

ValidationRests ==
    /\ dataset = [headers |-> {"amount"}, rows |-> <<>>] /\ rules = <<On("amount", [max |-> 8])>>
    /\ ValidationInit

ComparisonRests ==
    /\ before = [headers |-> {"id"}, rows |-> <<>>] /\ after = before
    /\ ComparisonInit

CoreInit ==
    \/ call = "load_csv" /\ LoadingRests /\ ValidationRests /\ ComparisonRests
    \/ call = "validate" /\ LoadingRests /\ ComparisonRests /\ ValidationInit
    \/ call = "compare" /\ LoadingRests /\ ValidationRests /\ ComparisonInit

CoreNext ==
    \/ call = "load_csv" /\ Next /\ UNCHANGED <<call, validation, comparison>>
    \/ call = "validate" /\ ValidationNext /\ UNCHANGED <<call, vars, comparison>>
    \/ call = "compare" /\ ComparisonNext /\ UNCHANGED <<call, vars, validation>>

CoreSpec == CoreInit /\ [][CoreNext]_<<call, vars, validation, comparison>>
=============================================================================
