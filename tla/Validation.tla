----------------------------- MODULE Validation -----------------------------
(***************************************************************************)
(* validate of opscheck/core.py: a snapshot is checked cell by cell        *)
(* against the rules of its columns; every issue is counted and the first  *)
(* findings are kept.                                                      *)
(*                                                                         *)
(* A rule is a record with only the keys the file gives it.                *)
(***************************************************************************)
EXTENDS Snapshots, Integers, FiniteSets, Functions

CONSTANTS
    Conforms,      \* the texts of each type
    Value,         \* the number a numeric text stands for
    Datasets,      \* the snapshots that may be validated
    Rules,         \* what may be asked of a column
    RuleFiles      \* columns and their rules, in the order of the file

Numeric == {"number", "integer"}

TypeOf(rule) == IF "type" \in DOMAIN rule THEN rule.type ELSE "string"
Flag(rule, name) == name \in DOMAIN rule /\ rule[name]

(* what the engine may assume of its inputs; the columns are the keys of    *)
(* one JSON object                                                          *)
ASSUME ValidationConstants ==
    /\ \A ds \in Datasets : Dataset(ds)
    /\ Numeric \subseteq DOMAIN Conforms /\ Conforms["integer"] \subseteq Conforms["number"]
    /\ \A type \in DOMAIN Conforms : Conforms[type] \subseteq Texts \ {Blank}
    /\ Value \in [Conforms["number"] -> Int]
    /\ \A rule \in Rules :
          /\ TypeOf(rule) \in DOMAIN Conforms
          /\ \A bound \in {"min", "max"} \cap DOMAIN rule : rule[bound] \in Int
    /\ \A file \in RuleFiles :
          /\ file \in Seq([column : Columns, rule : Rules])
          /\ \A i, j \in 1..Len(file) : file[i].column = file[j].column => i = j

VARIABLES
    dataset, rules,
    validating,
    row, col,           \* the cell to check next
    seen,               \* the row in which a value was first seen, by column
    issues, affected, findings

validation == <<dataset, rules, validating, row, col, seen, issues, affected, findings>>

ValidationTypeOK ==
    /\ validating \in {"rules", "missing", "rows", "done", "refused"}
    /\ row \in Nat /\ col \in Nat
    /\ DOMAIN seen \subseteq Columns
    /\ issues \in Nat
    /\ affected \subseteq 1..Len(dataset.rows)
    /\ Len(findings) <= MaxFindings

ValidationInit ==
    /\ dataset \in Datasets /\ rules \in RuleFiles
    /\ validating = "rules" /\ row = 1 /\ col = 1
    /\ seen = [c \in {} |-> 0]
    /\ issues = 0 /\ affected = {} /\ findings = <<>>

----------------------------------------------------------------------------
(* what _check_rules accepts of one column                                  *)
Consistent(rule) ==
    /\ DOMAIN rule \cap {"min", "max"} # {} => TypeOf(rule) \in Numeric
    /\ {"min", "max"} \subseteq DOMAIN rule => rule.min <= rule.max
    /\ "allowed" \in DOMAIN rule => rule.allowed # {}

(* the numbers in S from the least to the greatest                          *)
InOrder(S) == [k \in 1..Cardinality(S) |->
                  CHOOSE n \in S : Cardinality({m \in S : m < n}) = k - 1]

Room == MaxFindings - Len(findings)

(* add, for the findings of one cell or header                              *)
Add(found) ==
    /\ issues' = issues + Len(found)
    /\ affected' = affected \cup ({f.row : f \in Range(found)} \ {0})
    /\ findings' = findings \o SubSeq(found, 1, IF Len(found) < Room THEN Len(found) ELSE Room)

Start ==
    /\ validating = "rules"
    /\ IF \A i \in 1..Len(rules) : Consistent(rules[i].rule)
       THEN /\ validating' = "missing"
            /\ seen' = [c \in {rules[i].column : i \in 1..Len(rules)} |-> [t \in {} |-> 0]]
       ELSE /\ validating' = "refused"
            /\ UNCHANGED seen
    /\ UNCHANGED <<dataset, rules, row, col, issues, affected, findings>>

Absent == {p \in 1..Len(rules) : rules[p].column \notin dataset.headers}

(* row 0 stands for no row                                                  *)
Missing ==
    /\ validating = "missing"
    /\ validating' = "rows"
    /\ LET places == InOrder(Absent)
       IN  Add([i \in 1..Len(places) |->
                   [row |-> 0, column |-> rules[places[i]].column,
                    code |-> "missing_column", first |-> 0]])
    /\ UNCHANGED <<dataset, rules, row, col, seen>>

(* the codes of the rules a trimmed text breaks, if the column had it in    *)
(* row last before; a blank can only be required                            *)
Broken(rule, text, last) ==
    LET valid == text \in Conforms[TypeOf(rule)]
        numeric == valid /\ TypeOf(rule) \in Numeric
    IN  IF text = Blank
        THEN {code \in {"required"} : Flag(rule, "required")}
        ELSE {code \in {"type"} : ~ valid}
             \cup {code \in {"min"} : numeric /\ "min" \in DOMAIN rule /\ Value[text] < rule.min}
             \cup {code \in {"max"} : numeric /\ "max" \in DOMAIN rule /\ Value[text] > rule.max}
             \cup {code \in {"allowed"} : "allowed" \in DOMAIN rule /\ text \notin rule.allowed}
             \cup {code \in {"duplicate"} : Flag(rule, "unique") /\ last # 0}

Codes == <<"required", "type", "min", "max", "allowed", "duplicate">>

FirstSeen(column, text) == IF text \in DOMAIN seen[column] THEN seen[column][text] ELSE 0

(* faulty: a repeated value is seen again                                   *)
SeenAgain(rule, text, last) == Flag(rule, "unique") /\ text # Blank

(* a value of a unique column is remembered when it is new                  *)
Remembers(rule, text, last) == Flag(rule, "unique") /\ text # Blank /\ last = 0

(* one cell; a column that is not in the header is passed over              *)
Check ==
    /\ validating = "rows" /\ row <= Len(dataset.rows) /\ col <= Len(rules)
    /\ col' = col + 1
    /\ LET column == rules[col].column
           rule == rules[col].rule
       IN  IF column \notin dataset.headers
           THEN UNCHANGED <<seen, issues, affected, findings>>
           ELSE LET text == dataset.rows[row][column].text
                    last == FirstSeen(column, text)
                    places == InOrder({n \in 1..Len(Codes) : Codes[n] \in Broken(rule, text, last)})
                IN  /\ Add([i \in 1..Len(places) |->
                               [row |-> row, column |-> column, code |-> Codes[places[i]],
                                first |-> IF Codes[places[i]] = "duplicate" THEN last ELSE 0]])
                    /\ seen' = IF Remembers(rule, text, last)
                               THEN [seen EXCEPT ![column] =
                                        [t \in DOMAIN @ \cup {text} |-> IF t = text THEN row ELSE @[t]]]
                               ELSE seen
    /\ UNCHANGED <<dataset, rules, validating, row>>

NextRow ==
    /\ validating = "rows" /\ row <= Len(dataset.rows) /\ col > Len(rules)
    /\ row' = row + 1 /\ col' = 1
    /\ UNCHANGED <<dataset, rules, validating, seen, issues, affected, findings>>

ValidationEnds ==
    /\ validating = "rows" /\ row > Len(dataset.rows)
    /\ validating' = "done"
    /\ UNCHANGED <<dataset, rules, row, col, seen, issues, affected, findings>>

ValidationNext == Start \/ Missing \/ Check \/ NextRow \/ ValidationEnds

ValidationSpec == ValidationInit /\ [][ValidationNext]_validation

----------------------------------------------------------------------------
(* What the rules say of the whole snapshot, told without its order.        *)

Text(i, c) == dataset.rows[i][c].text

Violates(rule, c, i, code) ==
    CASE code = "required" -> Text(i, c) = Blank /\ Flag(rule, "required")
      [] code = "duplicate" ->
            Text(i, c) # Blank /\ Flag(rule, "unique") /\ \E j \in 1..(i - 1) : Text(j, c) = Text(i, c)
      [] code = "allowed" ->
            Text(i, c) # Blank /\ "allowed" \in DOMAIN rule /\ Text(i, c) \notin rule.allowed
      [] code = "type" -> Text(i, c) \notin Conforms[TypeOf(rule)] \cup {Blank}
      [] code = "min" ->
            "min" \in DOMAIN rule /\ Text(i, c) \in {t \in Conforms[TypeOf(rule)] : Value[t] < rule.min}
      [] code = "max" ->
            "max" \in DOMAIN rule /\ Text(i, c) \in {t \in Conforms[TypeOf(rule)] : Value[t] > rule.max}

(* a violation is a row, the place of its column among the rules and the    *)
(* place of its code                                                        *)
Violations ==
    {<<0, p, 0>> : p \in {q \in 1..Len(rules) : rules[q].column \notin dataset.headers}}
    \cup {v \in (1..Len(dataset.rows)) \X (1..Len(rules)) \X (1..Len(Codes)) :
             /\ rules[v[2]].column \in dataset.headers
             /\ Violates(rules[v[2]].rule, rules[v[2]].column, v[1], Codes[v[3]])}

Before(v, w) ==
    \/ v[1] < w[1]
    \/ v[1] = w[1] /\ v[2] < w[2]
    \/ v[1] = w[1] /\ v[2] = w[2] /\ v[3] < w[3]

(* Every violation of the snapshot is counted, however few findings are     *)
(* kept, and exactly the rows that have one are affected.                   *)
IssuesExact ==
    validating = "done" =>
        /\ issues = Cardinality(Violations)
        /\ affected = {v[1] : v \in Violations} \ {0}

(* The findings kept are the first violations in the order of rows, then of *)
(* the rules, then of the codes.                                            *)
FirstReported ==
    validating = "done" =>
        /\ Len(findings) = IF issues < MaxFindings THEN issues ELSE MaxFindings
        /\ \A i \in 1..Len(findings) : \E v \in Violations :
              /\ Cardinality({w \in Violations : Before(w, v)}) = i - 1
              /\ findings[i].row = v[1]
              /\ findings[i].column = rules[v[2]].column
              /\ findings[i].code = IF v[1] = 0 THEN "missing_column" ELSE Codes[v[3]]

(* A duplicate names the first row that has its value, blank or invalid     *)
(* values in between notwithstanding.                                       *)
FirstRowNamed ==
    \A f \in Range(findings) :
        f.code = "duplicate" =>
            /\ f.first \in 1..(f.row - 1)
            /\ Text(f.first, f.column) = Text(f.row, f.column)
            /\ \A j \in 1..(f.first - 1) : Text(j, f.column) # Text(f.row, f.column)

(* No number is reported both as too small and as too large: rules whose    *)
(* bounds exclude every value are refused before a row is read.             *)
BoundsAgree ==
    \A f, g \in Range(findings) :
        ~ (f.row = g.row /\ f.column = g.column /\ f.code = "min" /\ g.code = "max")

(* The result of validate is that of the definition without loops, and what *)
(* is kept and remembered on the way stays within its bounds.               *)
ValidatedExactly == ValidationTypeOK /\ IssuesExact /\ FirstReported /\ FirstRowNamed /\ BoundsAgree
=============================================================================
