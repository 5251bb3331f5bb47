----------------------------- MODULE CoreProofs -----------------------------
(***************************************************************************)
(* What modules CsvLoading, Validation and Comparison promise of           *)
(* opscheck/core.py holds for any threads and files, for any snapshots and *)
(* rules, and for any key column, texts and caps on findings.              *)
(***************************************************************************)
EXTENDS CsvLoading, Validation, Comparison, SequenceTheorems, FiniteSetTheorems, TLAPS
----------------------------------------------------------------------------
(* CsvLoading *)

(* One thread at a time touches the library's limit.                        *)
Exclusive ==
    \A t \in Threads :
        At(t, {"entered", "saved", "parsing", "parsed", "restored"}) => lock = t

(* Who holds the lock knows the first limit, and parses under the large one.*)
LimitKnown ==
    \A t \in Threads :
        /\ At(t, {"saved", "parsing", "parsed"}) => loader[t].previous = InitialLimit
        /\ At(t, {"parsing"}) => limit = MaxFileBytes

(* What has been parsed so far is in order.                                 *)
Sound(l) ==
    /\ l.pc \in {"waiting", "entered", "saved", "parsing"} => l.file.readable
    /\ l.pc \in {"read", "waiting", "entered", "saved"} => l.parsed = 0
    /\ l.pc \in {"read", "waiting", "entered", "saved", "parsing"} => l.verdict = "unknown"
    /\ l.pc = "parsing" => /\ l.parsed <= Len(l.file.records)
                           /\ \A i \in 1..l.parsed : l.file.records[i].fit
    /\ l.verdict # "unknown" => (l.verdict = "loaded" <=> Loadable(l.file))

ParsedSoFar == \A t \in Threads : Sound(loader[t])

IInv == TypeOK /\ Exclusive /\ LimitKnown /\ LimitRestored /\ ParsedSoFar

----------------------------------------------------------------------------
(* A step of a thread that leaves the locals of the others alone keeps what *)
(* the invariant says of them, if it respects the lock and the limit.       *)
LEMMA ThreadStep ==
    ASSUME IInv, NEW t \in Threads, NEW l \in Locals,
           loader' = [loader EXCEPT ![t] = l],
           Sound(l), limit' \in Nat, lock' \in Threads \cup {Nobody},
           lock' = lock \/ (lock = Nobody /\ lock' = t) \/ (lock = t /\ lock' = Nobody),
           l.pc \in {"entered", "saved", "parsing", "parsed", "restored"} => lock' = t,
           limit' # limit => lock = t,
           l.pc \in {"saved", "parsing", "parsed"} => l.previous = InitialLimit,
           l.pc = "parsing" => limit' = MaxFileBytes,
           l.pc \notin {"parsing", "parsed"} /\ (lock = t \/ lock' = t) => limit' = InitialLimit
    PROVE  IInv'
<1> DEFINE Inside == {"entered", "saved", "parsing", "parsed", "restored"}
<1>1. /\ loader' \in [Threads -> Locals] /\ loader'[t] = l
      /\ \A u \in Threads \ {t} : loader'[u] = loader[u]
  BY DEF IInv, TypeOK
<1>2. TypeOK'
  BY <1>1 DEF TypeOK
<1>3. \A u \in Threads \ {t} : At(u, Inside) => lock = u /\ lock' = u
  BY NobodyIsNoThread DEF IInv, Exclusive, At
<1>4. Exclusive'
  BY <1>1, <1>3 DEF Exclusive, At
<1>5. LimitKnown'
  BY <1>1, <1>3 DEF IInv, LimitKnown, At
<1>6. LimitRestored'
  <2> SUFFICES ASSUME \A u \in Threads : ~ (loader'[u].pc \in {"parsing", "parsed"})
               PROVE  limit' = InitialLimit
    BY DEF LimitRestored, At
  <2>1. CASE lock = t \/ lock' = t
    BY <1>1, <2>1
  <2>2. CASE lock # t /\ lock' # t
    <3>1. ~ At(t, {"parsing", "parsed"})
      BY <2>2 DEF IInv, Exclusive, At
    <3>2. \A u \in Threads : ~ At(u, {"parsing", "parsed"})
      BY <1>1, <3>1 DEF At
    <3>3. QED
      BY <2>2, <3>2 DEF IInv, LimitRestored
  <2>3. QED
    BY <2>1, <2>2
<1>7. ParsedSoFar'
  BY <1>1 DEF IInv, ParsedSoFar
<1>8. QED
  BY <1>2, <1>4, <1>5, <1>6, <1>7 DEF IInv

----------------------------------------------------------------------------
LEMMA InitKept == Init => IInv
<1> SUFFICES ASSUME Init PROVE IInv
  OBVIOUS
<1>1. PICK f \in Files :
          loader = [t \in Threads |-> [pc |-> "idle", file |-> f, parsed |-> 0,
                                       previous |-> InitialLimit, verdict |-> "unknown"]]
  BY DEF Init
<1>2. TypeOK
  BY <1>1, CsvConstants DEF Init, TypeOK, Locals
<1>3. Exclusive /\ LimitKnown /\ LimitRestored
  BY <1>1 DEF Init, Exclusive, LimitKnown, LimitRestored, At
<1>4. ParsedSoFar
  BY <1>1 DEF ParsedSoFar, Sound
<1>5. QED
  BY <1>2, <1>3, <1>4 DEF IInv

LEMMA ParseKept ==
    ASSUME IInv, NEW t \in Threads, Parse(t)
    PROVE  IInv'
<1> DEFINE file == loader[t].file
           n == loader[t].parsed + 1
<1>1. /\ loader[t] \in Locals /\ Sound(loader[t]) /\ loader[t].pc = "parsing"
      /\ lock = t /\ limit = MaxFileBytes /\ loader[t].previous = InitialLimit
  BY DEF IInv, TypeOK, Exclusive, LimitKnown, ParsedSoFar, Parse, At
<1>2. /\ file.records \in Seq(Record) /\ Len(file.records) \in Nat
      /\ \A i \in 1..Len(file.records) : file.records[i] \in Record
      /\ loader[t].parsed \in Nat /\ MaxRecords \in Nat /\ MaxFileBytes \in Nat
      /\ file.readable
  BY <1>1, CsvConstants DEF Locals, File, Sound
<1>3. UNCHANGED <<limit, lock>> /\ limit \in Nat
  BY DEF Parse, IInv, TypeOK
<1>4. CASE n <= Len(file.records) /\ Accepts(t, file.records[n])
  <2> DEFINE l == [loader[t] EXCEPT !.parsed = n]
  <2>1. loader' = [loader EXCEPT ![t] = l]
    BY <1>4 DEF Parse
  <2>2. n \in 0..MaxRecords + 1 /\ file.records[n].fit
    BY <1>1, <1>2, <1>4 DEF Accepts
  <2>3. l \in Locals /\ l.pc = "parsing" /\ l.previous = InitialLimit
    BY <1>1, <2>2 DEF Locals
  <2>4. \A i \in 1..n : file.records[i].fit
    BY <1>1, <1>2, <2>2 DEF Sound
  <2>5. Sound(l)
    BY <1>1, <1>2, <1>4, <2>4 DEF Sound, Locals
  <2> HIDE DEF l
  <2>6. QED
    BY <1>1, <1>3, <2>1, <2>3, <2>5, ThreadStep
<1>5. ASSUME NEW v \in {"loaded", "rejected"}, Decide(t, "parsed", v),
             v = "loaded" <=> Loadable(file)
      PROVE  IInv'
  <2> DEFINE l == [loader[t] EXCEPT !.pc = "parsed", !.verdict = v]
  <2>1. loader' = [loader EXCEPT ![t] = l]
    BY <1>5 DEF Decide
  <2>2. l \in Locals /\ l.pc = "parsed" /\ l.previous = InitialLimit
    BY <1>1 DEF Locals
  <2>3. Sound(l)
    BY <1>1, <1>5 DEF Sound, Locals
  <2> HIDE DEF l
  <2>4. QED
    BY <1>1, <1>3, <2>1, <2>2, <2>3, ThreadStep
<1>6. CASE n <= Len(file.records) /\ ~ Accepts(t, file.records[n])
  <2>1. file.records[n] \in Record /\ file.records[n].longest <= limit
    <3>1. file.records[n] \in Record
      BY <1>2, <1>6
    <3>2. file.records[n].longest \in 0..MaxFileBytes
      BY <3>1, CsvConstants DEF Record
    <3>3. QED
      BY <1>1, <1>2, <3>1, <3>2
  <2>2. ~ Loadable(file)
    BY <1>2, <1>6, <2>1 DEF Accepts, Loadable
  <2>3. Decide(t, "parsed", "rejected")
    BY <1>6 DEF Parse
  <2>4. QED
    BY <1>5, <2>2, <2>3
<1>7. CASE ~ n <= Len(file.records)
  <2>1. Loadable(file) <=> n # 1
    BY <1>1, <1>2, <1>7 DEF Loadable, Sound, Locals
  <2>2. Decide(t, "parsed", IF n = 1 THEN "rejected" ELSE "loaded")
    BY <1>7 DEF Parse
  <2>3. QED
    BY <1>5, <2>1, <2>2
<1>8. QED
  BY <1>4, <1>6, <1>7

LEMMA StepKept ==
    ASSUME IInv, [Next]_vars
    PROVE  IInv'
<1>1. CASE UNCHANGED vars
  BY <1>1 DEF vars, IInv, TypeOK, Exclusive, LimitKnown, LimitRestored, ParsedSoFar, At
<1>2. ASSUME NEW t \in Threads,
             \/ Call(t) \/ Read(t) \/ Enter(t) \/ Save(t) \/ Raise(t)
             \/ Parse(t) \/ Restore(t) \/ Leave(t)
      PROVE  IInv'
  <2>1. /\ loader \in [Threads -> Locals] /\ loader[t] \in Locals /\ Sound(loader[t])
        /\ limit \in Nat /\ lock \in Threads \cup {Nobody} /\ InitialLimit \in Nat
        /\ MaxFileBytes \in Nat /\ MaxRecords \in Nat
    BY CsvConstants DEF IInv, TypeOK, ParsedSoFar
  <2>2. ASSUME At(t, {"idle", "read", "waiting"}), lock = t PROVE limit = InitialLimit
    BY <2>2, NobodyIsNoThread DEF IInv, Exclusive, LimitRestored, At
  <2>3. CASE Call(t)
    <3>1. PICK f \in Files :
              loader' = [loader EXCEPT ![t] = [pc |-> "read", file |-> f, parsed |-> 0,
                                               previous |-> @.previous, verdict |-> "unknown"]]
      BY <2>3 DEF Call
    <3> DEFINE l == [pc |-> "read", file |-> f, parsed |-> 0, previous |-> loader[t].previous,
                     verdict |-> "unknown"]
    <3>2. l \in Locals /\ l.pc = "read" /\ Sound(l)
      <4>1. 0 \in 0..MaxRecords + 1 /\ loader[t].previous \in Nat
        BY <2>1 DEF Locals
      <4>2. QED
        BY <4>1 DEF Locals, Sound
    <3>3. loader' = [loader EXCEPT ![t] = l]
      BY <3>1
    <3> HIDE DEF l
    <3>4. QED
      BY <2>1, <2>2, <2>3, <3>2, <3>3, ThreadStep DEF Call, At
  <2>4. CASE Read(t)
    <3> DEFINE l == IF loader[t].file.readable THEN [loader[t] EXCEPT !.pc = "waiting"]
                    ELSE [loader[t] EXCEPT !.pc = "idle", !.verdict = "rejected"]
    <3>1. l \in Locals /\ l.pc \in {"waiting", "idle"} /\ Sound(l)
      BY <2>1, <2>4 DEF Locals, Sound, Loadable, Read, At
    <3>2. loader' = [loader EXCEPT ![t] = l]
      BY <2>4 DEF Read, Goto, Decide
    <3> HIDE DEF l
    <3>3. QED
      BY <2>1, <2>2, <2>4, <3>1, <3>2, ThreadStep DEF Read, At
  <2>5. CASE Enter(t)
    <3> DEFINE l == [loader[t] EXCEPT !.pc = "entered"]
    <3>1. l \in Locals /\ l.pc = "entered" /\ Sound(l)
      BY <2>1, <2>5 DEF Locals, Sound, Enter, At
    <3>2. loader' = [loader EXCEPT ![t] = l]
      BY <2>5 DEF Enter, Goto
    <3>3. limit = InitialLimit
      BY <2>5, NobodyIsNoThread DEF Enter, IInv, Exclusive, LimitRestored, At
    <3> HIDE DEF l
    <3>4. QED
      BY <2>1, <2>5, <3>1, <3>2, <3>3, ThreadStep DEF Enter
  <2>6. ASSUME At(t, {"entered", "saved", "restored"})
        PROVE  lock = t /\ (At(t, {"entered", "restored"}) => limit = InitialLimit)
    BY <2>6, NobodyIsNoThread DEF IInv, Exclusive, LimitRestored, At
  <2>7. CASE Save(t)
    <3> DEFINE l == [loader[t] EXCEPT !.pc = "saved", !.previous = limit]
    <3>1. l \in Locals /\ l.pc = "saved" /\ l.previous = limit /\ Sound(l)
      BY <2>1, <2>7 DEF Locals, Sound, Save, At
    <3>2. loader' = [loader EXCEPT ![t] = l]
      BY <2>7 DEF Save
    <3>3. lock = t /\ limit = InitialLimit
      BY <2>6, <2>7 DEF Save, At
    <3> HIDE DEF l
    <3>4. QED
      BY <2>1, <2>7, <3>1, <3>2, <3>3, ThreadStep DEF Save
  <2>8. CASE Raise(t)
    <3> DEFINE l == [loader[t] EXCEPT !.pc = "parsing"]
    <3>1. l \in Locals /\ l.pc = "parsing" /\ Sound(l) /\ l.previous = InitialLimit
      <4>1. loader[t].pc = "saved" /\ loader[t].previous = InitialLimit
        BY <2>8 DEF Raise, At, IInv, LimitKnown
      <4>2. /\ l \in Locals /\ l.pc = "parsing" /\ l.previous = InitialLimit
            /\ l.file = loader[t].file /\ l.parsed = 0 /\ l.verdict = "unknown"
            /\ l.file.readable /\ l.file \in File
        BY <2>1, <4>1, CsvConstants DEF Locals, Sound
      <4>3. Len(l.file.records) \in Nat
        BY <4>2 DEF File
      <4>4. QED
        BY <4>2, <4>3 DEF Sound
    <3>2. loader' = [loader EXCEPT ![t] = l]
      BY <2>8 DEF Raise, Goto
    <3>3. lock = t
      BY <2>6, <2>8 DEF Raise, At
    <3> HIDE DEF l
    <3>4. QED
      BY <2>1, <2>8, <3>1, <3>2, <3>3, ThreadStep DEF Raise
  <2>9. CASE Restore(t)
    <3> DEFINE l == [loader[t] EXCEPT !.pc = "restored"]
    <3>1. l \in Locals /\ l.pc = "restored" /\ Sound(l)
      BY <2>1, <2>9 DEF Locals, Sound, Restore, At
    <3>2. loader' = [loader EXCEPT ![t] = l]
      BY <2>9 DEF Restore, Goto
    <3>3. lock = t /\ limit' = InitialLimit
      BY <2>9 DEF Restore, At, IInv, Exclusive, LimitKnown
    <3> HIDE DEF l
    <3>4. QED
      BY <2>1, <2>9, <3>1, <3>2, <3>3, ThreadStep DEF Restore
  <2>10. CASE Leave(t)
    <3> DEFINE l == [loader[t] EXCEPT !.pc = "idle"]
    <3>1. l \in Locals /\ l.pc = "idle" /\ Sound(l)
      BY <2>1, <2>10 DEF Locals, Sound, Leave, At
    <3>2. loader' = [loader EXCEPT ![t] = l]
      BY <2>10 DEF Leave, Goto
    <3>3. lock = t /\ limit = InitialLimit
      BY <2>6, <2>10 DEF Leave, At
    <3> HIDE DEF l
    <3>4. QED
      BY <2>1, <2>10, <3>1, <3>2, <3>3, ThreadStep DEF Leave
  <2>11. QED
    BY <1>2, <2>3, <2>4, <2>5, <2>7, <2>8, <2>9, <2>10, ParseKept
<1>3. QED
  BY <1>1, <1>2 DEF Next

----------------------------------------------------------------------------
(* The strengthened invariant, for any threads and files.                   *)
THEOREM LoadingInvariance == Spec => []IInv
<1>1. IInv /\ [Next]_vars => IInv'
  BY StepKept
<1>2. QED
  BY InitKept, <1>1, PTL DEF Spec

(* Whether a file is loaded depends on its content only, however many       *)
(* threads load files at the same time.                                     *)
THEOREM VerdictsExact == Spec => []VerdictExact
<1>1. IInv => VerdictExact
  BY DEF IInv, ParsedSoFar, Sound, VerdictExact
<1>2. QED
  BY <1>1, LoadingInvariance, PTL

(* The library's limit is put back, whatever has been rejected.             *)
THEOREM LimitsRestored == Spec => []LimitRestored
<1>1. IInv => LimitRestored
  BY DEF IInv
<1>2. QED
  BY <1>1, LoadingInvariance, PTL

(* Sharing the library's limit changes neither a verdict nor the limit.     *)
THEOREM LoadingAlwaysExact == Spec => []LoadingExact
<1>1. VerdictExact /\ LimitRestored => LoadingExact
  BY DEF LoadingExact
<1>2. QED
  BY <1>1, VerdictsExact, LimitsRestored, PTL

----------------------------------------------------------------------------
(* Validation: the order of the places of a batch *)

(* A function on 1..n is a sequence of n elements.                          *)
LEMMA FunctionSeq ==
    ASSUME NEW n \in Nat, NEW T, NEW f \in [1..n -> T]
    PROVE  f \in Seq(T) /\ Len(f) = n
<1>1. f \in Seq(T)
  BY SeqDef
<1>2. DOMAIN f = 1..Len(f) /\ Len(f) \in Nat
  BY <1>1, LenProperties
<1>3. 1..n = 1..Len(f)
  BY <1>2
<1>4. Len(f) = n
  BY <1>2, <1>3
<1>5. QED
  BY <1>1, <1>4

Below(S, n) == {m \in S : m < n}

(* The number of smaller members tells the members of a finite set of       *)
(* numbers apart, and takes every value below the size of the set.          *)
LEMMA Ranks ==
    ASSUME NEW S \in SUBSET Nat, IsFiniteSet(S)
    PROVE  /\ Cardinality(S) \in Nat
           /\ \A n \in S : Cardinality(Below(S, n)) \in 0..Cardinality(S) - 1
           /\ \A m, n \in S : Cardinality(Below(S, m)) = Cardinality(Below(S, n)) => m = n
           /\ \A k \in 0..Cardinality(S) - 1 : \E n \in S : Cardinality(Below(S, n)) = k
<1> DEFINE size == Cardinality(S)
           ranks == 0..size - 1
           rank == [n \in S |-> Cardinality(Below(S, n))]
<1>1. size \in Nat
  BY FS_CardinalityType
<1>2. ASSUME NEW n \in S
      PROVE  /\ IsFiniteSet(Below(S, n)) /\ Cardinality(Below(S, n)) \in Nat
             /\ Cardinality(Below(S, n)) < size
  <2>1. Below(S, n) \subseteq S /\ n \notin Below(S, n)
    BY DEF Below
  <2>2. IsFiniteSet(Below(S, n)) /\ Cardinality(Below(S, n)) <= size
        /\ (size = Cardinality(Below(S, n)) => S = Below(S, n))
    BY <2>1, FS_Subset
  <2>3. Cardinality(Below(S, n)) \in Nat
    BY <2>2, FS_CardinalityType
  <2>4. QED
    BY <1>1, <2>1, <2>2, <2>3
<1>3. ASSUME NEW m \in S, NEW n \in S, m < n
      PROVE  Cardinality(Below(S, m)) < Cardinality(Below(S, n))
  <2>1. m \in Below(S, n) /\ m \notin Below(S, m) /\ Below(S, m) \subseteq Below(S, n)
    <3>1. m \in Nat /\ n \in Nat /\ \A x \in S : x \in Nat
      OBVIOUS
    <3>2. \A x \in S : x < m => x < n
      BY <1>3, <3>1
    <3>3. ~ (m < m)
      BY <3>1
    <3>4. QED
      BY <1>3, <3>2, <3>3 DEF Below
  <2>2. Cardinality(Below(S, m)) <= Cardinality(Below(S, n))
        /\ (Cardinality(Below(S, n)) = Cardinality(Below(S, m)) => Below(S, n) = Below(S, m))
    BY <1>2, <2>1, FS_Subset
  <2>3. QED
    BY <1>2, <2>1, <2>2
<1>4. ASSUME NEW m \in S, NEW n \in S, Cardinality(Below(S, m)) = Cardinality(Below(S, n))
      PROVE  m = n
  <2>1. m \in Nat /\ n \in Nat /\ Cardinality(Below(S, m)) \in Nat
    BY <1>2
  <2>2. ~ (m < n) /\ ~ (n < m)
    BY <1>3, <1>4, <2>1
  <2>3. QED
    BY <2>1, <2>2
<1>5. rank \in Injection(S, ranks)
  BY <1>1, <1>2, <1>4 DEF Injection, IsInjective
<1>6. IsFiniteSet(ranks) /\ Cardinality(ranks) = size
  <2>1. 0 \in Int /\ size - 1 \in Int /\ (IF 0 > size - 1 THEN 0 ELSE (size - 1) - 0 + 1) = size
    BY <1>1
  <2>2. QED
    BY <2>1, FS_Interval
<1>7. rank \in Surjection(S, ranks)
  BY <1>5, <1>6, FS_Injection
<1>8. \A k \in ranks : \E n \in S : rank[n] = k
  BY <1>7 DEF Surjection
<1>9. QED
  BY <1>1, <1>2, <1>4, <1>8

(* InOrder lists every member of a finite set of numbers once, each in the  *)
(* place its rank gives it.                                                 *)
LEMMA InOrderRanks ==
    ASSUME NEW S \in SUBSET Nat, IsFiniteSet(S)
    PROVE  /\ Cardinality(S) \in Nat /\ Len(InOrder(S)) = Cardinality(S)
           /\ \A k \in 1..Cardinality(S) :
                 InOrder(S)[k] \in S /\ Cardinality(Below(S, InOrder(S)[k])) = k - 1
           /\ \A n \in S : \E k \in 1..Cardinality(S) : InOrder(S)[k] = n
<1> DEFINE size == Cardinality(S)
<1>1. size \in Nat
  BY Ranks
<1>2. \A k \in 1..size : InOrder(S)[k] = CHOOSE n \in S : Cardinality(Below(S, n)) = k - 1
  BY DEF InOrder, Below
<1>3. InOrder(S) \in [1..size -> S] /\ Len(InOrder(S)) = size
      /\ \A k \in 1..size : InOrder(S)[k] \in S /\ Cardinality(Below(S, InOrder(S)[k])) = k - 1
  <2>1. ASSUME NEW k \in 1..size
        PROVE  InOrder(S)[k] \in S /\ Cardinality(Below(S, InOrder(S)[k])) = k - 1
    <3>1. k - 1 \in 0..size - 1
      BY <1>1
    <3>2. \E n \in S : Cardinality(Below(S, n)) = k - 1
      BY <3>1, Ranks
    <3>3. QED
      BY <1>2, <3>2
  <2>2. InOrder(S) = [k \in 1..size |-> CHOOSE n \in S : Cardinality(Below(S, n)) = k - 1]
    BY DEF InOrder, Below
  <2>3. InOrder(S) \in [1..size -> S]
    BY <1>2, <2>1, <2>2
  <2>4. Len(InOrder(S)) = size
    BY <1>1, <2>3, FunctionSeq
  <2>5. QED
    BY <2>1, <2>3, <2>4
<1>4. ASSUME NEW n \in S
      PROVE  \E k \in 1..size : InOrder(S)[k] = n
  <2>1. Cardinality(Below(S, n)) \in 0..size - 1
    BY Ranks
  <2>2. Cardinality(Below(S, n)) + 1 \in 1..size
    BY <1>1, <2>1
  <2>3. PICK k \in 1..size : k = Cardinality(Below(S, n)) + 1
    BY <2>2
  <2>4. Cardinality(Below(S, InOrder(S)[k])) = Cardinality(Below(S, n)) /\ InOrder(S)[k] \in S
    BY <1>3, <2>1, <2>3
  <2>5. \A m \in S : Cardinality(Below(S, m)) = Cardinality(Below(S, n)) => m = n
    BY Ranks
  <2>6. QED
    BY <2>4, <2>5
<1>5. QED
  BY <1>1, <1>3, <1>4

----------------------------------------------------------------------------
(* Validation: what is counted and kept of a set of violations *)

Issue == [row : Nat, column : Columns, code : Range(Codes) \cup {"missing_column"}, first : Nat]

(* the finding f is about the violation v                                   *)
Tells(rs, f, v) ==
    /\ f.row = v[1]
    /\ f.column = rs[v[2]].column
    /\ f.code = IF v[1] = 0 THEN "missing_column" ELSE Codes[v[3]]

Preceding(W, v) == {w \in W : Before(w, v)}

(* n issues in the rows aff amount to the violations P, and fs keeps the    *)
(* first of them in their order in W                                        *)
Tally(W, rs, P, n, aff, fs) ==
    /\ IsFiniteSet(P) /\ n = Cardinality(P)
    /\ aff = {v[1] : v \in P} \ {0}
    /\ fs \in Seq(Issue)
    /\ Len(fs) = IF n < MaxFindings THEN n ELSE MaxFindings
    /\ \A i \in 1..Len(fs) :
          \E v \in P : Cardinality(Preceding(W, v)) = i - 1 /\ Tells(rs, fs[i], v)

Image(g, S) == {g[m] : m \in S}

(* one violation g[m] for each m of S, in the order of the numbers, right   *)
(* after the violations P                                                   *)
NextBatch(W, P, S, g) ==
    /\ S \subseteq Nat /\ IsFiniteSet(S) /\ DOMAIN g = S
    /\ \A m \in S : g[m] \notin P
    /\ \A m, n \in S : g[m] = g[n] => m = n
    /\ \A m \in S : Preceding(W, g[m]) = P \cup Image(g, Below(S, m))

(* A batch has as many members as it has numbers.                           *)
LEMMA ImageSize ==
    ASSUME NEW W, NEW P, NEW S, NEW g, NextBatch(W, P, S, g), NEW T \in SUBSET S
    PROVE  Cardinality(Image(g, T)) = Cardinality(T)
<1> DEFINE image == Image(g, T)
           h == [m \in T |-> g[m]]
<1>1. IsFiniteSet(T) /\ Cardinality(T) \in Nat
  BY FS_Subset, FS_CardinalityType DEF NextBatch
<1>2. \A m, n \in T : h[m] = h[n] => m = n
  BY DEF NextBatch
<1>3. h \in Bijection(T, image)
  <2>1. h \in [T -> image] /\ \A v \in image : \E m \in T : h[m] = v
    BY DEF Image
  <2>2. h \in Injection(T, image)
    BY <1>2, <2>1 DEF Injection, IsInjective
  <2>3. h \in Surjection(T, image)
    BY <2>1 DEF Surjection
  <2>4. QED
    BY <2>2, <2>3 DEF Bijection
<1>4. QED
  BY <1>1, <1>3, FS_Bijection DEF ExistsBijection

LEMMA BatchFinite ==
    ASSUME NEW W, NEW P, IsFiniteSet(P), NEW S, NEW g, NextBatch(W, P, S, g), NEW T \in SUBSET S
    PROVE  /\ Cardinality(P) \in Nat /\ Cardinality(T) \in Nat
           /\ IsFiniteSet(Image(g, T)) /\ IsFiniteSet(P \cup Image(g, T))
<1> DEFINE h == [m \in T |-> g[m]]
<1>1. IsFiniteSet(T) /\ Cardinality(T) \in Nat
  BY FS_Subset, FS_CardinalityType DEF NextBatch
<1>2. h \in Surjection(T, Image(g, T))
  BY DEF Surjection, Image
<1>3. IsFiniteSet(Image(g, T))
  BY <1>1, <1>2, FS_Surjection
<1>4. QED
  BY <1>1, <1>3, FS_CardinalityType, FS_Union

(* Each m of a batch adds one violation.                                    *)
LEMMA BatchSize ==
    ASSUME NEW W, NEW P, IsFiniteSet(P), NEW S, NEW g, NextBatch(W, P, S, g), NEW T \in SUBSET S
    PROVE  Cardinality(P \cup Image(g, T)) = Cardinality(P) + Cardinality(T)
<1> DEFINE image == Image(g, T)
<1>1. /\ Cardinality(P) \in Nat /\ Cardinality(T) \in Nat
      /\ IsFiniteSet(image)
  BY BatchFinite
<1>2. P \cap image = {}
  <2>1. \A m \in S : g[m] \notin P
    BY DEF NextBatch
  <2>2. QED
    BY <2>1 DEF Image
<1>3. Cardinality(P \cap image) = 0
  BY <1>2, FS_EmptySet
<1>4. Cardinality(P \cup image) = Cardinality(P) + Cardinality(image) - Cardinality(P \cap image)
  BY <1>1, FS_Union
<1>5. Cardinality(image) = Cardinality(T)
  BY ImageSize
<1>6. QED
  BY <1>1, <1>3, <1>4, <1>5

(* The members of a batch have the ranks that follow.                       *)
LEMMA BatchRanks ==
    ASSUME NEW W, NEW P, IsFiniteSet(P), NEW S, NEW g, NextBatch(W, P, S, g), NEW m \in S
    PROVE  Cardinality(Preceding(W, g[m])) = Cardinality(P) + Cardinality(Below(S, m))
<1>1. Below(S, m) \in SUBSET S
  BY DEF Below
<1>2. Preceding(W, g[m]) = P \cup Image(g, Below(S, m))
  BY DEF NextBatch
<1>3. QED
  BY <1>1, <1>2, BatchSize

LEMMA BatchTotal ==
    ASSUME NEW W, NEW P, IsFiniteSet(P), NEW S, NEW g, NextBatch(W, P, S, g),
           NEW all, all = P \cup Image(g, S)
    PROVE  Cardinality(all) = Cardinality(P) + Cardinality(S)
<1>1. S \in SUBSET S
  OBVIOUS
<1>2. Cardinality(P \cup Image(g, S)) = Cardinality(P) + Cardinality(S)
  BY <1>1, BatchSize
<1>3. QED
  BY <1>2

(* What is kept is appended.                                                *)
LEMMA KeptElements ==
    ASSUME NEW fs \in Seq(Issue), NEW found \in Seq(Issue), NEW kept \in 0..Len(found),
           NEW told, told = fs \o SubSeq(found, 1, kept)
    PROVE  /\ told \in Seq(Issue) /\ Len(told) = Len(fs) + kept
           /\ \A i \in 1..Len(fs) : told[i] = fs[i]
           /\ \A i \in Len(fs) + 1..Len(fs) + kept : told[i] = found[i - Len(fs)]
<1> DEFINE more == SubSeq(found, 1, kept)
<1>1. Len(fs) \in Nat /\ Len(found) \in Nat /\ kept \in Nat
  BY LenProperties
<1>2. more \in Seq(Issue) /\ Len(more) = kept /\ \A i \in 1..kept : more[i] = found[i]
  BY <1>1
<1>3. told = fs \o more
  OBVIOUS
<1> HIDE DEF more
<1>4. /\ fs \o more \in Seq(Issue) /\ Len(fs \o more) = Len(fs) + Len(more)
      /\ \A i \in 1..Len(fs) + Len(more) :
            (fs \o more)[i] = IF i <= Len(fs) THEN fs[i] ELSE more[i - Len(fs)]
  BY <1>2, ConcatProperties
<1>5. \A i \in Len(fs) + 1..Len(fs) + kept :
         i \in 1..Len(fs) + kept /\ ~ (i <= Len(fs)) /\ i - Len(fs) \in 1..kept
  BY <1>1
<1>6. \A i \in 1..Len(fs) : i \in 1..Len(fs) + kept /\ i <= Len(fs)
  BY <1>1
<1>7. QED
  BY <1>2, <1>3, <1>4, <1>5, <1>6

(* add counts a batch and keeps what there is room for.                     *)
LEMMA BatchAdded ==
    ASSUME NEW W, NEW rs, NEW P, NEW n, NEW aff, NEW fs, Tally(W, rs, P, n, aff, fs),
           NEW S, NEW g, NextBatch(W, P, S, g),
           NEW found \in Seq(Issue), Len(found) = Cardinality(S),
           \A k \in 1..Len(found) : Tells(rs, found[k], g[InOrder(S)[k]]),
           NEW room, room = MaxFindings - Len(fs),
           NEW all, all = P \cup Image(g, S),
           NEW rows, rows = aff \cup ({f.row : f \in Range(found)} \ {0}),
           NEW kept, kept = IF Len(found) < room THEN Len(found) ELSE room,
           NEW told, told = fs \o SubSeq(found, 1, kept),
           NEW total, total = n + Len(found)
    PROVE  Tally(W, rs, all, total, rows, told)
<1>1. /\ Cardinality(P) \in Nat /\ Cardinality(S) \in Nat /\ IsFiniteSet(all)
      /\ Cardinality(all) = Cardinality(P) + Cardinality(S) /\ n = Cardinality(P)
      /\ \A m \in S : Cardinality(Preceding(W, g[m])) = Cardinality(P) + Cardinality(Below(S, m))
  <2>1. IsFiniteSet(P) /\ n = Cardinality(P)
    BY DEF Tally
  <2>2. S \in SUBSET S /\ NextBatch(W, P, S, g)
    OBVIOUS
  <2>3. Cardinality(P) \in Nat /\ Cardinality(S) \in Nat /\ IsFiniteSet(P \cup Image(g, S))
    BY <2>1, <2>2, BatchFinite
  <2>4. Cardinality(all) = Cardinality(P) + Cardinality(S)
    BY <2>1, BatchTotal
  <2>5. ASSUME NEW m \in S
        PROVE  Cardinality(Preceding(W, g[m])) = Cardinality(P) + Cardinality(Below(S, m))
    BY <2>1, BatchRanks
  <2>6. QED
    BY <2>1, <2>3, <2>4, <2>5
<1>2. MaxFindings \in Nat /\ fs \in Seq(Issue) /\ Len(fs) \in Nat /\ Len(found) \in Nat
      /\ Len(fs) = IF n < MaxFindings THEN n ELSE MaxFindings
  BY SnapshotConstants, LenProperties DEF Tally
<1>3. room \in Nat /\ kept \in 0..Len(found) /\ kept <= room
  BY <1>1, <1>2
<1>4. /\ told \in Seq(Issue) /\ Len(told) = Len(fs) + kept
      /\ \A i \in 1..Len(fs) : told[i] = fs[i]
      /\ \A i \in Len(fs) + 1..Len(fs) + kept : told[i] = found[i - Len(fs)]
  <2>1. fs \in Seq(Issue) /\ kept \in 0..Len(found) /\ told = fs \o SubSeq(found, 1, kept)
    BY <1>2, <1>3
  <2>2. told \in Seq(Issue) /\ Len(told) = Len(fs) + kept
    BY <2>1, KeptElements
  <2>3. \A i \in 1..Len(fs) : told[i] = fs[i]
    BY <2>1, KeptElements
  <2>4. \A i \in Len(fs) + 1..Len(fs) + kept : told[i] = found[i - Len(fs)]
    BY <2>1, KeptElements
  <2>5. QED
    BY <2>2, <2>3, <2>4
<1>5. /\ \A k \in 1..Len(found) :
            InOrder(S)[k] \in S /\ Cardinality(Below(S, InOrder(S)[k])) = k - 1
      /\ \A m \in S : \E k \in 1..Len(found) : InOrder(S)[k] = m
  <2>1. S \in SUBSET Nat /\ IsFiniteSet(S)
    BY DEF NextBatch
  <2>2. QED
    BY <2>1, InOrderRanks
<1>6. Len(told) = IF total < MaxFindings THEN total ELSE MaxFindings
  BY <1>1, <1>2, <1>3, <1>4
<1>7. ASSUME NEW i \in 1..Len(told)
      PROVE  \E v \in all :
                Cardinality(Preceding(W, v)) = i - 1 /\ Tells(rs, told[i], v)
  <2>1. CASE i \in 1..Len(fs)
    BY <1>4, <2>1 DEF Tally
  <2>2. CASE i \notin 1..Len(fs)
    <3> DEFINE k == i - Len(fs)
               m == InOrder(S)[k]
    <3>1. k \in 1..kept /\ i \in Len(fs) + 1..Len(fs) + kept
      <4>1. /\ i \in Int /\ 1 <= i /\ i <= Len(fs) + kept /\ ~ (i <= Len(fs))
            /\ Len(fs) \in Nat /\ kept \in Nat
        BY <1>2, <1>3, <1>4, <2>2
      <4>2. QED
        BY <4>1
    <3>2. k \in 1..Len(found) /\ Len(fs) = n
      <4>1. k \in Int /\ 1 <= k /\ k <= kept /\ kept <= Len(found) /\ kept \in Nat
        BY <1>2, <1>3, <3>1
      <4>2. k \in 1..Len(found)
        BY <1>2, <4>1
      <4>3. Len(fs) < MaxFindings
        BY <1>2, <1>3, <4>1
      <4>4. QED
        BY <1>1, <1>2, <4>2, <4>3
    <3>3. m \in S /\ g[m] \in all /\ Tells(rs, told[i], g[m])
      BY <1>4, <1>5, <3>1, <3>2 DEF Image
    <3>4. Cardinality(Preceding(W, g[m])) = i - 1
      <4>1. Cardinality(Below(S, m)) = k - 1
        BY <1>5, <3>2
      <4>2. Cardinality(Preceding(W, g[m])) = n + Cardinality(Below(S, m))
        BY <1>1, <3>3
      <4>3. k = i - n /\ i \in Int /\ n \in Nat
        BY <1>1, <1>2, <1>4, <3>1, <3>2
      <4> HIDE DEF k, m
      <4>4. QED
        BY <4>1, <4>2, <4>3
    <3>5. QED
      BY <3>3, <3>4
  <2>3. QED
    BY <2>1, <2>2
<1>8. rows = {v[1] : v \in all} \ {0}
  <2>1. DOMAIN found = 1..Len(found)
    BY LenProperties
  <2>2. \A k \in 1..Len(found) : found[k].row = g[InOrder(S)[k]][1]
    BY DEF Tells
  <2>3. {f.row : f \in Range(found)} = {g[m][1] : m \in S}
    <3>1. {f.row : f \in Range(found)} = {found[k].row : k \in 1..Len(found)}
      BY <2>1 DEF Range
    <3>2. {found[k].row : k \in 1..Len(found)} = {g[InOrder(S)[k]][1] : k \in 1..Len(found)}
      BY <2>2
    <3>3. {g[InOrder(S)[k]][1] : k \in 1..Len(found)} = {g[m][1] : m \in S}
      BY <1>5
    <3>4. QED
      BY <3>1, <3>2, <3>3
  <2>4. aff = {v[1] : v \in P} \ {0}
    BY DEF Tally
  <2>5. QED
    BY <2>3, <2>4 DEF Image
<1>9. QED
  BY <1>1, <1>4, <1>6, <1>7, <1>8 DEF Tally

----------------------------------------------------------------------------
(* Validation: the invariant *)

(* the violations of what has been checked                                  *)
Passed ==
    IF validating \in {"rows", "done"}
    THEN {v \in Violations : v[1] < row \/ (v[1] = row /\ v[2] < col)}
    ELSE {}

(* s has the first row that has each text in the column c, up to row n      *)
FirstRows(ds, c, s, n) ==
    \A t \in Texts \ {Blank} :
        /\ t \in DOMAIN s <=> \E j \in 1..n : ds.rows[j][c].text = t
        /\ t \in DOMAIN s =>
              /\ s[t] \in 1..n /\ ds.rows[s[t]][c].text = t
              /\ \A j \in 1..s[t] - 1 : ds.rows[j][c].text # t

(* Unique columns are remembered up to the row before, or this one if the   *)
(* column has had its turn.                                                 *)
Remembered ==
    \A p \in 1..Len(rules) :
        (rules[p].column \in dataset.headers /\ Flag(rules[p].rule, "unique"))
            => FirstRows(dataset, rules[p].column, seen[rules[p].column],
                         IF p < col THEN row ELSE row - 1)

(* Where the loops are.                                                     *)
Checked ==
    /\ dataset \in Datasets /\ rules \in RuleFiles
    /\ validating \in {"rules", "missing", "rows", "done", "refused"}
    /\ row \in 1..Len(dataset.rows) + 1 /\ col \in 1..Len(rules) + 1
    /\ validating \in {"rules", "missing", "refused"} => row = 1 /\ col = 1
    /\ validating \in {"rules", "refused"} => DOMAIN seen = {}
    /\ validating \in {"missing", "rows", "done"} =>
          /\ \A p \in 1..Len(rules) : Consistent(rules[p].rule)
          /\ DOMAIN seen = {rules[p].column : p \in 1..Len(rules)}
    /\ validating \in {"missing", "rows"} => Remembered
    /\ validating = "done" => row = Len(dataset.rows) + 1

VInv ==
    /\ Checked
    /\ Tally(Violations, rules, Passed, issues, affected, findings)
    /\ FirstRowNamed

(* What load_csv and the rules file return.                                 *)
LEMMA InputTypes ==
    ASSUME dataset \in Datasets, rules \in RuleFiles
    PROVE  /\ Len(dataset.rows) \in Nat /\ Len(rules) \in Nat
           /\ \A i \in 1..Len(dataset.rows) : \A c \in dataset.headers : Text(i, c) \in Texts
           /\ \A p \in 1..Len(rules) : rules[p].column \in Columns /\ rules[p].rule \in Rules
           /\ \A p, q \in 1..Len(rules) : rules[p].column = rules[q].column => p = q
<1>1. dataset.rows \in Seq([dataset.headers -> Cell])
      /\ rules \in Seq([column : Columns, rule : Rules])
  BY ValidationConstants DEF Dataset
<1>2. Len(dataset.rows) \in Nat /\ Len(rules) \in Nat
  BY <1>1
<1>3. ASSUME NEW i \in 1..Len(dataset.rows), NEW c \in dataset.headers
      PROVE  Text(i, c) \in Texts
  <2>1. dataset.rows[i] \in [dataset.headers -> Cell]
    BY <1>1, ElementOfSeq
  <2>2. QED
    BY <2>1 DEF Text, Cell
<1>4. ASSUME NEW p \in 1..Len(rules)
      PROVE  rules[p].column \in Columns /\ rules[p].rule \in Rules
  <2>1. rules[p] \in [column : Columns, rule : Rules]
    BY <1>1, ElementOfSeq
  <2>2. QED
    BY <2>1
<1>5. \A p, q \in 1..Len(rules) : rules[p].column = rules[q].column => p = q
  BY ValidationConstants
<1>6. QED
  BY <1>2, <1>3, <1>4, <1>5

(* What is in Violations, taken apart.                                      *)
LEMMA ViolationParts ==
    ASSUME dataset \in Datasets, rules \in RuleFiles, NEW v \in Violations
    PROVE  /\ v = <<v[1], v[2], v[3]>> /\ v[1] \in Nat /\ v[2] \in 1..Len(rules) /\ v[3] \in Nat
           /\ \/ v[1] = 0 /\ v[3] = 0 /\ v[2] \in Absent
              \/ /\ v[1] \in 1..Len(dataset.rows) /\ v[3] \in 1..6
                 /\ rules[v[2]].column \in dataset.headers
                 /\ Violates(rules[v[2]].rule, rules[v[2]].column, v[1], Codes[v[3]])
<1>1. Len(dataset.rows) \in Nat /\ Len(rules) \in Nat /\ Len(Codes) = 6
  BY InputTypes DEF Codes
<1>2. CASE v \in {<<0, p, 0>> : p \in Absent}
  BY <1>1, <1>2 DEF Absent
<1>3. CASE v \notin {<<0, p, 0>> : p \in Absent}
  <2>1. /\ v \in (1..Len(dataset.rows)) \X (1..Len(rules)) \X (1..6)
        /\ rules[v[2]].column \in dataset.headers
        /\ Violates(rules[v[2]].rule, rules[v[2]].column, v[1], Codes[v[3]])
    BY <1>1, <1>3 DEF Violations, Absent
  <2>2. QED
    BY <1>1, <2>1
<1>4. QED
  BY <1>2, <1>3

(* Violations put together.                                                 *)
LEMMA MissingColumns ==
    ASSUME NEW p \in 1..Len(rules)
    PROVE  <<0, p, 0>> \in Violations <=> p \in Absent
  BY DEF Violations, Absent

LEMMA CellViolations ==
    ASSUME dataset \in Datasets, rules \in RuleFiles,
           NEW i \in 1..Len(dataset.rows), NEW p \in 1..Len(rules), NEW n \in 1..6
    PROVE  <<i, p, n>> \in Violations
              <=> /\ rules[p].column \in dataset.headers
                  /\ Violates(rules[p].rule, rules[p].column, i, Codes[n])
<1>1. Len(dataset.rows) \in Nat /\ Len(Codes) = 6
  BY InputTypes DEF Codes
<1>2. <<i, p, n>> \notin {<<0, q, 0>> : q \in {r \in 1..Len(rules) : rules[r].column \notin dataset.headers}}
  BY <1>1
<1>3. <<i, p, n>> \in (1..Len(dataset.rows)) \X (1..Len(rules)) \X (1..Len(Codes))
  BY <1>1
<1>4. QED
  BY <1>2, <1>3 DEF Violations

(* The inputs stay what they are.                                           *)
LEMMA SameViolations ==
    ASSUME UNCHANGED <<dataset, rules>>
    PROVE  Violations' = Violations
  BY DEF Violations, Violates, Text

LEMMA NamedAgain ==
    ASSUME UNCHANGED <<dataset, findings>>, FirstRowNamed
    PROVE  FirstRowNamed'
  BY DEF FirstRowNamed, Text

----------------------------------------------------------------------------
(* Validation: the steps *)

(* The violations of the cell at row and col come right after those passed. *)
BrokenHere == {n \in 1..Len(Codes) : <<row, col, n>> \in Violations}

LEMMA CellBatch ==
    ASSUME dataset \in Datasets, rules \in RuleFiles, validating = "rows",
           row \in 1..Len(dataset.rows), col \in 1..Len(rules),
           NEW g, g = [n \in BrokenHere |-> <<row, col, n>>]
    PROVE  /\ NextBatch(Violations, Passed, BrokenHere, g)
           /\ {v \in Violations : v[1] < row \/ (v[1] = row /\ v[2] < col + 1)}
                 = Passed \cup Image(g, BrokenHere)
<1>1. /\ Len(dataset.rows) \in Nat /\ Len(rules) \in Nat /\ Len(Codes) = 6
      /\ row \in Nat /\ row >= 1 /\ col \in Nat
  BY InputTypes DEF Codes
<1>2. BrokenHere \subseteq 1..6 /\ BrokenHere \subseteq Nat /\ IsFiniteSet(BrokenHere)
  <2>1. BrokenHere \subseteq 1..6
    BY <1>1 DEF BrokenHere
  <2>2. 1 \in Int /\ 6 \in Int
    OBVIOUS
  <2>3. IsFiniteSet(1..6)
    BY <2>2, FS_Interval
  <2>4. IsFiniteSet(BrokenHere)
    BY <2>1, <2>3, FS_Subset
  <2>5. QED
    BY <2>1, <2>4
<1>3. DOMAIN g = BrokenHere /\ \A n \in BrokenHere : g[n] = <<row, col, n>>
  OBVIOUS
<1>4. \A v \in Violations : v = <<v[1], v[2], v[3]>> /\ v[1] \in Nat /\ v[2] \in Nat /\ v[3] \in Nat
  BY <1>1, ViolationParts
<1>5. \A v \in Violations : (v[1] = row /\ v[2] = col) => v[3] \in BrokenHere /\ v = g[v[3]]
  <2> TAKE v \in Violations
  <2> HAVE v[1] = row /\ v[2] = col
  <2>1. v[3] \in 1..6 /\ v = <<row, col, v[3]>>
    BY <1>1, ViolationParts
  <2>2. v[3] \in BrokenHere
    BY <1>1, <2>1 DEF BrokenHere
  <2>3. QED
    BY <1>3, <2>1, <2>2
<1>6. \A n \in BrokenHere : g[n] \in Violations /\ g[n][1] = row /\ g[n][2] = col /\ g[n][3] = n
  BY <1>3 DEF BrokenHere
<1>7. Passed = {v \in Violations : v[1] < row \/ (v[1] = row /\ v[2] < col)}
  BY DEF Passed
<1>8. \A n \in BrokenHere : g[n] \notin Passed
  BY <1>1, <1>6, <1>7
<1>9. \A m, n \in BrokenHere : g[m] = g[n] => m = n
  BY <1>6
<1>10. ASSUME NEW n \in BrokenHere
       PROVE  Preceding(Violations, g[n]) = Passed \cup Image(g, Below(BrokenHere, n))
  <2>1. n \in Nat
    BY <1>2
  <2>2. ASSUME NEW v \in Violations
        PROVE  Before(v, g[n]) <=> v \in Passed \/ v \in Image(g, Below(BrokenHere, n))
    <3>1. Before(v, g[n]) <=> \/ v[1] < row \/ (v[1] = row /\ v[2] < col)
                              \/ (v[1] = row /\ v[2] = col /\ v[3] < n)
      BY <1>6 DEF Before
    <3>2. v \in Passed <=> v[1] < row \/ (v[1] = row /\ v[2] < col)
      BY <1>7
    <3>3. (v[1] = row /\ v[2] = col /\ v[3] < n) <=> v \in Image(g, Below(BrokenHere, n))
      <4>1. ASSUME v[1] = row, v[2] = col, v[3] < n
            PROVE  v \in Image(g, Below(BrokenHere, n))
        BY <1>5, <4>1 DEF Image, Below
      <4>2. ASSUME v \in Image(g, Below(BrokenHere, n))
            PROVE  v[1] = row /\ v[2] = col /\ v[3] < n
        BY <1>6, <4>2 DEF Image, Below
      <4>3. QED
        BY <4>1, <4>2
    <3>4. QED
      BY <3>1, <3>2, <3>3
  <2>3. Image(g, Below(BrokenHere, n)) \subseteq Violations /\ Passed \subseteq Violations
    BY <1>6, <1>7 DEF Image, Below
  <2>4. QED
    BY <2>2, <2>3 DEF Preceding
<1>11. NextBatch(Violations, Passed, BrokenHere, g)
  BY <1>2, <1>3, <1>8, <1>9, <1>10 DEF NextBatch
<1>12. {v \in Violations : v[1] < row \/ (v[1] = row /\ v[2] < col + 1)}
          = Passed \cup Image(g, BrokenHere)
  <2>1. ASSUME NEW v \in Violations
        PROVE  (v[1] < row \/ (v[1] = row /\ v[2] < col + 1))
                  <=> v \in Passed \/ v \in Image(g, BrokenHere)
    <3>1. v[1] = row => (v[2] < col + 1 <=> v[2] < col \/ v[2] = col)
      BY <1>1, <1>4
    <3>2. (v[1] = row /\ v[2] = col) <=> v \in Image(g, BrokenHere)
      BY <1>5, <1>6 DEF Image
    <3>3. QED
      BY <1>7, <3>1, <3>2
  <2>2. Image(g, BrokenHere) \subseteq Violations /\ Passed \subseteq Violations
    BY <1>6, <1>7 DEF Image
  <2>3. QED
    BY <2>1, <2>2
<1>13. QED
  BY <1>11, <1>12

(* What a row adds to the first rows of a column.                           *)
LEMMA FirstRowsKnown ==
    ASSUME NEW ds, NEW c, NEW s, NEW n \in Nat, n >= 1, FirstRows(ds, c, s, n - 1),
           ds.rows[n][c].text = Blank \/ ds.rows[n][c].text \in DOMAIN s
    PROVE  FirstRows(ds, c, s, n)
<1>1. \A j \in 1..n : j \in 1..n - 1 \/ j = n
  OBVIOUS
<1>2. \A j \in 1..n - 1 : j \in 1..n
  OBVIOUS
<1>3. ASSUME NEW t \in Texts \ {Blank}
      PROVE  /\ t \in DOMAIN s <=> \E j \in 1..n : ds.rows[j][c].text = t
             /\ t \in DOMAIN s =>
                   /\ s[t] \in 1..n /\ ds.rows[s[t]][c].text = t
                   /\ \A j \in 1..s[t] - 1 : ds.rows[j][c].text # t
  BY <1>1, <1>2 DEF FirstRows
<1>4. QED
  BY <1>3 DEF FirstRows

LEMMA FirstRowsNew ==
    ASSUME NEW ds, NEW c, NEW s, NEW n \in Nat, n >= 1, FirstRows(ds, c, s, n - 1),
           NEW t0 \in Texts, t0 = ds.rows[n][c].text, t0 # Blank, t0 \notin DOMAIN s,
           NEW x, DOMAIN x = DOMAIN s \cup {t0}, x[t0] = n, \A t \in DOMAIN s : x[t] = s[t]
    PROVE  FirstRows(ds, c, x, n)
<1>1. \A j \in 1..n : j \in 1..n - 1 \/ j = n
  OBVIOUS
<1>2. /\ \A j \in 1..n - 1 : j \in 1..n
      /\ n \in 1..n
  OBVIOUS
<1>3. ASSUME NEW t \in Texts \ {Blank}
      PROVE  /\ t \in DOMAIN x <=> \E j \in 1..n : ds.rows[j][c].text = t
             /\ t \in DOMAIN x =>
                   /\ x[t] \in 1..n /\ ds.rows[x[t]][c].text = t
                   /\ \A j \in 1..x[t] - 1 : ds.rows[j][c].text # t
  <2>1. CASE t = t0
    BY <1>2, <2>1 DEF FirstRows
  <2>2. CASE t # t0
    BY <1>1, <1>2, <2>2 DEF FirstRows
  <2>3. QED
    BY <2>1, <2>2
<1>4. QED
  BY <1>3 DEF FirstRows

(* The codes found for a cell are those of the rules it violates.           *)
LEMMA BrokenViolates ==
    ASSUME Checked, validating = "rows", row \in 1..Len(dataset.rows), col \in 1..Len(rules),
           NEW c, c = rules[col].column, c \in dataset.headers,
           NEW rule, rule = rules[col].rule, NEW text, text = Text(row, c), NEW n \in 1..6
    PROVE  Codes[n] \in Broken(rule, text, FirstSeen(c, text)) <=> Violates(rule, c, row, Codes[n])
<1> DEFINE last == FirstSeen(c, text)
<1>1. /\ dataset \in Datasets /\ rules \in RuleFiles /\ Consistent(rule)
      /\ Remembered /\ row \in Nat /\ row >= 1 /\ col \in Nat
  BY InputTypes DEF Checked
<1>2. text \in Texts /\ rule \in Rules
  BY <1>1, InputTypes
<1>3. Conforms[TypeOf(rule)] \subseteq Texts \ {Blank}
  BY <1>2, ValidationConstants
<1>4. text # Blank /\ Flag(rule, "unique")
         => (last # 0 <=> \E j \in 1..row - 1 : Text(j, c) = text)
  <2> HAVE text # Blank /\ Flag(rule, "unique")
  <2>1. FirstRows(dataset, c, seen[c], row - 1)
    BY <1>1 DEF Remembered
  <2>2. text \in DOMAIN seen[c] <=> \E j \in 1..row - 1 : Text(j, c) = text
    BY <1>2, <2>1 DEF FirstRows, Text
  <2>3. text \in DOMAIN seen[c] => seen[c][text] \in 1..row - 1
    BY <1>2, <2>1 DEF FirstRows
  <2>4. last = IF text \in DOMAIN seen[c] THEN seen[c][text] ELSE 0
    BY DEF FirstSeen
  <2>5. QED
    BY <1>1, <2>2, <2>3, <2>4
<1>5. \A bound \in {"min", "max"} : bound \in DOMAIN rule => TypeOf(rule) \in Numeric
  BY <1>1 DEF Consistent
<1> HIDE DEF last
<1>6. "required" \in Broken(rule, text, last) <=> Violates(rule, c, row, "required")
  BY DEF Broken, Violates
<1>7. "type" \in Broken(rule, text, last) <=> Violates(rule, c, row, "type")
  BY DEF Broken, Violates
<1>8. "min" \in Broken(rule, text, last) <=> Violates(rule, c, row, "min")
  BY <1>3, <1>5 DEF Broken, Violates
<1>9. "max" \in Broken(rule, text, last) <=> Violates(rule, c, row, "max")
  BY <1>3, <1>5 DEF Broken, Violates
<1>10. "allowed" \in Broken(rule, text, last) <=> Violates(rule, c, row, "allowed")
  BY DEF Broken, Violates
<1>11. "duplicate" \in Broken(rule, text, last) <=> Violates(rule, c, row, "duplicate")
  BY <1>4 DEF Broken, Violates
<1>12. /\ Codes[1] = "required" /\ Codes[2] = "type" /\ Codes[3] = "min"
       /\ Codes[4] = "max" /\ Codes[5] = "allowed" /\ Codes[6] = "duplicate"
  BY DEF Codes
<1>13. n \in {1, 2, 3, 4, 5, 6}
  OBVIOUS
<1>14. QED
  BY <1>6, <1>7, <1>8, <1>9, <1>10, <1>11, <1>12, <1>13 DEF last

(* What seen holds of the other columns stays, and of this one it takes in  *)
(* the row.                                                                 *)
LEMMA RememberedStep ==
    ASSUME Checked, Check
    PROVE  Remembered' /\ DOMAIN seen' = DOMAIN seen
<1> DEFINE column == rules[col].column
           rule == rules[col].rule
           text == Text(row, column)
           last == FirstSeen(column, text)
<1>1. /\ validating = "rows" /\ row \in 1..Len(dataset.rows) /\ col \in 1..Len(rules)
      /\ col' = col + 1 /\ UNCHANGED <<dataset, rules, validating, row>>
      /\ dataset \in Datasets /\ rules \in RuleFiles /\ Remembered
      /\ Len(rules) \in Nat /\ Len(dataset.rows) \in Nat /\ row \in Nat /\ row >= 1 /\ col \in Nat
  <2>1. /\ validating = "rows" /\ row <= Len(dataset.rows) /\ col <= Len(rules)
        /\ col' = col + 1 /\ UNCHANGED <<dataset, rules, validating, row>>
        /\ row \in 1..Len(dataset.rows) + 1 /\ col \in 1..Len(rules) + 1
        /\ dataset \in Datasets /\ rules \in RuleFiles /\ Remembered
    BY DEF Checked, Check
  <2>2. Len(rules) \in Nat /\ Len(dataset.rows) \in Nat
    BY <2>1, InputTypes
  <2>3. QED
    BY <2>1, <2>2
<1>2. column \in DOMAIN seen
  BY <1>1 DEF Checked
<1>3. IF column \in dataset.headers /\ Remembers(rule, text, last)
      THEN seen' = [seen EXCEPT ![column] =
                       [t \in DOMAIN @ \cup {text} |-> IF t = text THEN row ELSE @[t]]]
      ELSE seen' = seen
  BY DEF Check, Text
<1>4. DOMAIN seen' = DOMAIN seen
  BY <1>3
<1>5. \A c \in DOMAIN seen : c # column => seen'[c] = seen[c]
  BY <1>3
<1>6. ASSUME NEW p \in 1..Len(rules), rules[p].column \in dataset.headers,
             Flag(rules[p].rule, "unique")
      PROVE  FirstRows(dataset, rules[p].column, seen'[rules[p].column],
                       IF p < col + 1 THEN row ELSE row - 1)
  <2>1. FirstRows(dataset, rules[p].column, seen[rules[p].column],
                  IF p < col THEN row ELSE row - 1)
    BY <1>1, <1>6 DEF Remembered
  <2>2. CASE p # col
    <3>1. rules[p].column # column
      BY <1>1, <2>2, InputTypes
    <3>2. rules[p].column \in DOMAIN seen
      BY <1>1 DEF Checked
    <3>3. seen'[rules[p].column] = seen[rules[p].column]
      BY <1>5, <3>1, <3>2
    <3>4. p < col + 1 <=> p < col
      BY <1>1, <2>2
    <3>5. QED
      BY <2>1, <3>3, <3>4
  <2>3. CASE p = col
    <3>1. FirstRows(dataset, column, seen[column], row - 1) /\ Flag(rule, "unique")
          /\ column \in dataset.headers
      BY <1>1, <1>6, <2>1, <2>3
    <3>2. text \in Texts /\ text = dataset.rows[row][column].text
      BY <1>1, <3>1, InputTypes DEF Text
    <3>3. CASE text = Blank
      <4>1. seen' = seen
        BY <1>3, <3>3 DEF Remembers
      <4>2. FirstRows(dataset, column, seen[column], row)
        BY <1>1, <3>1, <3>2, <3>3, FirstRowsKnown
      <4>3. QED
        BY <1>1, <2>3, <4>1, <4>2
    <3>4. CASE text # Blank /\ text \in DOMAIN seen[column]
      <4>1. seen[column][text] \in 1..row - 1
        BY <3>1, <3>2, <3>4 DEF FirstRows
      <4>2. last # 0
        BY <1>1, <3>4, <4>1 DEF FirstSeen
      <4>3. seen' = seen
        BY <1>3, <4>2 DEF Remembers
      <4>4. FirstRows(dataset, column, seen[column], row)
        BY <1>1, <3>1, <3>2, <3>4, FirstRowsKnown
      <4>5. QED
        BY <1>1, <2>3, <4>3, <4>4
    <3>5. CASE text # Blank /\ text \notin DOMAIN seen[column]
      <4>1. last = 0
        BY <3>5 DEF FirstSeen
      <4>2. Remembers(rule, text, last)
        BY <3>1, <3>5, <4>1 DEF Remembers
      <4>3. seen'[column] = [t \in DOMAIN seen[column] \cup {text} |->
                                IF t = text THEN row ELSE seen[column][t]]
        BY <1>2, <1>3, <3>1, <4>2
      <4> HIDE DEF column, text
      <4>4. /\ DOMAIN (seen'[column]) = DOMAIN seen[column] \cup {text} /\ seen'[column][text] = row
            /\ \A t \in DOMAIN seen[column] : seen'[column][t] = seen[column][t]
        BY <3>5, <4>3
      <4>5. FirstRows(dataset, column, seen'[column], row)
        BY <1>1, <3>1, <3>2, <3>5, <4>4, FirstRowsNew
      <4>6. QED
        BY <1>1, <2>3, <4>5 DEF column
    <3>6. QED
      BY <3>3, <3>4, <3>5
  <2>4. QED
    BY <2>2, <2>3
<1>7. QED
  BY <1>1, <1>4, <1>6 DEF Remembered

LEMMA CheckedStep ==
    ASSUME Checked, Check
    PROVE  Checked'
<1>1. /\ validating = "rows" /\ col <= Len(rules) /\ col' = col + 1
      /\ UNCHANGED <<dataset, rules, validating, row>>
  BY DEF Check
<1>2. Len(rules) \in Nat
  BY InputTypes DEF Checked
<1>3. Remembered' /\ DOMAIN seen' = DOMAIN seen
  BY RememberedStep
<1>4. QED
  BY <1>1, <1>2, <1>3 DEF Checked

(* What is kept of a batch names the first rows if the batch does.          *)
LEMMA NamedStep ==
    ASSUME FirstRowNamed, UNCHANGED dataset, findings \in Seq(Issue),
           NEW found \in Seq(Issue), NEW kept \in 0..Len(found),
           findings' = findings \o SubSeq(found, 1, kept),
           \A k \in 1..Len(found) : found[k].code = "duplicate" =>
              /\ found[k].first \in 1..(found[k].row - 1)
              /\ Text(found[k].first, found[k].column) = Text(found[k].row, found[k].column)
              /\ \A j \in 1..(found[k].first - 1) :
                    Text(j, found[k].column) # Text(found[k].row, found[k].column)
    PROVE  FirstRowNamed'
<1>1. findings' \in Seq(Issue) /\ Len(findings') = Len(findings) + kept
  BY KeptElements
<1>2. \A i \in 1..Len(findings) : findings'[i] = findings[i]
  BY KeptElements
<1>3. \A i \in Len(findings) + 1..Len(findings) + kept : findings'[i] = found[i - Len(findings)]
  BY KeptElements
<1>4. /\ DOMAIN findings' = 1..Len(findings) + kept /\ DOMAIN findings = 1..Len(findings)
      /\ Len(findings) \in Nat /\ Len(found) \in Nat /\ kept \in Nat
  BY <1>1, LenProperties
<1>5. ASSUME NEW f \in Range(findings'), f.code = "duplicate"
      PROVE  /\ f.first \in 1..(f.row - 1)
             /\ Text(f.first, f.column) = Text(f.row, f.column)
             /\ \A j \in 1..(f.first - 1) : Text(j, f.column) # Text(f.row, f.column)
  <2>1. PICK i \in 1..Len(findings) + kept : f = findings'[i]
    BY <1>4 DEF Range
  <2>2. CASE i \in 1..Len(findings)
    <3>1. f \in Range(findings)
      BY <1>2, <1>4, <2>1, <2>2 DEF Range
    <3>2. QED
      BY <1>5, <3>1 DEF FirstRowNamed
  <2>3. CASE i \notin 1..Len(findings)
    <3>1. i \in Len(findings) + 1..Len(findings) + kept /\ i - Len(findings) \in 1..Len(found)
      BY <1>4, <2>3
    <3>2. PICK k \in 1..Len(found) : f = found[k]
      BY <1>3, <2>1, <3>1
    <3>3. QED
      BY <1>5, <3>2
  <2>4. QED
    BY <2>2, <2>3
<1>6. QED
  BY <1>5 DEF FirstRowNamed, Text

(* A cell of a column that the snapshot has.                                *)
LEMMA CellStep ==
    ASSUME VInv, Check, rules[col].column \in dataset.headers
    PROVE  VInv'
<1> DEFINE column == rules[col].column
           rule == rules[col].rule
           text == dataset.rows[row][column].text
           last == FirstSeen(column, text)
           places == InOrder({n \in 1..Len(Codes) : Codes[n] \in Broken(rule, text, last)})
           found == [i \in 1..Len(places) |->
                        [row |-> row, column |-> column, code |-> Codes[places[i]],
                         first |-> IF Codes[places[i]] = "duplicate" THEN last ELSE 0]]
           g == [n \in BrokenHere |-> <<row, col, n>>]
<1>1. /\ validating = "rows" /\ row \in 1..Len(dataset.rows) /\ col \in 1..Len(rules)
      /\ col' = col + 1 /\ UNCHANGED <<dataset, rules, validating, row>>
      /\ dataset \in Datasets /\ rules \in RuleFiles /\ Remembered /\ row \in Nat /\ row >= 1
      /\ col \in Nat
  <2>1. /\ validating = "rows" /\ row <= Len(dataset.rows) /\ col <= Len(rules)
        /\ col' = col + 1 /\ UNCHANGED <<dataset, rules, validating, row>>
        /\ row \in 1..Len(dataset.rows) + 1 /\ col \in 1..Len(rules) + 1
        /\ dataset \in Datasets /\ rules \in RuleFiles /\ Remembered
    BY DEF VInv, Checked, Check
  <2>2. Len(rules) \in Nat /\ Len(dataset.rows) \in Nat
    BY <2>1, InputTypes
  <2>3. QED
    BY <2>1, <2>2
<1>2. Add(found)
  BY DEF Check
<1>3. Len(Codes) = 6 /\ \A n \in 1..6 : Codes[n] \in Range(Codes)
  BY DEF Codes, Range
<1>4. text = Text(row, column) /\ text \in Texts /\ column \in Columns /\ rule \in Rules
  BY <1>1, InputTypes DEF Text
<1>5. {n \in 1..Len(Codes) : Codes[n] \in Broken(rule, text, last)} = BrokenHere
  <2>1. ASSUME NEW n \in 1..6
        PROVE  Codes[n] \in Broken(rule, text, last) <=> <<row, col, n>> \in Violations
    <3>1. Codes[n] \in Broken(rule, text, last) <=> Violates(rule, column, row, Codes[n])
      BY <1>1, <1>4, BrokenViolates DEF VInv
    <3>2. <<row, col, n>> \in Violations <=> Violates(rule, column, row, Codes[n])
      BY <1>1, CellViolations
    <3>3. QED
      BY <3>1, <3>2
  <2>2. QED
    BY <1>3, <2>1 DEF BrokenHere
<1>6. places = InOrder(BrokenHere)
  BY <1>5
<1>7. /\ NextBatch(Violations, Passed, BrokenHere, g)
      /\ {v \in Violations : v[1] < row \/ (v[1] = row /\ v[2] < col + 1)}
            = Passed \cup Image(g, BrokenHere)
  BY <1>1, CellBatch
<1>8. /\ Cardinality(BrokenHere) \in Nat /\ Len(places) = Cardinality(BrokenHere)
      /\ \A k \in 1..Len(places) : places[k] \in BrokenHere
  <2>1. BrokenHere \in SUBSET Nat /\ IsFiniteSet(BrokenHere)
    BY <1>7 DEF NextBatch
  <2>2. QED
    BY <1>6, <2>1, InOrderRanks
<1>9. \A k \in 1..Len(places) :
         places[k] \in 1..6 /\ Codes[places[k]] \in Broken(rule, text, last)
  BY <1>3, <1>5, <1>8
(* a duplicate names the first row                                          *)
<1>10. "duplicate" \in Broken(rule, text, last)
          => /\ last \in 1..row - 1 /\ Text(last, column) = text
             /\ \A j \in 1..last - 1 : Text(j, column) # text
  <2> HAVE "duplicate" \in Broken(rule, text, last)
  <2>1. text # Blank /\ Flag(rule, "unique") /\ last # 0
    BY DEF Broken
  <2>2. FirstRows(dataset, column, seen[column], row - 1)
    BY <1>1, <2>1 DEF Remembered
  <2>3. text \in DOMAIN seen[column] /\ last = seen[column][text]
    BY <2>1 DEF FirstSeen
  <2>4. QED
    BY <1>4, <2>1, <2>2, <2>3 DEF FirstRows, Text
<1> HIDE DEF places
<1>11. /\ found \in Seq(Issue) /\ Len(found) = Cardinality(BrokenHere)
       /\ DOMAIN found = 1..Len(places)
  <2>1. ASSUME NEW k \in 1..Len(places)
        PROVE  found[k] \in Issue
    <3>1. Codes[places[k]] \in Range(Codes)
      BY <1>3, <1>9
    <3>2. (IF Codes[places[k]] = "duplicate" THEN last ELSE 0) \in Nat
      BY <1>1, <1>9, <1>10
    <3> HIDE DEF last
    <3>3. QED
      BY <1>1, <1>4, <3>1, <3>2 DEF Issue
  <2>2. found \in [1..Len(places) -> Issue] /\ DOMAIN found = 1..Len(places)
    BY <2>1
  <2> HIDE DEF found
  <2>3. QED
    BY <1>8, <2>2, FunctionSeq
<1>12. \A k \in 1..Len(found) : Tells(rules, found[k], g[InOrder(BrokenHere)[k]])
  <2>1. ASSUME NEW k \in 1..Len(places)
        PROVE  Tells(rules, found[k], g[places[k]])
    <3>1. g[places[k]] = <<row, col, places[k]>> /\ row # 0
      BY <1>1, <1>8
    <3> HIDE DEF g, last
    <3>2. QED
      BY <3>1 DEF Tells
  <2>2. QED
    BY <1>6, <1>8, <1>11, <2>1
<1> HIDE DEF found, g, last
<1> DEFINE kept == IF Len(found) < Room THEN Len(found) ELSE Room
           all == Passed \cup Image(g, BrokenHere)
<1>13. /\ Tally(Violations, rules, Passed, issues, affected, findings)
       /\ issues' = issues + Len(found)
       /\ affected' = affected \cup ({f.row : f \in Range(found)} \ {0})
       /\ findings' = findings \o SubSeq(found, 1, kept)
       /\ Room = MaxFindings - Len(findings) /\ all = Passed \cup Image(g, BrokenHere)
       /\ kept = IF Len(found) < Room THEN Len(found) ELSE Room
  BY <1>2 DEF Add, Room, VInv
<1>14. Tally(Violations, rules, Passed, issues, affected, findings)'
  <2> HIDE DEF kept, all
  <2>1. Tally(Violations, rules, all, issues', affected', findings')
    BY <1>7, <1>11, <1>12, <1>13, BatchAdded
  <2>2. Passed' = all
    BY <1>1, <1>7, <1>13, SameViolations DEF Passed
  <2>3. QED
    BY <1>1, <2>1, <2>2, SameViolations
<1>15. findings \in Seq(Issue) /\ kept \in 0..Len(found)
  <2>1. findings \in Seq(Issue) /\ Len(findings) <= MaxFindings /\ MaxFindings \in Nat
    BY <1>13, SnapshotConstants, FS_CardinalityType DEF Tally
  <2>2. Len(findings) \in Nat /\ Len(found) \in Nat
    BY <1>11, <2>1, LenProperties
  <2> HIDE DEF kept
  <2>3. QED
    BY <1>13, <2>1, <2>2
<1>16. FirstRowNamed'
  <2>1. ASSUME NEW k \in 1..Len(found), found[k].code = "duplicate"
        PROVE  /\ found[k].first \in 1..(found[k].row - 1)
               /\ Text(found[k].first, found[k].column) = Text(found[k].row, found[k].column)
               /\ \A j \in 1..(found[k].first - 1) :
                     Text(j, found[k].column) # Text(found[k].row, found[k].column)
    <3>1. k \in 1..Len(places)
      BY <1>8, <1>11
    <3>2. found[k].row = row /\ found[k].column = column /\ found[k].code = Codes[places[k]]
          /\ found[k].first = IF Codes[places[k]] = "duplicate" THEN last ELSE 0
      BY <3>1 DEF found
    <3>3. "duplicate" \in Broken(rule, text, last) /\ found[k].first = last
      BY <1>9, <2>1, <3>1, <3>2
    <3>4. QED
      BY <1>4, <1>10, <3>2, <3>3
  <2> HIDE DEF kept
  <2>2. FirstRowNamed /\ UNCHANGED dataset
    BY <1>1 DEF VInv
  <2>3. QED
    BY <1>11, <1>13, <1>15, <2>1, <2>2, NamedStep
<1>17. Checked'
  BY CheckedStep DEF VInv
<1>18. QED
  BY <1>14, <1>16, <1>17 DEF VInv

(* A cell of a column that the snapshot has not.                            *)
LEMMA PassOver ==
    ASSUME VInv, Check, rules[col].column \notin dataset.headers
    PROVE  VInv'
<1>1. /\ validating = "rows" /\ row <= Len(dataset.rows) /\ col <= Len(rules) /\ col' = col + 1
      /\ UNCHANGED <<dataset, rules, validating, row, issues, affected, findings>>
      /\ dataset \in Datasets /\ rules \in RuleFiles
      /\ row \in 1..Len(dataset.rows) + 1 /\ col \in 1..Len(rules) + 1
  BY DEF VInv, Checked, Check
<1>2. Len(rules) \in Nat /\ Len(dataset.rows) \in Nat /\ row \in Nat /\ row >= 1 /\ col \in Nat
  BY <1>1, InputTypes
<1>3. ASSUME NEW v \in Violations
      PROVE  (v[1] < row \/ (v[1] = row /\ v[2] < col + 1))
                <=> (v[1] < row \/ (v[1] = row /\ v[2] < col))
  <2>1. v[2] \in Nat
    BY <1>1, <1>2, ViolationParts
  <2>2. ~ (v[1] = row /\ v[2] = col)
    BY <1>1, <1>2, ViolationParts
  <2>3. QED
    BY <1>2, <2>1, <2>2
<1>4. Passed' = Passed
  BY <1>1, <1>3, SameViolations DEF Passed
<1>5. Tally(Violations, rules, Passed, issues, affected, findings)'
  BY <1>1, <1>4, SameViolations DEF VInv
<1>6. FirstRowNamed' /\ Checked'
  BY <1>1, CheckedStep, NamedAgain DEF VInv
<1>7. QED
  BY <1>5, <1>6 DEF VInv

LEMMA StepNextRow ==
    ASSUME VInv, NextRow
    PROVE  VInv'
<1>1. /\ validating = "rows" /\ row <= Len(dataset.rows) /\ col > Len(rules)
      /\ row' = row + 1 /\ col' = 1
      /\ UNCHANGED <<dataset, rules, validating, seen, issues, affected, findings>>
      /\ dataset \in Datasets /\ rules \in RuleFiles /\ Remembered
      /\ row \in 1..Len(dataset.rows) + 1 /\ col \in 1..Len(rules) + 1
  BY DEF VInv, Checked, NextRow
<1>2. Len(rules) \in Nat /\ Len(dataset.rows) \in Nat /\ row \in Nat /\ row >= 1 /\ col = Len(rules) + 1
  BY <1>1, InputTypes
<1>3. ASSUME NEW v \in Violations
      PROVE  (v[1] < row + 1 \/ (v[1] = row + 1 /\ v[2] < 1))
                <=> (v[1] < row \/ (v[1] = row /\ v[2] < col))
  <2>1. v[1] \in Nat /\ v[2] \in 1..Len(rules)
    BY <1>1, ViolationParts
  <2>2. QED
    BY <1>2, <2>1
<1>4. Passed' = Passed
  BY <1>1, <1>3, SameViolations DEF Passed
<1>5. Tally(Violations, rules, Passed, issues, affected, findings)'
  BY <1>1, <1>4, SameViolations DEF VInv
<1>6. Remembered'
  <2>1. \A p \in 1..Len(rules) : p < col /\ ~ (p < 1)
    BY <1>2
  <2>2. (row + 1) - 1 = row
    BY <1>2
  <2>3. QED
    BY <1>1, <2>1, <2>2 DEF Remembered
<1>7. Checked'
  BY <1>1, <1>2, <1>6 DEF VInv, Checked
<1>8. QED
  BY <1>1, <1>5, <1>7, NamedAgain DEF VInv

LEMMA StepValidationEnds ==
    ASSUME VInv, ValidationEnds
    PROVE  VInv'
<1>1. /\ validating = "rows" /\ row > Len(dataset.rows) /\ validating' = "done"
      /\ UNCHANGED <<dataset, rules, row, col, seen, issues, affected, findings>>
      /\ dataset \in Datasets /\ rules \in RuleFiles /\ row \in 1..Len(dataset.rows) + 1
  BY DEF VInv, Checked, ValidationEnds
<1>2. row = Len(dataset.rows) + 1
  BY <1>1, InputTypes
<1>3. Passed' = Passed
  BY <1>1, SameViolations DEF Passed
<1>4. Tally(Violations, rules, Passed, issues, affected, findings)'
  BY <1>1, <1>3, SameViolations DEF VInv
<1>5. Checked'
  BY <1>1, <1>2 DEF VInv, Checked
<1>6. QED
  BY <1>1, <1>4, <1>5, NamedAgain DEF VInv

(* Nothing is counted of no violations.                                     *)
LEMMA TallyNothing ==
    ASSUME NEW W, NEW rs
    PROVE  Tally(W, rs, {}, 0, {}, <<>>)
<1>1. MaxFindings \in Nat
  BY SnapshotConstants
<1>2. <<>> \in Seq(Issue) /\ Len(<<>>) = 0
  BY EmptySeq
<1>3. IsFiniteSet({}) /\ Cardinality({}) = 0
  BY FS_EmptySet
<1>4. {} = {v[1] : v \in {}} \ {0}
  OBVIOUS
<1>5. Len(<<>>) = IF 0 < MaxFindings THEN 0 ELSE MaxFindings
  BY <1>1, <1>2
<1>6. \A i \in 1..Len(<<>>) : FALSE
  BY <1>2
<1>7. QED
  BY <1>2, <1>3, <1>4, <1>5, <1>6 DEF Tally

LEMMA ValidationBegins ==
    ASSUME ValidationInit
    PROVE  VInv
<1>1. /\ dataset \in Datasets /\ rules \in RuleFiles
      /\ validating = "rules" /\ row = 1 /\ col = 1
      /\ seen = [c \in {} |-> 0] /\ issues = 0 /\ affected = {} /\ findings = <<>>
  BY DEF ValidationInit
<1>2. Len(rules) \in Nat /\ Len(dataset.rows) \in Nat
  BY <1>1, InputTypes
<1>3. Checked
  BY <1>1, <1>2 DEF Checked
<1>4. Passed = {}
  BY <1>1 DEF Passed
<1>5. Tally(Violations, rules, Passed, issues, affected, findings)
  BY <1>1, <1>4, TallyNothing
<1>6. FirstRowNamed
  BY <1>1 DEF FirstRowNamed, Range
<1>7. QED
  BY <1>3, <1>5, <1>6 DEF VInv

LEMMA StepStart ==
    ASSUME VInv, Start
    PROVE  VInv'
<1>1. /\ validating = "rules" /\ UNCHANGED <<dataset, rules, row, col, issues, affected, findings>>
      /\ dataset \in Datasets /\ rules \in RuleFiles /\ row = 1 /\ col = 1 /\ DOMAIN seen = {}
  BY DEF VInv, Checked, Start
<1>2. Len(rules) \in Nat /\ Len(dataset.rows) \in Nat
  BY <1>1, InputTypes
<1>3. Passed' = Passed
  BY <1>1 DEF Passed, Start
<1>4. Tally(Violations, rules, Passed, issues, affected, findings)'
  BY <1>1, <1>3, SameViolations DEF VInv
<1>5. Checked'
  <2>1. CASE \A i \in 1..Len(rules) : Consistent(rules[i].rule)
    <3>1. /\ validating' = "missing"
          /\ seen' = [c \in {rules[i].column : i \in 1..Len(rules)} |-> [t \in {} |-> 0]]
      BY <2>1 DEF Start
    <3>2. DOMAIN seen' = {rules[p].column : p \in 1..Len(rules)}
      BY <3>1
    <3>3. Remembered'
      <4>1. ASSUME NEW p \in 1..Len(rules)
            PROVE  FirstRows(dataset, rules[p].column, seen'[rules[p].column], 0)
        <5>1. DOMAIN (seen'[rules[p].column]) = {}
          BY <3>1
        <5>2. \A j \in 1..0 : FALSE
          OBVIOUS
        <5>3. QED
          BY <5>1, <5>2 DEF FirstRows
      <4>2. \A p \in 1..Len(rules) : (IF p < 1 THEN 1 ELSE 1 - 1) = 0
        OBVIOUS
      <4>3. QED
        BY <1>1, <4>1, <4>2 DEF Remembered
    <3>4. QED
      BY <1>1, <1>2, <2>1, <3>1, <3>2, <3>3 DEF Checked
  <2>2. CASE ~ \A i \in 1..Len(rules) : Consistent(rules[i].rule)
    <3>1. validating' = "refused" /\ seen' = seen
      BY <2>2 DEF Start
    <3>2. QED
      BY <1>1, <1>2, <3>1 DEF Checked
  <2>3. QED
    BY <2>1, <2>2
<1>6. QED
  BY <1>1, <1>4, <1>5, NamedAgain DEF VInv

LEMMA ValidationStutter ==
    ASSUME VInv, UNCHANGED validation
    PROVE  VInv'
<1>1. UNCHANGED <<dataset, rules, validating, row, col, seen, issues, affected, findings>>
  BY DEF validation
<1>2. Violations' = Violations
  BY <1>1, SameViolations
<1>3. Passed' = Passed
  BY <1>1, <1>2 DEF Passed
<1>4. Tally(Violations, rules, Passed, issues, affected, findings)'
  BY <1>1, <1>2, <1>3 DEF VInv
<1>5. Checked'
  BY <1>1 DEF VInv, Checked, Remembered
<1>6. QED
  BY <1>1, <1>4, <1>5, NamedAgain DEF VInv

(* The absent columns come before every cell.                               *)
LEMMA AbsentBatch ==
    ASSUME dataset \in Datasets, rules \in RuleFiles,
           NEW g, g = [p \in Absent |-> <<0, p, 0>>]
    PROVE  /\ NextBatch(Violations, {}, Absent, g)
           /\ {v \in Violations : v[1] < 1 \/ (v[1] = 1 /\ v[2] < 1)} = {} \cup Image(g, Absent)
<1>1. Len(rules) \in Nat /\ Len(dataset.rows) \in Nat
  BY InputTypes
<1>2. Absent \subseteq 1..Len(rules) /\ Absent \subseteq Nat /\ IsFiniteSet(Absent)
  <2>1. Absent \subseteq 1..Len(rules)
    BY DEF Absent
  <2>2. 1 \in Int /\ Len(rules) \in Int
    BY <1>1
  <2>3. IsFiniteSet(1..Len(rules))
    BY <2>2, FS_Interval
  <2>4. IsFiniteSet(Absent)
    BY <2>1, <2>3, FS_Subset
  <2>5. QED
    BY <1>1, <2>1, <2>4
<1>3. DOMAIN g = Absent /\ \A p \in Absent : g[p] = <<0, p, 0>>
  OBVIOUS
<1>4. \A v \in Violations : v[1] \in Nat /\ v[2] \in 1..Len(rules) /\ v[3] \in Nat
  BY ViolationParts
<1>5. \A v \in Violations : v[1] = 0 => v[2] \in Absent /\ v = g[v[2]]
  <2> TAKE v \in Violations
  <2> HAVE v[1] = 0
  <2>1. v = <<0, v[2], 0>> /\ v[2] \in Absent
    BY <1>1, ViolationParts
  <2>2. QED
    BY <1>3, <2>1
<1>6. \A p \in Absent : g[p] \in Violations /\ g[p][1] = 0 /\ g[p][2] = p /\ g[p][3] = 0
  <2> TAKE p \in Absent
  <2>1. <<0, p, 0>> \in Violations
    BY <1>2, MissingColumns
  <2>2. QED
    BY <1>3, <2>1
<1>7. \A p, q \in Absent : g[p] = g[q] => p = q
  BY <1>6
<1>8. ASSUME NEW p \in Absent
      PROVE  Preceding(Violations, g[p]) = {} \cup Image(g, Below(Absent, p))
  <2>1. ASSUME NEW v \in Violations
        PROVE  Before(v, g[p]) <=> v \in Image(g, Below(Absent, p))
    <3>1. v[1] \in Nat /\ v[2] \in Nat /\ v[3] \in Nat /\ p \in Nat
      BY <1>1, <1>2, <1>4
    <3>2. Before(v, g[p]) <=> \/ v[1] < 0
                              \/ (v[1] = 0 /\ v[2] < p)
                              \/ (v[1] = 0 /\ v[2] = p /\ v[3] < 0)
      BY <1>6 DEF Before
    <3>3. Before(v, g[p]) <=> v[1] = 0 /\ v[2] < p
      BY <3>1, <3>2
    <3>4. ASSUME v[1] = 0, v[2] < p
          PROVE  v \in Image(g, Below(Absent, p))
      BY <1>5, <3>4 DEF Image, Below
    <3>5. ASSUME v \in Image(g, Below(Absent, p))
          PROVE  v[1] = 0 /\ v[2] < p
      BY <1>6, <3>5 DEF Image, Below
    <3>6. QED
      BY <3>3, <3>4, <3>5
  <2>2. Image(g, Below(Absent, p)) \subseteq Violations
    BY <1>6 DEF Image, Below
  <2>3. QED
    BY <2>1, <2>2 DEF Preceding
<1>9. NextBatch(Violations, {}, Absent, g)
  BY <1>2, <1>3, <1>7, <1>8 DEF NextBatch
<1>10. {v \in Violations : v[1] < 1 \/ (v[1] = 1 /\ v[2] < 1)} = {} \cup Image(g, Absent)
  <2>1. ASSUME NEW v \in Violations
        PROVE  (v[1] < 1 \/ (v[1] = 1 /\ v[2] < 1)) <=> v \in Image(g, Absent)
    <3>1. v[1] \in Nat /\ v[2] >= 1 /\ v[2] \in Nat
      BY <1>1, <1>4
    <3>2. (v[1] < 1 \/ (v[1] = 1 /\ v[2] < 1)) <=> v[1] = 0
      BY <3>1
    <3>3. v[1] = 0 <=> v \in Image(g, Absent)
      BY <1>5, <1>6 DEF Image
    <3>4. QED
      BY <3>2, <3>3
  <2>2. Image(g, Absent) \subseteq Violations
    BY <1>6 DEF Image
  <2>3. QED
    BY <2>1, <2>2
<1>11. QED
  BY <1>9, <1>10

LEMMA StepMissing ==
    ASSUME VInv, Missing
    PROVE  VInv'
<1> DEFINE places == InOrder(Absent)
           found == [i \in 1..Len(places) |->
                        [row |-> 0, column |-> rules[places[i]].column,
                         code |-> "missing_column", first |-> 0]]
           g == [p \in Absent |-> <<0, p, 0>>]
           kept == IF Len(found) < Room THEN Len(found) ELSE Room
           all == {} \cup Image(g, Absent)
<1>1. /\ validating = "missing" /\ validating' = "rows" /\ UNCHANGED <<dataset, rules, row, col, seen>>
      /\ dataset \in Datasets /\ rules \in RuleFiles /\ row = 1 /\ col = 1
  BY DEF VInv, Checked, Missing
<1>2. Add(found)
  BY DEF Missing
<1>3. /\ NextBatch(Violations, {}, Absent, g)
      /\ {v \in Violations : v[1] < 1 \/ (v[1] = 1 /\ v[2] < 1)} = all
  BY <1>1, AbsentBatch
<1>4. /\ Cardinality(Absent) \in Nat /\ Len(places) = Cardinality(Absent)
      /\ \A k \in 1..Len(places) : places[k] \in Absent
  <2>1. Absent \in SUBSET Nat /\ IsFiniteSet(Absent)
    BY <1>3 DEF NextBatch
  <2>2. QED
    BY <2>1, InOrderRanks
<1> HIDE DEF places
<1>5. found \in Seq(Issue) /\ Len(found) = Cardinality(Absent) /\ Len(found) = Len(places)
  <2>1. ASSUME NEW k \in 1..Len(places)
        PROVE  found[k] \in Issue
    <3>1. rules[places[k]].column \in Columns
      BY <1>1, <1>4, InputTypes DEF Absent
    <3>2. QED
      BY <3>1 DEF Issue
  <2>2. found \in [1..Len(places) -> Issue]
    BY <2>1
  <2> HIDE DEF found
  <2>3. QED
    BY <1>4, <2>2, FunctionSeq
<1>6. \A k \in 1..Len(found) :
         Tells(rules, found[k], g[places[k]]) /\ found[k].code = "missing_column"
  <2>1. ASSUME NEW k \in 1..Len(places)
        PROVE  Tells(rules, found[k], g[places[k]]) /\ found[k].code = "missing_column"
    <3>1. g[places[k]] = <<0, places[k], 0>>
      BY <1>4
    <3> HIDE DEF g
    <3>2. QED
      BY <3>1 DEF Tells
  <2>2. QED
    BY <1>5, <2>1
<1>7. \A k \in 1..Len(found) : Tells(rules, found[k], g[InOrder(Absent)[k]])
  BY <1>6 DEF places
<1> HIDE DEF found, g
<1>8. Passed = {}
  BY <1>1 DEF Passed
<1>9. /\ Tally(Violations, rules, {}, issues, affected, findings)
      /\ issues' = issues + Len(found)
      /\ affected' = affected \cup ({f.row : f \in Range(found)} \ {0})
      /\ findings' = findings \o SubSeq(found, 1, kept)
      /\ Room = MaxFindings - Len(findings) /\ all = {} \cup Image(g, Absent)
      /\ kept = IF Len(found) < Room THEN Len(found) ELSE Room
  BY <1>2, <1>8 DEF Add, Room, VInv
<1>10. Tally(Violations, rules, Passed, issues, affected, findings)'
  <2> HIDE DEF kept, all
  <2>1. Tally(Violations, rules, all, issues', affected', findings')
    BY <1>3, <1>5, <1>7, <1>9, BatchAdded
  <2>2. Passed' = all
    BY <1>1, <1>3, SameViolations DEF Passed
  <2>3. QED
    BY <1>1, <2>1, <2>2, SameViolations
<1>11. findings \in Seq(Issue) /\ kept \in 0..Len(found)
  <2>1. findings \in Seq(Issue) /\ Len(findings) <= MaxFindings /\ MaxFindings \in Nat
    BY <1>9, SnapshotConstants, FS_CardinalityType DEF Tally
  <2>2. Len(findings) \in Nat /\ Len(found) \in Nat
    BY <1>5, <2>1, LenProperties
  <2> HIDE DEF kept
  <2>3. QED
    BY <1>9, <2>1, <2>2
<1>12. FirstRowNamed'
  <2> HIDE DEF kept
  <2>1. FirstRowNamed /\ UNCHANGED dataset
    BY <1>1 DEF VInv
  <2>2. \A k \in 1..Len(found) : found[k].code # "duplicate"
    BY <1>6
  <2>3. QED
    BY <1>5, <1>9, <1>11, <2>1, <2>2, NamedStep
<1>13. Checked'
  BY <1>1 DEF VInv, Checked, Remembered
<1>14. QED
  BY <1>10, <1>12, <1>13 DEF VInv

LEMMA StepCheck ==
    ASSUME VInv, Check
    PROVE  VInv'
  BY CellStep, PassOver

(* The invariant of validate of opscheck/core.py, whatever the snapshot,    *)
(* the rules, the types and the cap on findings: what is counted and kept   *)
(* is what the cells checked so far violate, in their order, and unique     *)
(* columns remember the first row of every text.                            *)
THEOREM ValidationInvariance == ValidationSpec => []VInv
<1>1. ValidationInit => VInv
  BY ValidationBegins
<1>2. VInv /\ [ValidationNext]_validation => VInv'
  BY StepStart, StepMissing, StepCheck, StepNextRow, StepValidationEnds, ValidationStutter
     DEF ValidationNext
<1>3. QED
  BY <1>1, <1>2, PTL DEF ValidationSpec

----------------------------------------------------------------------------
(* Validation: what the invariant says of a result *)

LEMMA PassedParts ==
    ASSUME VInv
    PROVE  /\ Passed \subseteq Violations
           /\ validating = "done" => Passed = Violations
           /\ Passed # {} => validating \in {"rows", "done"}
<1>1. Passed \subseteq Violations /\ (Passed # {} => validating \in {"rows", "done"})
  BY DEF Passed
<1>2. ASSUME validating = "done"
      PROVE  Passed = Violations
  <2>1. row = Len(dataset.rows) + 1 /\ dataset \in Datasets /\ rules \in RuleFiles
    BY <1>2 DEF VInv, Checked
  <2>2. Len(dataset.rows) \in Nat
    BY <2>1, InputTypes
  <2>3. \A v \in Violations : v[1] < row
    BY <2>1, <2>2, ViolationParts
  <2>4. QED
    BY <1>2, <2>3 DEF Passed
<1>3. QED
  BY <1>1, <1>2

LEMMA ValidationTyped ==
    ASSUME VInv
    PROVE  ValidationTypeOK
<1>1. /\ dataset \in Datasets /\ rules \in RuleFiles
      /\ validating \in {"rules", "missing", "rows", "done", "refused"}
      /\ row \in 1..Len(dataset.rows) + 1 /\ col \in 1..Len(rules) + 1
  BY DEF VInv, Checked
<1>2. Len(dataset.rows) \in Nat /\ Len(rules) \in Nat
      /\ \A p \in 1..Len(rules) : rules[p].column \in Columns
  BY <1>1, InputTypes
<1>3. DOMAIN seen \subseteq Columns
  BY <1>1, <1>2 DEF VInv, Checked
<1>4. issues \in Nat /\ Len(findings) <= MaxFindings
  <2>1. /\ IsFiniteSet(Passed) /\ issues = Cardinality(Passed)
        /\ Len(findings) = IF issues < MaxFindings THEN issues ELSE MaxFindings
    BY DEF VInv, Tally
  <2>2. Cardinality(Passed) \in Nat /\ MaxFindings \in Nat
    BY <2>1, FS_CardinalityType, SnapshotConstants
  <2>3. QED
    BY <2>1, <2>2
<1>5. affected \subseteq 1..Len(dataset.rows)
  <2>1. affected = {v[1] : v \in Passed} \ {0}
    BY DEF VInv, Tally
  <2>2. \A v \in Passed : v[1] = 0 \/ v[1] \in 1..Len(dataset.rows)
    BY <1>1, PassedParts, ViolationParts
  <2>3. QED
    BY <2>1, <2>2
<1>6. QED
  BY <1>1, <1>2, <1>3, <1>4, <1>5 DEF ValidationTypeOK

(* Consistent bounds do not both exclude a number.                          *)
LEMMA BoundsFromChecked ==
    ASSUME VInv
    PROVE  BoundsAgree
<1>1. ASSUME NEW f \in Range(findings), NEW h \in Range(findings),
             f.row = h.row, f.column = h.column, f.code = "min", h.code = "max"
      PROVE  FALSE
  <2>1. dataset \in Datasets /\ rules \in RuleFiles
    BY DEF VInv, Checked
  <2>2. \A e \in Range(findings) : \E v \in Passed : Tells(rules, e, v)
    <3>1. DOMAIN findings = 1..Len(findings)
      BY LenProperties DEF VInv, Tally
    <3>2. \A i \in 1..Len(findings) : \E v \in Passed : Tells(rules, findings[i], v)
      BY DEF VInv, Tally
    <3>3. QED
      BY <3>1, <3>2 DEF Range
  <2>3. PICK v \in Passed : Tells(rules, f, v)
    BY <2>2
  <2>4. PICK w \in Passed : Tells(rules, h, w)
    BY <2>2
  <2>5. v \in Violations /\ w \in Violations /\ validating \in {"rows", "done"}
    BY PassedParts
  <2>6. v[1] # 0 /\ Codes[v[3]] = "min" /\ w[1] = v[1] /\ Codes[w[3]] = "max"
        /\ rules[v[2]].column = rules[w[2]].column
    BY <1>1, <2>3, <2>4 DEF Tells
  <2> DEFINE p == v[2]
             rule == rules[p].rule
             text == Text(v[1], rules[p].column)
  <2>7. p \in 1..Len(rules) /\ w[2] = p
    BY <2>1, <2>5, <2>6, InputTypes, ViolationParts
  <2>8. Violates(rule, rules[p].column, v[1], "min") /\ Violates(rule, rules[p].column, v[1], "max")
    BY <2>1, <2>5, <2>6, <2>7, ViolationParts
  <2>9. /\ "min" \in DOMAIN rule /\ "max" \in DOMAIN rule
        /\ text \in Conforms[TypeOf(rule)] /\ Value[text] < rule.min /\ Value[text] > rule.max
    BY <2>8 DEF Violates
  <2>10. Consistent(rule) /\ rule \in Rules
    BY <2>1, <2>5, <2>7, InputTypes DEF VInv, Checked
  <2>11. TypeOf(rule) \in Numeric /\ rule.min <= rule.max
    BY <2>9, <2>10 DEF Consistent
  <2>12. Value[text] \in Int
    BY <2>9, <2>11, ValidationConstants DEF Numeric
  <2>13. rule.min \in Int /\ rule.max \in Int
    BY <2>9, <2>10, ValidationConstants
  <2> HIDE DEF rule, text
  <2>14. QED
    BY <2>9, <2>11, <2>12, <2>13
<1>2. QED
  BY <1>1 DEF BoundsAgree

LEMMA ValidatedAtRest ==
    ASSUME VInv
    PROVE  ValidatedExactly
<1>1. /\ IsFiniteSet(Passed) /\ issues = Cardinality(Passed)
      /\ affected = {v[1] : v \in Passed} \ {0}
      /\ Len(findings) = IF issues < MaxFindings THEN issues ELSE MaxFindings
      /\ \A i \in 1..Len(findings) :
            \E v \in Passed : Cardinality(Preceding(Violations, v)) = i - 1 /\ Tells(rules, findings[i], v)
  BY DEF VInv, Tally
<1>2. validating = "done" => Passed = Violations
  BY PassedParts
<1>3. IssuesExact
  BY <1>1, <1>2 DEF IssuesExact
<1>4. FirstReported
  <2>1. ASSUME validating = "done", NEW i \in 1..Len(findings)
        PROVE  \E v \in Violations :
                  /\ Cardinality({w \in Violations : Before(w, v)}) = i - 1
                  /\ findings[i].row = v[1]
                  /\ findings[i].column = rules[v[2]].column
                  /\ findings[i].code = IF v[1] = 0 THEN "missing_column" ELSE Codes[v[3]]
    BY <1>1, <1>2, <2>1 DEF Preceding, Tells
  <2>2. QED
    BY <1>1, <2>1 DEF FirstReported
<1>5. QED
  BY <1>3, <1>4, ValidationTyped, BoundsFromChecked DEF VInv, ValidatedExactly

(* validate counts every violation of the rules once and keeps the first    *)
(* of them in the order of rows, rules and codes; a duplicate names the     *)
(* first row with its value, and no number is both too small and too large: *)
(* for every snapshot, every rules file and every cap on findings.          *)
THEOREM AlwaysValidatedExactly == ValidationSpec => []ValidatedExactly
<1>1. VInv => ValidatedExactly
  BY ValidatedAtRest
<1>2. QED
  BY <1>1, ValidationInvariance, PTL

----------------------------------------------------------------------------
(* Comparison *)

KeyAt(ds, i) == ds.rows[i][Key].text

(* The first n rows are indexed, each under its own key.                    *)
Indexed(index, ds, n) ==
    /\ n \in 0..Len(ds.rows)
    /\ n > 0 => Key \in ds.headers
    /\ DOMAIN index = {KeyAt(ds, i) : i \in 1..n}
    /\ DOMAIN index \subseteq Texts
    /\ IsFiniteSet(DOMAIN index) /\ Cardinality(DOMAIN index) = n
    /\ \A i \in 1..n : KeyAt(ds, i) # Blank /\ index[KeyAt(ds, i)] = ds.rows[i]
    /\ \A i, j \in 1..n : KeyAt(ds, i) = KeyAt(ds, j) => i = j

Whole(index, ds) == Key \in ds.headers /\ Indexed(index, ds, Len(ds.rows))

(* Where the loops over the rows are.                                       *)
Indexes ==
    /\ before \in Versions /\ after \in Versions
    /\ comparing = "old" =>
          /\ next \in 1..Len(before.rows) + 1
          /\ Indexed(old, before, next - 1) /\ new = Empty
    /\ comparing = "new" =>
          /\ next \in 1..Len(after.rows) + 1
          /\ Whole(old, before) /\ Indexed(new, after, next - 1)
    /\ comparing \in {"compare", "done"} => Whole(old, before) /\ Whole(new, after)
    /\ comparing = "refused" => ~ (Comparable(before) /\ Comparable(after))

Keys == DOMAIN old \cup DOMAIN new
Compared == Keys \ pending
Differing == {k \in Keys : Kind(k) # "unchanged"}

Finding == [kind : Kinds, key : Texts, fields : SUBSET Columns]

(* What has been counted and kept is what the keys compared so far, which   *)
(* are the smallest, amount to.                                             *)
Counted ==
    /\ counts \in [Kinds -> Nat] /\ changesKept \in Seq(Finding)
    /\ comparing \in {"old", "new"} =>
          pending = {} /\ counts = [kind \in Kinds |-> 0] /\ changesKept = <<>>
    /\ comparing = "done" => pending = {}
    /\ comparing \in {"compare", "done"} =>
          /\ pending \subseteq Keys
          /\ \A k \in Compared, p \in pending : k < p
          /\ counts["added"] + counts["changed"] + counts["unchanged"]
                = Cardinality(Compared \cap DOMAIN new)
          /\ counts["removed"] + counts["changed"] + counts["unchanged"]
                = Cardinality(Compared \cap DOMAIN old)
          /\ TotalChanges = Cardinality(Compared \cap Differing)
          /\ Len(changesKept) = IF TotalChanges < MaxFindings THEN TotalChanges ELSE MaxFindings
          /\ \A i \in 1..Len(changesKept) :
                /\ changesKept[i].key \in Differing
                /\ Cardinality({k \in Differing : k < changesKept[i].key}) = i - 1

CInv == ComparisonTypeOK /\ Indexes /\ Counted

(* What load_csv returns: rows that have a cell for each header.            *)
LEMMA SnapshotType ==
    ASSUME NEW ds \in Versions
    PROVE  /\ ds.headers \subseteq Columns /\ Len(ds.rows) \in Nat
           /\ \A i \in 1..Len(ds.rows) :
                 /\ ds.rows[i] \in [ds.headers -> Cell]
                 /\ Key \in ds.headers => KeyAt(ds, i) \in Texts
<1>1. ds.headers \subseteq Columns /\ ds.rows \in Seq([ds.headers -> Cell])
  BY ComparisonConstants DEF Dataset
<1>2. Len(ds.rows) \in Nat /\ \A i \in 1..Len(ds.rows) : ds.rows[i] \in [ds.headers -> Cell]
  BY <1>1
<1>3. \A i \in 1..Len(ds.rows) : Key \in ds.headers => ds.rows[i][Key] \in Cell
  BY <1>2
<1>4. QED
  BY <1>1, <1>2, <1>3 DEF Cell, KeyAt

(* Nothing is indexed at first.                                             *)
LEMMA EmptyIndex ==
    ASSUME NEW ds \in Versions
    PROVE  Indexed(Empty, ds, 0)
<1>1. Len(ds.rows) \in Nat
  BY SnapshotType
<1>2. DOMAIN Empty = {}
  BY DEF Empty
<1>3. QED
  BY <1>1, <1>2, FS_EmptySet DEF Indexed

(* A row under a new key extends the index by that key.                     *)
LEMMA IndexExtended ==
    ASSUME NEW ds \in Versions, NEW index, NEW n \in 1..Len(ds.rows),
           Indexed(index, ds, n - 1), Key \in ds.headers,
           KeyAt(ds, n) # Blank, KeyAt(ds, n) \notin DOMAIN index
    PROVE  Indexed(Extended(index, ds.rows[n]), ds, n)
<1> DEFINE x == Extended(index, ds.rows[n])
           k == KeyAt(ds, n)
<1>1. n \in Nat /\ n - 1 \in Nat /\ Len(ds.rows) \in Nat
  BY SnapshotType
<1>2. x = [j \in DOMAIN index \cup {k} |-> IF j = k THEN ds.rows[n] ELSE index[j]]
  BY DEF Extended, KeyOf, KeyAt
<1>3. k \in Texts
  BY SnapshotType
<1> HIDE DEF x, k
<1>4. DOMAIN x = DOMAIN index \cup {k} /\ x[k] = ds.rows[n]
      /\ \A j \in DOMAIN index : j # k => x[j] = index[j]
  BY <1>2
<1>5. \A i \in 1..n : i \in 1..n - 1 \/ i = n
  BY <1>1
<1>6. DOMAIN x = {KeyAt(ds, i) : i \in 1..n}
  BY <1>1, <1>4, <1>5 DEF Indexed, k
<1>7. IsFiniteSet(DOMAIN x) /\ Cardinality(DOMAIN x) = n
  <2>1. IsFiniteSet(DOMAIN index) /\ Cardinality(DOMAIN index) = n - 1
    BY DEF Indexed
  <2>2. k \notin DOMAIN index
    BY DEF k
  <2>3. /\ IsFiniteSet(DOMAIN index \cup {k})
        /\ Cardinality(DOMAIN index \cup {k}) = Cardinality(DOMAIN index) + 1
    BY <2>1, <2>2, FS_AddElement
  <2>4. QED
    BY <1>1, <1>4, <2>1, <2>3
<1>8. \A i \in 1..n - 1 : KeyAt(ds, i) \in DOMAIN index /\ KeyAt(ds, i) # k
  BY DEF Indexed, k
<1>9. \A i \in 1..n : KeyAt(ds, i) # Blank /\ x[KeyAt(ds, i)] = ds.rows[i]
  BY <1>1, <1>4, <1>5, <1>8 DEF Indexed, k
<1>10. \A i, j \in 1..n : KeyAt(ds, i) = KeyAt(ds, j) => i = j
  BY <1>1, <1>5, <1>8 DEF Indexed, k
<1>11. QED
  BY <1>1, <1>3, <1>4, <1>6, <1>7, <1>9, <1>10 DEF Indexed, x

(* A snapshot that is indexed as a whole is comparable.                     *)
LEMMA WholeComparable ==
    ASSUME NEW ds \in Versions, NEW index, Whole(index, ds)
    PROVE  Comparable(ds) /\ KeysOf(ds) = DOMAIN index
<1>1. Key \in ds.headers /\ KeysOf(ds) = DOMAIN index
  BY DEF Whole, Indexed, KeysOf, KeyOf, KeyAt
<1>2. Blank \notin KeysOf(ds)
  BY DEF Whole, Indexed, KeysOf, KeyOf, KeyAt
<1>3. ASSUME NEW k \in KeysOf(ds) PROVE Cardinality(RowsWith(ds, k)) = 1
  <2>1. PICK i \in 1..Len(ds.rows) : k = KeyAt(ds, i)
    BY DEF KeysOf, KeyOf, KeyAt
  <2>2. RowsWith(ds, k) = {i}
    BY <2>1 DEF Whole, Indexed, RowsWith, KeyOf, KeyAt
  <2>3. QED
    BY <2>2, FS_Singleton
<1>4. QED
  BY <1>1, <1>2, <1>3 DEF Comparable

(* Two rows under one key make a snapshot incomparable.                     *)
LEMMA RepeatedKey ==
    ASSUME NEW ds \in Versions, NEW i \in 1..Len(ds.rows),
           NEW j \in 1..Len(ds.rows), i # j, KeyAt(ds, i) = KeyAt(ds, j)
    PROVE  ~ Comparable(ds)
<1> DEFINE k == KeyAt(ds, i)
           S == RowsWith(ds, k)
<1>1. S \subseteq 1..Len(ds.rows) /\ i \in S /\ j \in S /\ k \in KeysOf(ds)
  BY DEF RowsWith, KeysOf, KeyOf, KeyAt
<1>2. IsFiniteSet(S)
  <2>1. Len(ds.rows) \in Nat
    BY SnapshotType
  <2>2. IsFiniteSet(1..Len(ds.rows))
    BY <2>1, FS_Interval
  <2>3. QED
    BY <1>1, <2>2, FS_Subset
<1>3. Cardinality(S) # 1
  BY <1>1, <1>2, FS_Singleton
<1>4. QED
  BY <1>1, <1>3 DEF Comparable

(* Where IndexRow refuses a row, the snapshot is incomparable.              *)
LEMMA RowRefused ==
    ASSUME NEW ds \in Versions, NEW index, NEW n \in 1..Len(ds.rows),
           Indexed(index, ds, n - 1),
           Key \notin ds.headers \/ KeyAt(ds, n) = Blank \/ KeyAt(ds, n) \in DOMAIN index
    PROVE  ~ Comparable(ds)
<1>1. CASE Key \notin ds.headers
  BY <1>1 DEF Comparable
<1>2. CASE KeyAt(ds, n) = Blank
  BY <1>2 DEF Comparable, KeysOf, KeyOf, KeyAt
<1>3. CASE KeyAt(ds, n) \in DOMAIN index
  <2>1. Len(ds.rows) \in Nat
    BY SnapshotType
  <2>2. PICK i \in 1..n - 1 : KeyAt(ds, n) = KeyAt(ds, i)
    BY <1>3 DEF Indexed
  <2>3. i \in 1..Len(ds.rows) /\ i # n
    BY <2>1, <2>2
  <2>4. QED
    BY <2>2, <2>3, RepeatedKey
<1>4. QED
  BY <1>1, <1>2, <1>3

(* In a snapshot indexed as a whole, one row has a given key.               *)
LEMMA RowOf ==
    ASSUME NEW ds, NEW index, Whole(index, ds), NEW k \in DOMAIN index
    PROVE  \E i \in 1..Len(ds.rows) : RowsWith(ds, k) = {i} /\ index[k] = ds.rows[i]
<1>1. PICK i \in 1..Len(ds.rows) : k = KeyAt(ds, i)
  BY DEF Whole, Indexed
<1>2. \A j \in 1..Len(ds.rows) : KeyAt(ds, j) = k => j = i
  BY <1>1 DEF Whole, Indexed
<1>3. RowsWith(ds, k) = {i}
  BY <1>1, <1>2 DEF RowsWith, KeyOf, KeyAt
<1>4. QED
  BY <1>1, <1>3 DEF Whole, Indexed

(* Adding k to a finite set adds it to what the set has in common with S.   *)
LEMMA OneMore ==
    ASSUME NEW A, IsFiniteSet(A), NEW k, k \notin A, NEW S
    PROVE  /\ Cardinality(A \cap S) \in Nat
           /\ k \in S => Cardinality((A \cup {k}) \cap S) = Cardinality(A \cap S) + 1
           /\ k \notin S => Cardinality((A \cup {k}) \cap S) = Cardinality(A \cap S)
<1>1. IsFiniteSet(A \cap S) /\ k \notin A \cap S
  BY FS_Subset
<1>2. Cardinality(A \cap S) \in Nat
  BY <1>1, FS_CardinalityType
<1>3. ASSUME k \in S PROVE Cardinality((A \cup {k}) \cap S) = Cardinality(A \cap S) + 1
  <2>1. (A \cup {k}) \cap S = (A \cap S) \cup {k}
    BY <1>3
  <2>2. QED
    BY <1>1, <2>1, FS_AddElement
<1>4. ASSUME k \notin S PROVE Cardinality((A \cup {k}) \cap S) = Cardinality(A \cap S)
  <2>1. (A \cup {k}) \cap S = A \cap S
    BY <1>4
  <2>2. QED
    BY <2>1
<1>5. QED
  BY <1>2, <1>3, <1>4

LEMMA KindType ==
    ASSUME NEW k \in Keys
    PROVE  /\ Kind(k) \in Kinds
           /\ Kind(k) = "added" => k \notin DOMAIN old /\ k \in DOMAIN new
           /\ Kind(k) = "removed" => k \in DOMAIN old /\ k \notin DOMAIN new
           /\ Kind(k) \in {"changed", "unchanged"} => k \in DOMAIN old /\ k \in DOMAIN new
  BY DEF Keys, Kind, Kinds

----------------------------------------------------------------------------
(* The steps *)

LEMMA ComparisonBegins ==
    ASSUME ComparisonInit PROVE CInv
<1> USE DEF ComparisonInit
<1>1. Len(before.rows) \in Nat /\ DOMAIN Empty = {} /\ MaxFindings \in Nat
  BY SnapshotType, SnapshotConstants DEF Empty
<1>2. ComparisonTypeOK
  BY <1>1 DEF ComparisonTypeOK
<1>3. Indexes
  <2>1. Indexed(old, before, next - 1)
    BY EmptyIndex
  <2>2. QED
    BY <1>1, <2>1 DEF Indexes
<1>4. Counted
  <2>1. counts \in [Kinds -> Nat] /\ changesKept \in Seq(Finding)
    OBVIOUS
  <2>2. QED
    BY <2>1 DEF Counted
<1>5. QED
  BY <1>2, <1>3, <1>4 DEF CInv

LEMMA StepIndexOld ==
    ASSUME CInv, IndexOld PROVE CInv'
<1> USE DEF CInv, IndexOld
<1>1. /\ comparing = "old" /\ before' = before /\ after' = after /\ before \in Versions
      /\ next \in 1..Len(before.rows) + 1 /\ Indexed(old, before, next - 1) /\ new = Empty
      /\ Len(before.rows) \in Nat
  BY SnapshotType DEF Indexes
<1>2. CASE next <= Len(before.rows)
  <2>1. next \in 1..Len(before.rows) /\ IndexRow(before, old) /\ next \in Nat
    BY <1>1, <1>2
  <2>2. CASE Key \notin before.headers \/ KeyAt(before, next) = Blank
             \/ KeyAt(before, next) \in DOMAIN old
    <3>1. comparing' = "refused" /\ UNCHANGED <<next, old, new>>
      BY <2>1, <2>2 DEF IndexRow, Matches, KeyOf, KeyAt
    <3>2. ~ Comparable(before)
      BY <1>1, <2>1, <2>2, RowRefused
    <3>3. Indexes'
      BY <1>1, <3>1, <3>2 DEF Indexes
    <3>4. ComparisonTypeOK' /\ Counted'
      BY <1>1, <3>1 DEF ComparisonTypeOK, Counted
    <3>5. QED
      BY <3>3, <3>4
  <2>3. CASE ~ (Key \notin before.headers \/ KeyAt(before, next) = Blank
                \/ KeyAt(before, next) \in DOMAIN old)
    <3>1. /\ next' = next + 1 /\ comparing' = comparing /\ new' = new
          /\ old' = Extended(old, before.rows[next])
      BY <1>1, <2>1, <2>3 DEF IndexRow, Matches, KeyOf, KeyAt
    <3>2. Indexed(old', before, next)
      BY <1>1, <2>1, <2>3, <3>1, IndexExtended
    <3>3. next' - 1 = next /\ next' \in 1..Len(before.rows) + 1
      BY <1>1, <2>1, <3>1
    <3>4. Indexes'
      BY <1>1, <3>1, <3>2, <3>3 DEF Indexes
    <3>5. ComparisonTypeOK'
      BY <1>1, <2>1, <3>1, <3>2 DEF ComparisonTypeOK, Indexed
    <3>6. Counted'
      BY <1>1, <3>1 DEF Counted
    <3>7. QED
      BY <3>4, <3>5, <3>6
  <2>4. QED
    BY <2>2, <2>3
<1>3. CASE ~ (next <= Len(before.rows))
  <2>1. /\ next' = 1 /\ old' = old /\ new' = new
        /\ comparing' = IF Key \in before.headers THEN "new" ELSE "refused"
        /\ next - 1 = Len(before.rows)
    BY <1>1, <1>3
  <2>2. ComparisonTypeOK'
    BY <1>1, <2>1 DEF ComparisonTypeOK
  <2>3. Counted'
    BY <1>1, <2>1 DEF Counted
  <2>4. CASE Key \notin before.headers
    <3>1. ~ Comparable(before)
      BY <2>4 DEF Comparable
    <3>2. Indexes'
      BY <1>1, <2>1, <2>4, <3>1 DEF Indexes
    <3>3. QED
      BY <2>2, <2>3, <3>2
  <2>5. CASE Key \in before.headers
    <3>1. Whole(old, before)
      BY <1>1, <2>1, <2>5 DEF Whole
    <3>2. after \in Versions /\ Len(after.rows) \in Nat /\ Indexed(new, after, 0)
      BY <1>1, EmptyIndex, SnapshotType DEF Indexes
    <3>3. Indexes'
      BY <1>1, <2>1, <2>5, <3>1, <3>2 DEF Indexes
    <3>4. QED
      BY <2>2, <2>3, <3>3
  <2>6. QED
    BY <2>4, <2>5
<1>4. QED
  BY <1>2, <1>3

LEMMA StepIndexNew ==
    ASSUME CInv, IndexNew PROVE CInv'
<1> USE DEF CInv, IndexNew
<1>1. /\ comparing = "new" /\ before' = before /\ after' = after /\ after \in Versions
      /\ next \in 1..Len(after.rows) + 1 /\ Whole(old, before) /\ Indexed(new, after, next - 1)
      /\ Len(after.rows) \in Nat /\ MaxFindings \in Nat
  BY SnapshotType, SnapshotConstants DEF Indexes
<1>2. CASE next <= Len(after.rows)
  <2>1. next \in 1..Len(after.rows) /\ IndexRow(after, new) /\ pending' = pending
    BY <1>1, <1>2
  <2>2. CASE Key \notin after.headers \/ KeyAt(after, next) = Blank
             \/ KeyAt(after, next) \in DOMAIN new
    <3>1. comparing' = "refused" /\ UNCHANGED <<next, old, new>>
      BY <2>1, <2>2 DEF IndexRow, Matches, KeyOf, KeyAt
    <3>2. ~ Comparable(after)
      BY <1>1, <2>1, <2>2, RowRefused
    <3>3. Indexes'
      BY <1>1, <3>1, <3>2 DEF Indexes
    <3>4. ComparisonTypeOK' /\ Counted'
      BY <1>1, <2>1, <3>1 DEF ComparisonTypeOK, Counted
    <3>5. QED
      BY <3>3, <3>4
  <2>3. CASE ~ (Key \notin after.headers \/ KeyAt(after, next) = Blank
                \/ KeyAt(after, next) \in DOMAIN new)
    <3>1. /\ next' = next + 1 /\ comparing' = comparing /\ old' = old
          /\ new' = Extended(new, after.rows[next])
      BY <1>1, <2>1, <2>3 DEF IndexRow, Matches, KeyOf, KeyAt
    <3>2. Indexed(new', after, next)
      BY <1>1, <2>1, <2>3, <3>1, IndexExtended
    <3>3. next' - 1 = next /\ next' \in 1..Len(after.rows) + 1
      BY <1>1, <2>1, <3>1
    <3>4. Indexes'
      BY <1>1, <3>1, <3>2, <3>3 DEF Indexes
    <3>5. ComparisonTypeOK'
      BY <1>1, <2>1, <3>1, <3>2 DEF ComparisonTypeOK, Indexed
    <3>6. Counted'
      BY <1>1, <2>1, <3>1 DEF Counted
    <3>7. QED
      BY <3>4, <3>5, <3>6
  <2>4. QED
    BY <2>2, <2>3
<1>3. CASE ~ (next <= Len(after.rows))
  <2>1. /\ next' = next /\ old' = old /\ new' = new
        /\ pending' = Keys /\ counts' = counts /\ changesKept' = changesKept
        /\ comparing' = IF Key \in after.headers THEN "compare" ELSE "refused"
        /\ next - 1 = Len(after.rows)
    BY <1>1, <1>3 DEF Keys
  <2>2. ComparisonTypeOK'
    BY <1>1, <2>1 DEF ComparisonTypeOK, Keys
  <2>3. CASE Key \notin after.headers
    <3>1. ~ Comparable(after)
      BY <2>3 DEF Comparable
    <3>2. Indexes'
      BY <1>1, <2>1, <2>3, <3>1 DEF Indexes
    <3>3. Counted'
      BY <1>1, <2>1, <2>3 DEF Counted
    <3>4. QED
      BY <2>2, <3>2, <3>3
  <2>4. CASE Key \in after.headers
    <3>1. Whole(new, after)
      BY <1>1, <2>1, <2>4 DEF Whole
    <3>2. Indexes'
      BY <1>1, <2>1, <2>4, <3>1 DEF Indexes
    <3>3. pending' = Keys' /\ Compared' = {}
      BY <2>1 DEF Keys, Compared
    <3>4. /\ Cardinality((Compared \cap DOMAIN new)') = 0
          /\ Cardinality((Compared \cap DOMAIN old)') = 0
          /\ Cardinality((Compared \cap Differing)') = 0
      BY <3>3, FS_EmptySet
    <3>5. counts = [kind \in Kinds |-> 0] /\ changesKept = <<>> /\ Len(changesKept) = 0
      BY <1>1 DEF Counted
    <3>6. TotalChanges' = 0 /\ counts'["unchanged"] = 0 /\ counts'["added"] = 0
          /\ counts'["changed"] = 0 /\ counts'["removed"] = 0
      BY <2>1, <3>5 DEF TotalChanges, Kinds
    <3>7. Counted'
      BY <1>1, <2>1, <2>4, <3>3, <3>4, <3>5, <3>6 DEF Counted
    <3>8. QED
      BY <2>2, <3>2, <3>7
  <2>5. QED
    BY <2>3, <2>4
<1>4. QED
  BY <1>2, <1>3

(* The fields a finding names are columns.                                  *)
LEMMA FieldsAreColumns ==
    ASSUME Indexes, NEW k
    PROVE  FieldsOf(k) \subseteq Columns
<1>1. before.headers \subseteq Columns /\ after.headers \subseteq Columns
  BY SnapshotType DEF Indexes
<1>2. QED
  BY <1>1 DEF FieldsOf, Fields, Shared

LEMMA StepCompare ==
    ASSUME CInv, Compare PROVE CInv'
<1> USE DEF CInv
<1>1. /\ comparing = "compare" /\ UNCHANGED <<before, after, comparing, next, old, new>>
      /\ MaxFindings \in Nat /\ Texts \subseteq Nat
  BY SnapshotConstants DEF Compare
<1>2. PICK k \in pending :
          /\ \A other \in pending : k <= other
          /\ pending' = pending \ {k}
          /\ counts' = [counts EXCEPT ![Kind(k)] = @ + 1]
          /\ changesKept' = IF Kind(k) # "unchanged" /\ RoomLeft
                         THEN Append(changesKept, [kind |-> Kind(k), key |-> k,
                                                fields |-> FieldsOf(k)])
                         ELSE changesKept
  BY DEF Compare
<1>3. Whole(old, before) /\ Whole(new, after)
  BY <1>1 DEF Indexes
<1>4. /\ pending \subseteq Keys /\ Keys \subseteq Nat /\ Keys \subseteq Texts
      /\ \A j \in Compared, p \in pending : j < p
  BY <1>1, <1>3 DEF Keys, Counted, Whole, Indexed
<1>5. Keys' = Keys /\ Differing' = Differing
  BY <1>1 DEF Keys, Differing, Kind, Fields, Shared
<1>6. Compared' = Compared \cup {k} /\ k \notin Compared /\ k \in Keys
  BY <1>2, <1>4, <1>5 DEF Compared
<1>7. IsFiniteSet(Compared)
  <2>1. IsFiniteSet(DOMAIN old) /\ IsFiniteSet(DOMAIN new)
    BY <1>3 DEF Whole, Indexed
  <2>2. IsFiniteSet(Keys)
    BY <2>1, FS_Union DEF Keys
  <2>3. QED
    BY <2>2, FS_Subset DEF Compared
<1>8. \A j \in Compared', p \in pending' : j < p
  BY <1>2, <1>4, <1>6
<1>9. /\ counts \in [Kinds -> Nat] /\ Kind(k) \in Kinds
      /\ counts' \in [Kinds -> Nat]
      /\ counts'[Kind(k)] = counts[Kind(k)] + 1
      /\ \A kind \in Kinds : kind # Kind(k) => counts'[kind] = counts[kind]
  <2>1. counts \in [Kinds -> Nat] /\ Kind(k) \in Kinds
    BY <1>6, KindType DEF Counted
  <2>2. QED
    BY <1>2, <2>1
<1>10. {"added", "removed", "changed", "unchanged"} = Kinds
  BY DEF Kinds
<1>11. /\ counts["added"] + counts["changed"] + counts["unchanged"]
             = Cardinality(Compared \cap DOMAIN new)
       /\ counts["removed"] + counts["changed"] + counts["unchanged"]
             = Cardinality(Compared \cap DOMAIN old)
       /\ TotalChanges = Cardinality(Compared \cap Differing)
       /\ TotalChanges = counts["added"] + counts["removed"] + counts["changed"]
       /\ TotalChanges' = counts'["added"] + counts'["removed"] + counts'["changed"]
  BY <1>1 DEF Counted, TotalChanges
<1>12. counts'["added"] + counts'["changed"] + counts'["unchanged"]
          = Cardinality(Compared' \cap DOMAIN new)
  <2>1. /\ k \in DOMAIN new <=> Kind(k) # "removed"
    BY <1>6, KindType, <1>9, <1>10
  <2>2. /\ Kind(k) # "removed" => Cardinality(Compared' \cap DOMAIN new)
                                       = Cardinality(Compared \cap DOMAIN new) + 1
        /\ Kind(k) = "removed" => Cardinality(Compared' \cap DOMAIN new)
                                       = Cardinality(Compared \cap DOMAIN new)
    BY <1>6, <1>7, <2>1, OneMore
  <2>3. QED
    BY <1>9, <1>10, <1>11, <2>2
<1>13. counts'["removed"] + counts'["changed"] + counts'["unchanged"]
          = Cardinality(Compared' \cap DOMAIN old)
  <2>1. /\ k \in DOMAIN old <=> Kind(k) # "added"
    BY <1>6, KindType, <1>9, <1>10
  <2>2. /\ Kind(k) # "added" => Cardinality(Compared' \cap DOMAIN old)
                                     = Cardinality(Compared \cap DOMAIN old) + 1
        /\ Kind(k) = "added" => Cardinality(Compared' \cap DOMAIN old)
                                     = Cardinality(Compared \cap DOMAIN old)
    BY <1>6, <1>7, <2>1, OneMore
  <2>3. QED
    BY <1>9, <1>10, <1>11, <2>2
<1>14. /\ Kind(k) # "unchanged" <=> k \in Differing
       /\ Kind(k) # "unchanged" => TotalChanges' = TotalChanges + 1
       /\ Kind(k) = "unchanged" => TotalChanges' = TotalChanges
       /\ TotalChanges \in Nat
       /\ TotalChanges' = Cardinality(Compared' \cap Differing)
  <2>1. Kind(k) # "unchanged" <=> k \in Differing
    BY <1>6 DEF Differing
  <2>2. /\ Kind(k) # "unchanged" => Cardinality(Compared' \cap Differing)
                                         = Cardinality(Compared \cap Differing) + 1
        /\ Kind(k) = "unchanged" => Cardinality(Compared' \cap Differing)
                                         = Cardinality(Compared \cap Differing)
    BY <1>6, <1>7, <2>1, OneMore
  <2>3. /\ Kind(k) # "unchanged" => TotalChanges' = TotalChanges + 1
        /\ Kind(k) = "unchanged" => TotalChanges' = TotalChanges
        /\ TotalChanges \in Nat
    BY <1>9, <1>10, <1>11
  <2>4. QED
    BY <1>11, <2>1, <2>2, <2>3
<1>15. {j \in Differing : j < k} = Compared \cap Differing
  <2>1. Differing \subseteq Keys
    BY DEF Differing
  <2>2. \A j \in Keys : j < k <=> j \in Compared
    BY <1>2, <1>4, <1>6 DEF Compared
  <2>3. QED
    BY <2>1, <2>2
<1>16. /\ changesKept \in Seq(Finding) /\ Len(changesKept) \in Nat
       /\ Len(changesKept) = IF TotalChanges < MaxFindings THEN TotalChanges ELSE MaxFindings
       /\ \A i \in 1..Len(changesKept) :
             /\ changesKept[i].key \in Differing
             /\ Cardinality({j \in Differing : j < changesKept[i].key}) = i - 1
  BY <1>1 DEF Counted
<1>17. /\ changesKept' \in Seq(Finding)
       /\ Len(changesKept') = IF TotalChanges' < MaxFindings THEN TotalChanges' ELSE MaxFindings
       /\ \A i \in 1..Len(changesKept') :
             /\ changesKept'[i].key \in Differing
             /\ Cardinality({j \in Differing : j < changesKept'[i].key}) = i - 1
  <2>1. CASE Kind(k) # "unchanged" /\ RoomLeft
    <3> DEFINE f == [kind |-> Kind(k), key |-> k, fields |-> FieldsOf(k)]
    <3>1. f \in Finding
      BY <1>4, <1>6, <1>9, FieldsAreColumns DEF Finding
    <3>2. f.key = k /\ changesKept' = Append(changesKept, f)
      BY <1>2, <2>1
    <3> HIDE DEF f
    <3>3. /\ changesKept' \in Seq(Finding) /\ Len(changesKept') = Len(changesKept) + 1
          /\ changesKept'[Len(changesKept) + 1] = f
          /\ \A i \in 1..Len(changesKept) : changesKept'[i] = changesKept[i]
      BY <1>16, <3>1, <3>2
    <3>4. Len(changesKept) = TotalChanges /\ TotalChanges < MaxFindings
      BY <1>1, <1>14, <1>16, <2>1 DEF RoomLeft
    <3>5. Len(changesKept') = IF TotalChanges' < MaxFindings THEN TotalChanges' ELSE MaxFindings
      BY <1>1, <1>14, <2>1, <3>3, <3>4
    <3>6. k \in Differing /\ Cardinality({j \in Differing : j < k}) = Len(changesKept)
      BY <1>11, <1>14, <1>15, <2>1, <3>4
    <3>7. ASSUME NEW i \in 1..Len(changesKept')
          PROVE  /\ changesKept'[i].key \in Differing
                 /\ Cardinality({j \in Differing : j < changesKept'[i].key}) = i - 1
      <4>1. i \in 1..Len(changesKept) \/ (i = Len(changesKept) + 1 /\ i - 1 = Len(changesKept))
        BY <1>16, <3>3
      <4>2. CASE i \in 1..Len(changesKept)
        BY <1>16, <3>3, <4>2
      <4>3. CASE i = Len(changesKept) + 1 /\ i - 1 = Len(changesKept)
        BY <3>2, <3>3, <3>6, <4>3
      <4>4. QED
        BY <4>1, <4>2, <4>3
    <3>8. QED
      BY <3>3, <3>5, <3>7
  <2>2. CASE ~ (Kind(k) # "unchanged" /\ RoomLeft)
    <3>1. changesKept' = changesKept
      BY <1>2, <2>2
    <3>2. Len(changesKept) = IF TotalChanges' < MaxFindings THEN TotalChanges' ELSE MaxFindings
      BY <1>1, <1>14, <1>16, <2>2 DEF RoomLeft
    <3>3. QED
      BY <1>16, <3>1, <3>2
  <2>3. QED
    BY <2>1, <2>2
<1>18. pending' \subseteq Keys' /\ pending' \subseteq Texts
  BY <1>2, <1>4, <1>5
<1>19. Counted'
  BY <1>1, <1>5, <1>8, <1>9, <1>12, <1>13, <1>14, <1>17, <1>18 DEF Counted
<1>20. Len(changesKept') <= MaxFindings
  BY <1>1, <1>14, <1>17, <1>9, <1>10
<1>21. ComparisonTypeOK'
  BY <1>1, <1>9, <1>18, <1>20 DEF ComparisonTypeOK
<1>22. Indexes'
  BY <1>1 DEF Indexes
<1>23. QED
  BY <1>19, <1>21, <1>22

LEMMA StepFinish ==
    ASSUME CInv, ComparisonEnds PROVE CInv'
<1> USE DEF CInv, ComparisonEnds
<1>1. Differing' = Differing /\ Compared' = Compared /\ Keys' = Keys
      /\ TotalChanges' = TotalChanges
  BY DEF Keys, Compared, Differing, Kind, Fields, Shared, TotalChanges
<1>2. Indexes' /\ ComparisonTypeOK'
  BY DEF Indexes, ComparisonTypeOK
<1>3. Counted'
  BY <1>1 DEF Counted
<1>4. QED
  BY <1>2, <1>3

(* Nothing but the steps of compare changes what CInv speaks of.            *)
LEMMA ComparisonStutter ==
    ASSUME CInv, UNCHANGED comparison PROVE CInv'
<1> USE DEF CInv, comparison
<1>1. Differing' = Differing /\ Compared' = Compared /\ Keys' = Keys
      /\ TotalChanges' = TotalChanges
  BY DEF Keys, Compared, Differing, Kind, Fields, Shared, TotalChanges
<1>2. Indexes' /\ ComparisonTypeOK'
  BY DEF Indexes, ComparisonTypeOK
<1>3. Counted'
  BY <1>1 DEF Counted
<1>4. QED
  BY <1>2, <1>3

(* The invariant of compare and _index of opscheck/core.py, whatever the    *)
(* snapshots, the key column and the cap on findings.                       *)
THEOREM ComparisonInvariance == ComparisonSpec => []CInv
<1>1. ComparisonInit => CInv
  BY ComparisonBegins
<1>2. CInv /\ [ComparisonNext]_comparison => CInv'
  BY StepIndexOld, StepIndexNew, StepCompare, StepFinish, ComparisonStutter DEF ComparisonNext
<1>3. QED
  BY <1>1, <1>2, PTL DEF ComparisonSpec

----------------------------------------------------------------------------
(* What the invariant says of a result *)

(* The keys indexed as differing are those of rows that do.                 *)
LEMMA ChangedIndexed ==
    ASSUME Indexes, Whole(old, before), Whole(new, after)
    PROVE  Changed = Differing
<1>1. /\ before \in Versions /\ after \in Versions
      /\ KeysOf(before) = DOMAIN old /\ KeysOf(after) = DOMAIN new
  BY WholeComparable DEF Indexes
<1>2. before.headers \subseteq Columns /\ after.headers \subseteq Columns
  BY <1>1, SnapshotType
<1>3. ASSUME NEW k \in DOMAIN old \cap DOMAIN new
      PROVE  Differs(k) <=> Kind(k) # "unchanged"
  <2>1. PICK i \in 1..Len(before.rows) : RowsWith(before, k) = {i} /\ old[k] = before.rows[i]
    BY <1>3, RowOf
  <2>2. PICK j \in 1..Len(after.rows) : RowsWith(after, k) = {j} /\ new[k] = after.rows[j]
    BY <1>3, RowOf
  <2>3. Differs(k) <=> \E c \in Columns \ {Key} : c \in before.headers \cap after.headers
                                                     /\ old[k][c] # new[k][c]
    BY <2>1, <2>2 DEF Differs
  <2>4. Fields(k) # {} <=> \E c \in Columns \ {Key} : c \in before.headers \cap after.headers
                                                         /\ old[k][c] # new[k][c]
    BY <1>2 DEF Fields, Shared
  <2>5. Kind(k) # "unchanged" <=> Fields(k) # {}
    BY <1>3 DEF Kind
  <2>6. QED
    BY <2>3, <2>4, <2>5
<1>4. ASSUME NEW k \in Keys, k \notin DOMAIN old \/ k \notin DOMAIN new
      PROVE  Kind(k) # "unchanged"
  BY <1>4 DEF Kind, Keys
<1>5. Changed = {k \in Keys : k \in DOMAIN old /\ k \in DOMAIN new => Differs(k)}
  BY <1>1 DEF Changed, Keys
<1>6. \A k \in Keys : (k \in DOMAIN old /\ k \in DOMAIN new => Differs(k))
                      <=> Kind(k) # "unchanged"
  BY <1>3, <1>4
<1>7. QED
  BY <1>5, <1>6 DEF Differing

LEMMA ExactAtRest ==
    ASSUME CInv PROVE ComparedExactly
<1> USE DEF CInv
<1>1. ASSUME comparing = "done"
      PROVE  /\ Whole(old, before) /\ Whole(new, after)
             /\ Compared = Keys /\ Keys \cap DOMAIN old = DOMAIN old
             /\ Keys \cap DOMAIN new = DOMAIN new /\ Keys \cap Differing = Differing
  <2>1. Whole(old, before) /\ Whole(new, after) /\ pending = {}
    BY <1>1 DEF Indexes, Counted
  <2>2. QED
    BY <2>1 DEF Compared, Keys, Differing
<1>2. RefusalExact
  <2>1. comparing = "done" => Comparable(before) /\ Comparable(after)
    BY <1>1, WholeComparable DEF Indexes
  <2>2. QED
    BY <2>1 DEF RefusalExact, Indexes
<1>3. RowsAccounted
  <2>1. ASSUME comparing = "done"
        PROVE  /\ Cardinality(DOMAIN old) = Len(before.rows)
               /\ Cardinality(DOMAIN new) = Len(after.rows)
    BY <1>1, <2>1 DEF Whole, Indexed
  <2>2. QED
    BY <1>1, <2>1 DEF RowsAccounted, Counted
<1>4. FindingsFirst
  <2> SUFFICES ASSUME comparing = "done"
               PROVE  /\ TotalChanges = Cardinality(Changed)
                      /\ Len(changesKept) = IF TotalChanges < MaxFindings
                                         THEN TotalChanges ELSE MaxFindings
                      /\ \A i \in 1..Len(changesKept) :
                            /\ Cardinality({k \in Changed : k < changesKept[i].key}) = i - 1
                            /\ changesKept[i].key \in Changed
                      /\ Unchanged => Changed = {}
    BY DEF FindingsFirst
  <2>1. Changed = Differing
    BY <1>1, ChangedIndexed
  <2>2. TotalChanges = Cardinality(Differing)
    BY <1>1 DEF Counted
  <2>3. /\ Len(changesKept) = IF TotalChanges < MaxFindings THEN TotalChanges ELSE MaxFindings
        /\ \A i \in 1..Len(changesKept) :
              /\ changesKept[i].key \in Differing
              /\ Cardinality({k \in Differing : k < changesKept[i].key}) = i - 1
    BY DEF Counted
  <2>4. IsFiniteSet(Differing)
    <3>1. IsFiniteSet(DOMAIN old) /\ IsFiniteSet(DOMAIN new)
      BY <1>1 DEF Whole, Indexed
    <3>2. IsFiniteSet(Keys)
      BY <3>1, FS_Union DEF Keys
    <3>3. QED
      BY <3>2, FS_Subset DEF Differing
  <2>5. Unchanged => Differing = {}
    BY <2>2, <2>4, FS_EmptySet DEF Unchanged
  <2>6. QED
    BY <2>1, <2>2, <2>3, <2>5
<1>5. QED
  BY <1>2, <1>3, <1>4 DEF ComparedExactly

(* compare refuses two snapshots exactly if one of them has no key column,  *)
(* a blank key or, once trimmed, a repeated one; otherwise it counts every  *)
(* row of both once, calls changed the keys whose rows really differ, and   *)
(* keeps the first of them: for every pair of snapshots and every cap.      *)
THEOREM AlwaysComparedExactly == ComparisonSpec => []ComparedExactly
<1>1. CInv => ComparedExactly
  BY ExactAtRest
<1>2. QED
  BY <1>1, ComparisonInvariance, PTL
=============================================================================
