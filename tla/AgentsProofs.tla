---------------------------- MODULE AgentsProofs ----------------------------
(***************************************************************************)
(* What modules Briefing and Evidence promise of opscheck/agents.py holds  *)
(* for any findings, sizes and limits, and for any models, replies, rounds *)
(* and attempts.                                                           *)
(***************************************************************************)
EXTENDS Evidence, Briefing, SequenceTheorems, FiniteSetTheorems, WellFoundedInduction, TLAPS

Entries == [id : Numbers, finding : Finding]

----------------------------------------------------------------------------
(* The size of the evidence *)

Below == {ss \in Nat \X Nat : ss[1] < ss[2]}

(* A set of numbers has a least one: what replaces induction below.         *)
LEMMA LeastNumber ==
    ASSUME NEW S \in SUBSET Nat, S # {}
    PROVE  \E n \in S : \A m \in S : n <= m
<1>1. IsWellFoundedOn(Below, Nat)
  BY NatLessThanWellFounded, Zenon DEF OpToRel, Below
<1>2. PICK n \in S : \A m \in S : <<m, n>> \notin Below
  BY <1>1, WFMin
<1>3. \A m \in S : m \in Nat /\ ~ (m < n)
  BY <1>2 DEF Below
<1>4. QED
  BY <1>3

(* the sizes of the prefixes of e                                           *)
IsSum(s, e) == s = [n \in 0..Len(e) |-> IF n = 0 THEN BaseSize ELSE s[n - 1] + e[n].finding.size]

(* The sums begin with the summaries and the note.                          *)
LEMMA SumBegins ==
    ASSUME NEW e, Len(e) \in Nat, NEW s, IsSum(s, e)
    PROVE  s[0] = BaseSize
<1> DEFINE F(m) == IF m = 0 THEN BaseSize ELSE s[m - 1] + e[m].finding.size
<1>1. s = [m \in 0..Len(e) |-> F(m)]
  BY DEF IsSum
<1>2. s[0] = F(0)
  <2> HIDE DEF F
  <2> QED
    BY <1>1
<1>3. QED
  BY <1>2

(* Each entry adds its size.                                                *)
LEMMA SumStep ==
    ASSUME NEW e, Len(e) \in Nat, NEW s, IsSum(s, e), NEW n \in 1..Len(e)
    PROVE  s[n] = s[n - 1] + e[n].finding.size
<1> DEFINE F(m) == IF m = 0 THEN BaseSize ELSE s[m - 1] + e[m].finding.size
<1>1. n \in 0..Len(e) /\ n # 0
  OBVIOUS
<1>2. s = [m \in 0..Len(e) |-> F(m)]
  BY DEF IsSum
<1>3. s[n] = F(n)
  <2> HIDE DEF F
  <2> QED
    BY <1>1, <1>2
<1>4. QED
  BY <1>1, <1>3

(* The sums of a prefix are those of the whole.                             *)
LEMMA SumUnique ==
    ASSUME NEW e, NEW d, Len(e) \in Nat, Len(d) \in Nat, Len(e) <= Len(d),
           \A n \in 1..Len(e) : d[n] = e[n],
           NEW s, NEW u, IsSum(s, e), IsSum(u, d)
    PROVE  \A n \in 0..Len(e) : s[n] = u[n]
<1> DEFINE bad == {n \in 0..Len(e) : s[n] # u[n]}
<1>1. SUFFICES ASSUME bad # {} PROVE FALSE
  OBVIOUS
<1>2. bad \in SUBSET Nat
  OBVIOUS
<1>3. PICK n \in bad : \A m \in bad : n <= m
  BY <1>1, <1>2, LeastNumber
<1>4. CASE n = 0
  BY <1>4, <1>3, SumBegins
<1>5. CASE n # 0
  <2>1. n - 1 \in 0..Len(e) /\ n - 1 \notin bad
    BY <1>3, <1>5
  <2>2. s[n - 1] = u[n - 1]
    BY <2>1
  <2>3. s[n] = s[n - 1] + e[n].finding.size /\ u[n] = u[n - 1] + d[n].finding.size
    BY <1>3, <1>5, SumStep
  <2>4. QED
    BY <2>2, <2>3, <1>3, <1>5
<1>6. QED
  BY <1>4, <1>5

(* Size is the last of the sums.                                            *)
LEMMA SizeIs ==
    ASSUME NEW e, NEW s, Len(e) \in Nat, IsSum(s, e)
    PROVE  Size(e) = s[Len(e)]
<1> DEFINE up == CHOOSE u : IsSum(u, e)
<1>1. IsSum(up, e)
  OBVIOUS
<1>2. Size(e) = up[Len(e)]
  BY DEF Size, IsSum
<1>3. QED
  BY <1>1, <1>2, SumUnique

(* Any evidence has sums.                                                   *)
LEMMA SumExists ==
    ASSUME NEW e \in Seq(Entries)
    PROVE  \E s : IsSum(s, e)
<1> DEFINE Prefix(n) == SubSeq(e, 1, n)
           bad == {n \in 0..Len(e) : ~ \E s : IsSum(s, Prefix(n))}
<1>0. Len(e) \in Nat
  OBVIOUS
<1>1. Prefix(Len(e)) = e /\ bad \in SUBSET Nat
  BY <1>0
<1>2. SUFFICES ASSUME bad # {} PROVE FALSE
  <2>1. Len(e) \in 0..Len(e)
    BY <1>0
  <2>2. ASSUME bad = {} PROVE \E s : IsSum(s, Prefix(Len(e)))
    BY <2>1, <2>2
  <2> HIDE DEF Prefix
  <2>3. QED
    BY <2>2, <1>1
<1>3. PICK n \in bad : \A m \in bad : n <= m
  <2> HIDE DEF bad
  <2> QED
    BY <1>1, <1>2, LeastNumber
<1>4. CASE n = 0
  <2>1. IsSum([m \in 0..0 |-> BaseSize], Prefix(0))
    BY DEF IsSum
  <2>2. QED
    BY <2>1, <1>3, <1>4
<1>5. CASE n # 0
  <2>1. n - 1 \in 0..Len(e) /\ n - 1 \notin bad
    BY <1>3, <1>5
  <2>2. PICK s : IsSum(s, Prefix(n - 1))
    BY <2>1
  <2> DEFINE u == [m \in 0..n |-> IF m = n THEN s[n - 1] + e[n].finding.size ELSE s[m]]
             p == Prefix(n - 1)
  <2>3. Len(p) = n - 1 /\ Len(Prefix(n)) = n
    BY <2>1, <1>3
  <2>4. /\ s[0] = BaseSize
        /\ \A m \in 1..n - 1 : s[m] = s[m - 1] + p[m].finding.size
    <3>1. Len(p) \in Nat /\ IsSum(s, p)
      BY <2>1, <2>2, <2>3
    <3> HIDE DEF p
    <3>2. QED
      BY <2>3, <3>1, SumBegins, SumStep
  <2>5. \A m \in 0..n : u[m] = IF m = 0 THEN BaseSize ELSE u[m - 1] + Prefix(n)[m].finding.size
    <3>1. TAKE m \in 0..n
    <3>2. CASE m = 0
      BY <3>2, <2>4, <1>5
    <3>3. CASE m # 0 /\ m # n
      <4>1. m \in 1..n - 1 /\ m - 1 \in 0..n /\ m - 1 # n
        BY <3>3, <1>3
      <4>2. p[m] = Prefix(n)[m]
        BY <4>1, <2>1, <1>3, <2>3
      <4>3. QED
        BY <3>3, <4>1, <4>2, <2>4
    <3>4. CASE m = n
      BY <3>4, <1>3, <1>5
    <3>5. QED
      BY <3>2, <3>3, <3>4
  <2>6. IsSum(u, Prefix(n))
    BY <2>3, <2>5 DEF IsSum
  <2>7. QED
    BY <2>6, <1>3
<1>6. QED
  BY <1>4, <1>5

(* Evidence without an entry has the base size.                             *)
LEMMA SizeOfNothing == Size(<<>>) = BaseSize
<1>1. <<>> \in Seq(Entries) /\ Len(<<>>) = 0
  OBVIOUS
<1>2. PICK s : IsSum(s, <<>>)
  BY <1>1, SumExists
<1>3. QED
  BY <1>1, <1>2, SizeIs, SumBegins

(* An entry more adds its size.                                             *)
LEMMA SizeOfLonger ==
    ASSUME NEW e \in Seq(Entries), NEW x \in Entries
    PROVE  Size(Append(e, x)) = Size(e) + x.finding.size
<1> DEFINE d == Append(e, x)
<1>1. PICK s : IsSum(s, e)
  BY SumExists
<1>2. d \in Seq(Entries)
  OBVIOUS
<1>3. PICK u : IsSum(u, d)
  BY <1>2, SumExists
<1>4. /\ Len(d) = Len(e) + 1 /\ Len(e) \in Nat /\ d[Len(d)] = x
      /\ \A n \in 1..Len(e) : d[n] = e[n]
  OBVIOUS
<1> HIDE DEF d
<1>5. s[Len(e)] = u[Len(e)]
  BY <1>1, <1>3, <1>4, SumUnique
<1>6. u[Len(d)] = u[Len(d) - 1] + x.finding.size
  BY <1>3, <1>4, SumStep
<1>7. Size(e) = s[Len(e)] /\ Size(d) = u[Len(d)]
  BY <1>1, <1>3, <1>4, SizeIs
<1>8. QED
  BY <1>4, <1>5, <1>6, <1>7 DEF d

----------------------------------------------------------------------------
(* What the loops of build_evidence keep *)

Total(findings, total) ==
    findings \in Seq(Finding) /\ total \in Nat /\ Len(findings) <= total

(* the place in which the change of the schema moves the others             *)
Offset == IF schema # Absent THEN 1 ELSE 0

(* Where the loops are.                                                     *)
Loops ==
    /\ Total(quality, qualityTotal) /\ Total(change, changeTotal) /\ schema \in Finding
    /\ evidence \in Seq(Entries) /\ trimmed \in BOOLEAN /\ applied \in BOOLEAN
    /\ phase \in {"quality", "schema", "change", "done"}
    /\ phase = "quality" => next \in 1..Considered(quality) + 1
    /\ phase = "schema" => next \in 1..MaxFindings + 1
    /\ phase \in {"change", "done"} => next \in 1..Considered(change) + 1
    /\ changeNumber = IF phase \in {"quality", "schema"} THEN 1 ELSE next + Offset

(* What was appended can still be measured, and leaves room for the         *)
(* counters.                                                                *)
Measured == Size(evidence) \in Nat /\ Size(evidence) <= MaxBytes - Reserve

(* the findings of validate that have been offered                          *)
QualityOffered == IF phase = "quality" THEN next - 1 ELSE Considered(quality)

(* The numbers given are of findings that have been offered.                *)
Given ==
    \A i \in 1..Len(evidence) :
        \/ /\ evidence[i].id[1] = "V"
           /\ evidence[i].id[2] \in 1..QualityOffered
        \/ /\ evidence[i].id[1] = "C" /\ phase \notin {"quality", "schema"}
           /\ evidence[i].id[2] \in 1..changeNumber - 1

(* What a number stands for is at its place, and no number is given twice.  *)
Placed ==
    /\ \A i \in 1..Len(evidence) :
          /\ evidence[i].id[1] = "V" => evidence[i].finding = quality[evidence[i].id[2]]
          /\ evidence[i].id[1] = "C" =>
                evidence[i].finding = IF evidence[i].id[2] = 1 /\ schema # Absent
                                      THEN schema ELSE change[evidence[i].id[2] - Offset]
    /\ \A i, j \in 1..Len(evidence) : evidence[i].id = evidence[j].id => i = j

QualityIncluded == Included("V")
ChangeIncluded == Included("C")

Shortened == \E i \in 1..Len(evidence) : evidence[i].finding.long

Missed ==
    \/ Shortened
    \/ QualityIncluded < QualityOffered
    \/ /\ phase \notin {"quality", "schema"}
       /\ \/ schema # Absent /\ ~ SchemaIncluded
          \/ ChangesIncluded < next - 1

(* trimmed is set exactly if something offered was left out or shortened.   *)
Sampled ==
    /\ QualityIncluded <= QualityOffered
    /\ phase \in {"quality", "schema"} => ChangeIncluded = 0
    /\ phase \notin {"quality", "schema"} => ChangesIncluded <= next - 1
    /\ Shortened => trimmed
    /\ trimmed => Missed

EInv == Loops /\ Measured /\ Given /\ Placed /\ Sampled /\ SampleDisclosed

(* No more findings are considered than there are, nor than the limit.      *)
LEMMA ConsideredBound ==
    ASSUME NEW findings, Len(findings) \in Nat
    PROVE  /\ Considered(findings) \in Nat
           /\ Considered(findings) <= Len(findings)
           /\ Considered(findings) <= MaxFindings
<1> DEFINE S == {Len(findings), MaxFindings}
<1>1. MaxFindings \in Nat
  BY EvidenceConstants
<1>2. \E x \in S : \A y \in S : x <= y
  BY <1>1
<1>3. Considered(findings) = CHOOSE x \in S : \A y \in S : x <= y
  BY DEF Considered, Min
<1>4. Considered(findings) \in S /\ \A y \in S : Considered(findings) <= y
  BY <1>2, <1>3
<1>5. QED
  BY <1>1, <1>4

(* Before anything is offered, the invariant holds of any findings.         *)
LEMMA EvidenceBegins ==
    ASSUME EvidenceInit
    PROVE  EInv
<1>1. MaxTotal \in Nat /\ Reported \in Nat /\ MaxFindings \in Nat /\ BaseSize \in Nat
      /\ BaseSize <= MaxBytes - Reserve /\ Reserve \in Nat /\ MaxBytes \in Nat
  BY EvidenceConstants
<1>2. \A q \in BoundedSeq(Findings, Reported) : q \in Seq(Finding)
  BY <1>1, EvidenceConstants DEF BoundedSeq, SeqOf
<1>3. ASSUME NEW total \in 0..MaxTotal, NEW q, Len(q) \in Nat, Len(q) = Min({total, Reported})
      PROVE  Len(q) <= total
  <2> DEFINE S == {total, Reported}
  <2>1. \E x \in S : \A y \in S : x <= y
    BY <1>1
  <2>2. Min(S) \in S /\ \A y \in S : Min(S) <= y
    BY <2>1 DEF Min
  <2>3. QED
    BY <1>3, <2>2
<1>4. Total(quality, qualityTotal) /\ Total(change, changeTotal)
  BY <1>1, <1>2, <1>3 DEF EvidenceInit, Total
<1>5. schema \in Finding
  <2>1. Absent \in Finding
    BY DEF Absent, Finding
  <2>2. QED
    BY <2>1, EvidenceConstants DEF EvidenceInit
<1>6. Loops
  <2>1. Considered(quality) \in Nat
    BY <1>4, ConsideredBound DEF Total
  <2>2. /\ evidence \in Seq(Entries) /\ trimmed \in BOOLEAN /\ applied \in BOOLEAN
        /\ phase = "quality" /\ next = 1 /\ changeNumber = 1
    <3>1. /\ evidence = <<>> /\ trimmed = FALSE /\ applied = FALSE
          /\ phase = "quality" /\ next = 1 /\ changeNumber = 1
      BY DEF EvidenceInit
    <3>2. trimmed \in BOOLEAN /\ applied \in BOOLEAN
      BY <3>1, Zenon
    <3>3. QED
      BY <3>1, <3>2
  <2>3. next \in 1..Considered(quality) + 1
    BY <2>1, <2>2
  <2>4. QED
    BY <1>4, <1>5, <2>2, <2>3 DEF Loops
<1>7. Measured
  BY <1>1, SizeOfNothing DEF EvidenceInit, Measured
<1>8. evidence = <<>> /\ phase = "quality" /\ next = 1 /\ ~ trimmed
  BY DEF EvidenceInit
<1>9. QualityIncluded = 0 /\ ChangeIncluded = 0
  <2>1. \A kind : {i \in 1..Len(evidence) : evidence[i].id[1] = kind} = {}
    BY <1>8
  <2>2. QED
    BY <2>1, FS_EmptySet DEF Included, QualityIncluded, ChangeIncluded
<1>10. Given /\ Placed /\ Sampled /\ SampleDisclosed
  BY <1>8, <1>9 DEF Given, Placed, Sampled, SampleDisclosed, QualityOffered, Shortened
<1>11. QED
  BY <1>6, <1>7, <1>10 DEF EInv

(* Entries of a kind are counted.                                           *)
LEMMA IncludedCount ==
    ASSUME evidence \in Seq(Entries)
    PROVE  QualityIncluded \in Nat /\ ChangeIncluded \in Nat
<1> DEFINE S(kind) == {i \in 1..Len(evidence) : evidence[i].id[1] = kind}
<1>1. ASSUME NEW kind PROVE Cardinality(S(kind)) \in Nat
  <2>1. S(kind) \subseteq 1..Len(evidence) /\ IsFiniteSet(1..Len(evidence))
    BY FS_Interval
  <2>2. QED
    BY <2>1, FS_Subset, FS_CardinalityType
<1>2. QED
  BY <1>1 DEF Included, QualityIncluded, ChangeIncluded

(* They are counted one by one.                                             *)
LEMMA IncludedGrows ==
    ASSUME evidence \in Seq(Entries), NEW x \in Entries, evidence' = Append(evidence, x)
    PROVE  /\ QualityIncluded' = QualityIncluded + IF x.id[1] = "V" THEN 1 ELSE 0
           /\ ChangeIncluded' = ChangeIncluded + IF x.id[1] = "C" THEN 1 ELSE 0
<1> DEFINE n == Len(evidence)
           S(kind) == {i \in 1..n : evidence[i].id[1] = kind}
           T(kind) == {i \in 1..Len(evidence') : evidence'[i].id[1] = kind}
<1>1. n \in Nat /\ Len(evidence') = n + 1 /\ evidence'[n + 1] = x
      /\ \A i \in 1..n : evidence'[i] = evidence[i]
  OBVIOUS
<1>2. ASSUME NEW kind
      PROVE  Cardinality(T(kind)) = Cardinality(S(kind)) + IF x.id[1] = kind THEN 1 ELSE 0
  <2>1. IsFiniteSet(S(kind)) /\ Cardinality(S(kind)) \in Nat
    <3>1. S(kind) \subseteq 1..n /\ IsFiniteSet(1..n)
      BY <1>1, FS_Interval
    <3>2. QED
      BY <3>1, FS_Subset, FS_CardinalityType
  <2>2. T(kind) = IF x.id[1] = kind THEN S(kind) \cup {n + 1} ELSE S(kind)
    BY <1>1
  <2>3. n + 1 \notin S(kind)
    BY <1>1
  <2> HIDE DEF S, T
  <2>4. CASE x.id[1] = kind
    BY <2>1, <2>2, <2>3, <2>4, FS_AddElement
  <2>5. CASE x.id[1] # kind
    BY <2>1, <2>2, <2>5
  <2>6. QED
    BY <2>4, <2>5
<1>3. /\ QualityIncluded = Cardinality(S("V")) /\ QualityIncluded' = Cardinality(T("V"))
      /\ ChangeIncluded = Cardinality(S("C")) /\ ChangeIncluded' = Cardinality(T("C"))
  BY DEF Included, QualityIncluded, ChangeIncluded
<1> HIDE DEF S, T
<1>4. QED
  BY <1>2, <1>3

(* An entry is appended and measured, or taken back and the evidence marked *)
(* as a sample.                                                             *)
LEMMA Offered ==
    ASSUME Loops, Measured, NEW id \in Numbers, NEW f \in Finding,
           Offer(id, f)
    PROVE  /\ trimmed' \in BOOLEAN /\ evidence' \in Seq(Entries) /\ Measured'
           /\ \/ /\ evidence' = Append(evidence, [id |-> id, finding |-> f])
                 /\ trimmed' = (trimmed \/ f.long)
              \/ evidence' = evidence /\ trimmed'
<1> DEFINE x == [id |-> id, finding |-> f]
           longer == Append(evidence, x)
<1>1. x \in Entries /\ evidence \in Seq(Entries) /\ trimmed \in BOOLEAN /\ f.long \in BOOLEAN
      /\ f.size \in Nat
  BY DEF Entries, Loops, Finding
<1>2. longer \in Seq(Entries)
  BY <1>1
<1>3. Size(longer) = Size(evidence) + f.size
  BY <1>1, SizeOfLonger
<1>4. /\ evidence' = IF Fits(longer) THEN longer ELSE evidence
      /\ trimmed' = (trimmed \/ f.long \/ ~ Fits(longer))
  BY DEF Offer
<1>5. Fits(longer) <=> Size(longer) <= MaxBytes - Reserve
  BY DEF Fits
<1> HIDE DEF longer
<1>6. CASE Fits(longer)
  BY <1>1, <1>2, <1>3, <1>4, <1>5, <1>6 DEF Measured, longer
<1>7. CASE ~ Fits(longer)
  BY <1>1, <1>4, <1>7 DEF Measured
<1>8. QED
  BY <1>6, <1>7

(* A finding that is appended under a number not yet given, as the          *)
(* definition of that number says, leaves every number in its place.        *)
LEMMA Appended ==
    ASSUME evidence \in Seq(Entries), Placed, NEW x \in Entries, evidence' = Append(evidence, x),
           UNCHANGED <<quality, change, schema>>,
           \A i \in 1..Len(evidence) : evidence[i].id # x.id,
           x.id[1] = "V" => x.finding = quality[x.id[2]],
           x.id[1] = "C" => x.finding = IF x.id[2] = 1 /\ schema # Absent
                                        THEN schema ELSE change[x.id[2] - Offset]
    PROVE  Placed' /\ (Shortened' <=> Shortened \/ x.finding.long)
<1> DEFINE n == Len(evidence)
<1>1. /\ Len(evidence') = n + 1 /\ evidence'[n + 1] = x /\ n \in Nat
      /\ \A i \in 1..n : evidence'[i] = evidence[i]
  OBVIOUS
<1>2. \A i \in 1..n + 1 : i \in 1..n \/ i = n + 1
  BY <1>1
<1>3. \A i, j \in 1..n + 1 : evidence'[i].id = evidence'[j].id => i = j
  BY <1>1, <1>2 DEF Placed
<1>4. Placed'
  BY <1>1, <1>2, <1>3 DEF Placed, Offset
<1>5. Shortened' <=> Shortened \/ x.finding.long
  BY <1>1, <1>2 DEF Shortened
<1>6. QED
  BY <1>4, <1>5

(* A finding of validate is offered under its place.                        *)
LEMMA QualityKeeps ==
    ASSUME EInv, Quality
    PROVE  EInv'
<1> DEFINE id == <<"V", next>>
           f == quality[next]
           n == Len(evidence)
<1>1. /\ phase = "quality" /\ next <= Considered(quality) /\ Offer(id, f)
      /\ next' = next + 1 /\ changeNumber = 1
      /\ UNCHANGED <<quality, change, qualityTotal, changeTotal, schema, phase, changeNumber, applied>>
  BY DEF Quality, inputs, EInv, Loops
<1>2. /\ quality \in Seq(Finding) /\ Len(quality) \in Nat /\ next \in 1..Len(quality)
      /\ Considered(quality) \in Nat /\ next \in Nat
  BY <1>1, ConsideredBound DEF EInv, Loops, Total
<1>3. id \in Numbers /\ f \in Finding
  BY <1>2 DEF Numbers
<1>11. PICK x \in Entries : x = [id |-> id, finding |-> f]
  BY <1>3 DEF Entries
<1>4. /\ trimmed' \in BOOLEAN /\ evidence' \in Seq(Entries) /\ Measured'
      /\ \/ evidence' = Append(evidence, x) /\ trimmed' = (trimmed \/ f.long)
         \/ evidence' = evidence /\ trimmed'
  BY <1>1, <1>3, <1>11, Offered DEF EInv
<1>5. Loops'
  BY <1>1, <1>2, <1>4 DEF EInv, Loops, Total, Offset, Considered
<1>6. /\ QualityOffered = next - 1 /\ QualityOffered' = next
  BY <1>1, <1>2 DEF QualityOffered
<1>7. evidence \in Seq(Entries) /\ n \in Nat
  BY DEF EInv, Loops
<1> HIDE DEF id, f
<1>8. CASE evidence' = Append(evidence, x) /\ trimmed' = (trimmed \/ f.long)
  <2>1. x.id[1] = "V" /\ x.id[2] = next /\ x.finding = quality[next] /\ x.id # <<"C", 1>>
    BY <1>11 DEF id, f
  <2>2. \A i \in 1..n : evidence[i].id # x.id
    BY <1>1, <1>2, <1>6, <2>1 DEF Given, EInv
  <2>3. /\ Len(evidence') = n + 1 /\ evidence'[n + 1] = x
        /\ \A i \in 1..n : evidence'[i] = evidence[i]
    BY <1>7, <1>8, <1>11
  <2>4. Given'
    BY <1>1, <1>2, <1>6, <1>7, <2>1, <2>3 DEF Given, EInv
  <2>5. Placed' /\ (Shortened' <=> Shortened \/ f.long)
    BY <1>1, <1>7, <1>8, <2>1, <2>2, Appended DEF EInv, f
  <2>6. /\ QualityIncluded \in Nat /\ QualityIncluded' = QualityIncluded + 1
        /\ ChangeIncluded \in Nat /\ ChangeIncluded' = ChangeIncluded
    BY <1>7, <1>8, <2>1, IncludedGrows, IncludedCount
  <2>8. Sampled'
    <3>1. /\ QualityIncluded <= next - 1 /\ ChangeIncluded = 0 /\ (Shortened => trimmed)
          /\ trimmed => Shortened \/ QualityIncluded < next - 1
      BY <1>1, <1>6 DEF Sampled, Missed, EInv
    <3>2. /\ QualityIncluded' <= next /\ ChangeIncluded' = 0
          /\ QualityIncluded < next - 1 => QualityIncluded' < next
      BY <1>2, <2>6, <3>1
    <3>3. trimmed' => Shortened' \/ QualityIncluded' < next
      BY <1>8, <2>5, <3>1, <3>2
    <3>4. QED
      BY <1>1, <1>6, <1>8, <2>5, <3>1, <3>2, <3>3 DEF Sampled, Missed
  <2>9. QED
    BY <1>1, <1>4, <1>5, <2>4, <2>5, <2>8 DEF EInv, SampleDisclosed
<1>9. CASE evidence' = evidence /\ trimmed'
  <2>1. Given' /\ Placed'
    BY <1>1, <1>2, <1>6, <1>9 DEF Given, Placed, Offset, EInv
  <2>2. /\ QualityIncluded' = QualityIncluded /\ ChangeIncluded' = ChangeIncluded
        /\ QualityIncluded \in Nat
    BY <1>7, <1>9, IncludedCount DEF Included, QualityIncluded, ChangeIncluded
  <2>3. Sampled'
    BY <1>1, <1>2, <1>6, <1>9, <2>2 DEF Sampled, Missed, EInv
  <2>4. QED
    BY <1>1, <1>4, <1>5, <2>1, <2>3 DEF EInv, SampleDisclosed
<1>10. QED
  BY <1>4, <1>8, <1>9

(* After the last finding of validate comes the schema.                     *)
LEMMA QualityEndKeeps ==
    ASSUME EInv, QualityEnd
    PROVE  EInv'
<1>1. /\ phase = "quality" /\ next > Considered(quality) /\ phase' = "schema"
      /\ UNCHANGED <<quality, change, qualityTotal, changeTotal, schema, next, changeNumber, evidence,
                     trimmed, applied>>
  BY DEF QualityEnd, inputs
<1>2. Considered(quality) \in Nat /\ Considered(quality) <= MaxFindings /\ MaxFindings \in Nat
  BY ConsideredBound, EvidenceConstants DEF EInv, Loops, Total
<1>3. /\ next = Considered(quality) + 1 /\ next \in Nat
      /\ Considered(quality)' = Considered(quality)
  BY <1>1, <1>2 DEF EInv, Loops, Considered
<1>4. Loops' /\ Measured'
  BY <1>1, <1>2, <1>3 DEF EInv, Loops, Total, Offset, Measured
<1>5. QualityOffered = Considered(quality) /\ QualityOffered' = Considered(quality)
  BY <1>1, <1>2, <1>3 DEF QualityOffered
<1>6. Given' /\ Placed'
  BY <1>1, <1>5 DEF Given, Placed, Offset, EInv
<1>7. Sampled'
  BY <1>1, <1>5 DEF Sampled, Missed, EInv, Included, QualityIncluded, ChangeIncluded, Shortened
<1>8. QED
  BY <1>1, <1>4, <1>6, <1>7 DEF EInv, SampleDisclosed

(* The schema's change is counted apart.                                    *)
LEMMA ChangesCounted ==
    /\ ChangesIncluded = ChangeIncluded - IF SchemaIncluded THEN 1 ELSE 0
    /\ SchemaIncluded' => ChangesIncluded' = ChangeIncluded' - 1
    /\ ~ SchemaIncluded' => ChangesIncluded' = ChangeIncluded' - 0
  BY DEF ChangesIncluded, ChangeIncluded

(* Other entries do not make the schema's change included.                  *)
LEMMA SchemaStays ==
    ASSUME evidence \in Seq(Entries), NEW x \in Entries, evidence' = Append(evidence, x),
           UNCHANGED schema, x.id # <<"C", 1>>
    PROVE  SchemaIncluded' <=> SchemaIncluded
<1> DEFINE n == Len(evidence)
<1>1. /\ Len(evidence') = n + 1 /\ evidence'[n + 1] = x /\ n \in Nat
      /\ \A i \in 1..n : evidence'[i] = evidence[i]
  OBVIOUS
<1>2. \A i \in 1..n + 1 : i \in 1..n \/ i = n + 1
  BY <1>1
<1>3. Absent' = Absent
  BY DEF Absent
<1>4. QED
  BY <1>1, <1>2, <1>3 DEF SchemaIncluded

(* The change of the schema is offered as C1, if there is one.              *)
LEMMA SchemaKeeps ==
    ASSUME EInv, Schema
    PROVE  EInv'
<1> DEFINE id == <<"C", 1>>
           n == Len(evidence)
<1>1. /\ phase = "schema" /\ phase' = "change" /\ next' = 1
      /\ UNCHANGED <<quality, change, qualityTotal, changeTotal, schema, applied>>
      /\ IF schema # Absent
         THEN Offer(id, schema) /\ changeNumber' = 2
         ELSE UNCHANGED <<evidence, trimmed, changeNumber>>
      /\ changeNumber = 1
  BY DEF Schema, inputs, EInv, Loops
<1>2. Considered(quality) \in Nat /\ Considered(change) \in Nat
  BY ConsideredBound DEF EInv, Loops, Total
<1>3. evidence \in Seq(Entries) /\ n \in Nat /\ schema \in Finding
  BY DEF EInv, Loops
<1>4. QualityOffered = Considered(quality) /\ QualityOffered' = Considered(quality)
  BY <1>1 DEF QualityOffered, Considered
<1>5. Offset' = Offset /\ Offset = IF schema # Absent THEN 1 ELSE 0
  BY <1>1 DEF Offset, Absent
<1>6. /\ QualityIncluded <= QualityOffered /\ ChangeIncluded = 0 /\ (Shortened => trimmed)
      /\ trimmed => Shortened \/ QualityIncluded < QualityOffered
      /\ QualityIncluded \in Nat
  BY <1>1, <1>3, IncludedCount DEF Sampled, Missed, EInv
<1>7. \A i \in 1..n : evidence[i].id[1] = "V" /\ evidence[i].id[2] \in 1..QualityOffered
  BY <1>1 DEF Given, EInv
<1>8. \A i \in 1..n : evidence[i].id # id
  <2>1. "V" # "C"
    OBVIOUS
  <2>2. QED
    BY <1>7, <2>1
<1>9. ~ SchemaIncluded
  BY <1>8 DEF SchemaIncluded
<1>10. CASE evidence' = evidence /\ trimmed' \in BOOLEAN /\ (trimmed => trimmed') /\ Measured'
            /\ changeNumber' = 1 + Offset
            /\ (trimmed' => trimmed \/ schema # Absent)
  <2>1. Loops'
    BY <1>1, <1>2, <1>5, <1>10 DEF EInv, Loops, Total, Considered
  <2>2. Given' /\ Placed'
    BY <1>1, <1>4, <1>5, <1>7, <1>10 DEF Given, Placed, EInv, Absent
  <2>3. /\ QualityIncluded' = QualityIncluded /\ ChangeIncluded' = 0
        /\ (Shortened' <=> Shortened) /\ ~ SchemaIncluded'
    BY <1>1, <1>6, <1>9, <1>10
       DEF QualityIncluded, ChangeIncluded, Included, Shortened, SchemaIncluded, Absent
  <2>4. ChangesIncluded' = 0
    BY <2>3, ChangesCounted
  <2>5. Sampled'
    BY <1>1, <1>4, <1>6, <1>10, <2>3, <2>4 DEF Sampled, Missed, Absent
  <2>6. QED
    BY <1>1, <1>10, <2>1, <2>2, <2>5 DEF EInv, SampleDisclosed
<1>11. CASE schema = Absent
  <2>1. Measured'
    BY <1>1, <1>11 DEF Measured, EInv
  <2>2. QED
    BY <1>1, <1>5, <1>10, <1>11, <2>1 DEF EInv, Loops
<1>12. CASE schema # Absent
  <2>1. PICK x \in Entries : x = [id |-> id, finding |-> schema]
    BY <1>3 DEF Entries, Numbers
  <2>2. /\ trimmed' \in BOOLEAN /\ evidence' \in Seq(Entries) /\ Measured'
        /\ \/ evidence' = Append(evidence, x) /\ trimmed' = (trimmed \/ schema.long)
           \/ evidence' = evidence /\ trimmed'
    BY <1>1, <1>3, <1>12, <2>1, Offered DEF EInv, Numbers
  <2>3. CASE evidence' = evidence /\ trimmed'
    BY <1>1, <1>5, <1>10, <1>12, <2>2, <2>3
  <2>4. CASE evidence' = Append(evidence, x) /\ trimmed' = (trimmed \/ schema.long)
    <3>1. x.id[1] = "C" /\ x.id[2] = 1 /\ x.id = id /\ x.finding = schema
      BY <2>1
    <3>2. /\ Len(evidence') = n + 1 /\ evidence'[n + 1] = x
          /\ \A i \in 1..n : evidence'[i] = evidence[i]
      BY <1>3, <2>4
    <3>3. Loops'
      BY <1>1, <1>2, <1>5, <1>12, <2>2 DEF EInv, Loops, Total, Considered
    <3>4. Given'
      BY <1>1, <1>3, <1>4, <1>7, <1>12, <3>1, <3>2 DEF Given
    <3>5. Placed' /\ (Shortened' <=> Shortened \/ schema.long)
      BY <1>1, <1>3, <1>8, <1>12, <2>4, <3>1, Appended DEF EInv
    <3>6. QualityIncluded' = QualityIncluded /\ ChangeIncluded' = 1
      BY <1>3, <1>6, <2>4, <3>1, IncludedGrows
    <3>7. SchemaIncluded'
      BY <1>1, <1>3, <1>12, <3>1, <3>2 DEF SchemaIncluded, Absent
    <3>8. ChangesIncluded' = 0
      BY <3>6, <3>7, ChangesCounted
    <3>9. /\ ChangesIncluded' <= next' - 1 /\ phase' \notin {"quality", "schema"}
          /\ QualityIncluded' <= QualityOffered'
      BY <1>1, <1>4, <1>6, <3>6, <3>8
    <3>10. Shortened' => trimmed'
      BY <1>6, <2>4, <3>5
    <3>11. trimmed' => Shortened' \/ QualityIncluded' < QualityOffered'
      BY <1>4, <1>6, <2>4, <3>5, <3>6
    <3>12. Sampled'
      BY <3>9, <3>10, <3>11 DEF Sampled, Missed
    <3>13. QED
      BY <1>1, <2>2, <3>3, <3>4, <3>5, <3>12 DEF EInv, SampleDisclosed
  <2>5. QED
    BY <2>2, <2>3, <2>4
<1>13. QED
  BY <1>11, <1>12

(* A finding of compare is offered under its place, after the schema's.     *)
LEMMA ChangeKeeps ==
    ASSUME EInv, Change
    PROVE  EInv'
<1> DEFINE id == <<"C", changeNumber>>
           f == change[next]
           n == Len(evidence)
<1>1. /\ phase = "change" /\ next <= Considered(change) /\ Offer(id, f)
      /\ next' = next + 1 /\ changeNumber' = changeNumber + 1 /\ changeNumber = next + Offset
      /\ UNCHANGED <<quality, change, qualityTotal, changeTotal, schema, phase, applied>>
  BY DEF Change, inputs, EInv, Loops
<1>2. /\ change \in Seq(Finding) /\ Len(change) \in Nat /\ next \in 1..Len(change)
      /\ Considered(change) \in Nat /\ next \in Nat
  BY <1>1, ConsideredBound DEF EInv, Loops, Total
<1>3. /\ Offset \in {0, 1} /\ Offset' = Offset /\ (schema # Absent <=> Offset = 1)
      /\ changeNumber \in Nat /\ changeNumber # 0
  BY <1>1, <1>2 DEF Offset, Absent
<1>4. id \in Numbers /\ f \in Finding
  BY <1>2, <1>3 DEF Numbers
<1>5. PICK x \in Entries : x = [id |-> id, finding |-> f]
  BY <1>4 DEF Entries
<1>6. /\ trimmed' \in BOOLEAN /\ evidence' \in Seq(Entries) /\ Measured'
      /\ \/ evidence' = Append(evidence, x) /\ trimmed' = (trimmed \/ f.long)
         \/ evidence' = evidence /\ trimmed'
  BY <1>1, <1>4, <1>5, Offered DEF EInv
<1>7. Loops'
  <2>1. next + 1 \in 1..Considered(change) + 1 /\ changeNumber + 1 = next + 1 + Offset
    BY <1>1, <1>2, <1>3
  <2>2. Considered(change)' = Considered(change)
    BY <1>1 DEF Considered
  <2>3. QED
    BY <1>1, <1>3, <1>6, <2>1, <2>2 DEF EInv, Loops, Total
<1>8. QualityOffered' = QualityOffered
  BY <1>1 DEF QualityOffered, Considered
<1>9. evidence \in Seq(Entries) /\ n \in Nat
  BY DEF EInv, Loops
<1>10. /\ QualityIncluded <= QualityOffered /\ ChangesIncluded <= next - 1
       /\ (Shortened => trimmed)
       /\ trimmed => \/ Shortened
                     \/ QualityIncluded < QualityOffered
                     \/ schema # Absent /\ ~ SchemaIncluded
                     \/ ChangesIncluded < next - 1
       /\ QualityIncluded \in Nat /\ ChangeIncluded \in Nat
  BY <1>1, <1>9, IncludedCount DEF Sampled, Missed, EInv
<1> HIDE DEF id, f
<1>11. CASE evidence' = Append(evidence, x) /\ trimmed' = (trimmed \/ f.long)
  <2>1. /\ x.id[1] = "C" /\ x.id[2] = changeNumber /\ x.finding = change[next]
        /\ (schema # Absent => x.id # <<"C", 1>>)
    BY <1>1, <1>2, <1>3, <1>5 DEF id, f
  <2>2. \A i \in 1..n : evidence[i].id # x.id
    BY <1>1, <1>3, <2>1 DEF Given, EInv
  <2>3. /\ Len(evidence') = n + 1 /\ evidence'[n + 1] = x
        /\ \A i \in 1..n : evidence'[i] = evidence[i]
    BY <1>9, <1>11
  <2>4. Given'
    <3>1. \A i \in 1..n : \/ evidence[i].id[1] = "V" /\ evidence[i].id[2] \in 1..QualityOffered
                          \/ evidence[i].id[1] = "C" /\ evidence[i].id[2] \in 1..changeNumber - 1
      BY DEF Given, EInv
    <3>2. changeNumber' - 1 = changeNumber /\ changeNumber \in 1..changeNumber
          /\ 1..changeNumber - 1 \subseteq 1..changeNumber
      BY <1>1, <1>3
    <3>3. \A i \in 1..n + 1 : i \in 1..n \/ i = n + 1
      BY <1>9
    <3>4. \A i \in 1..n + 1 :
             \/ evidence'[i].id[1] = "V" /\ evidence'[i].id[2] \in 1..QualityOffered'
             \/ evidence'[i].id[1] = "C" /\ evidence'[i].id[2] \in 1..changeNumber' - 1
      BY <1>8, <2>1, <2>3, <3>1, <3>2, <3>3
    <3>5. phase' \notin {"quality", "schema"}
      BY <1>1
    <3>6. QED
      BY <2>3, <3>4, <3>5 DEF Given
  <2>5. changeNumber - Offset = next /\ (schema # Absent => changeNumber # 1)
    BY <1>1, <1>2, <1>3
  <2>6. Placed' /\ (Shortened' <=> Shortened \/ f.long)
    BY <1>1, <1>9, <1>11, <2>1, <2>2, <2>5, Appended DEF EInv, f
  <2>7. QualityIncluded' = QualityIncluded /\ ChangeIncluded' = ChangeIncluded + 1
    BY <1>9, <1>10, <1>11, <2>1, IncludedGrows
  <2>8. SchemaIncluded' <=> SchemaIncluded
    <3>1. CASE schema # Absent
      BY <1>1, <1>9, <1>11, <2>1, <3>1, SchemaStays
    <3>2. CASE schema = Absent
      BY <1>1, <3>2 DEF SchemaIncluded, Absent
    <3>3. QED
      BY <3>1, <3>2
  <2>9. ChangesIncluded' = ChangesIncluded + 1 /\ ChangesIncluded \in Int
    BY <1>10, <2>7, <2>8, ChangesCounted
  <2>10. /\ QualityIncluded' <= QualityOffered' /\ ChangesIncluded' <= next' - 1
         /\ (ChangesIncluded < next - 1 => ChangesIncluded' < next' - 1)
    BY <1>1, <1>2, <1>8, <1>10, <2>7, <2>9
  <2>11. Sampled'
    BY <1>1, <1>8, <1>10, <1>11, <2>6, <2>7, <2>8, <2>10 DEF Sampled, Missed, Absent
  <2>12. QED
    BY <1>1, <1>6, <1>7, <2>4, <2>6, <2>11 DEF EInv, SampleDisclosed
<1>12. CASE evidence' = evidence /\ trimmed'
  <2>1. Given' /\ Placed'
    BY <1>1, <1>2, <1>3, <1>8, <1>12 DEF Given, Placed, EInv, Absent
  <2>2. /\ QualityIncluded' = QualityIncluded /\ ChangeIncluded' = ChangeIncluded
        /\ (Shortened' <=> Shortened) /\ (SchemaIncluded' <=> SchemaIncluded)
    BY <1>1, <1>12
       DEF QualityIncluded, ChangeIncluded, Included, Shortened, SchemaIncluded, Absent
  <2>3. ChangesIncluded' = ChangesIncluded /\ ChangesIncluded \in Int
    BY <1>10, <2>2, ChangesCounted
  <2>4. ChangesIncluded' < next' - 1 /\ ChangesIncluded' <= next' - 1
    BY <1>1, <1>2, <1>10, <2>3
  <2>5. Sampled'
    BY <1>1, <1>2, <1>8, <1>10, <1>12, <2>2, <2>4 DEF Sampled, Missed
  <2>6. QED
    BY <1>1, <1>6, <1>7, <2>1, <2>5 DEF EInv, SampleDisclosed
<1>13. QED
  BY <1>6, <1>11, <1>12

(* The counters fit, and the note is filled in from what was counted.       *)
LEMMA FinishKeeps ==
    ASSUME EInv, Finish
    PROVE  EInv'
<1>1. /\ phase = "change" /\ next > Considered(change) /\ applied' = Applied
      /\ UNCHANGED <<quality, change, qualityTotal, changeTotal, schema, next, changeNumber,
                     evidence, trimmed>>
  BY DEF Finish, inputs
<1>2. phase' = "done"
  <2>1. PICK growth \in 0..Reserve :
            phase' = IF Size(evidence) + growth > MaxBytes THEN "refused" ELSE "done"
    BY DEF Finish
  <2>2. Size(evidence) + growth <= MaxBytes
    BY EvidenceConstants DEF EInv, Measured
  <2>3. ~ (Size(evidence) + growth > MaxBytes)
    BY <2>2, EvidenceConstants DEF EInv, Measured
  <2>4. QED
    BY <2>1, <2>3
<1>3. /\ Considered(quality) \in Nat /\ Considered(quality) <= Len(quality)
      /\ Considered(change) \in Nat /\ Considered(change) <= Len(change)
      /\ Len(quality) \in Nat /\ Len(change) \in Nat
      /\ qualityTotal \in Nat /\ changeTotal \in Nat
      /\ Len(quality) <= qualityTotal /\ Len(change) <= changeTotal
      /\ next \in 1..Considered(change) + 1
  BY <1>1, ConsideredBound DEF EInv, Loops, Total
<1>4. Considered(quality)' = Considered(quality) /\ Considered(change)' = Considered(change)
  BY <1>1 DEF Considered
<1>5. applied' \in BOOLEAN
  BY <1>1 DEF Applied
<1>6. Loops' /\ Measured'
  BY <1>1, <1>2, <1>4, <1>5 DEF EInv, Loops, Total, Offset, Measured, Absent
<1>7. QualityOffered' = QualityOffered /\ QualityOffered = Considered(quality)
  BY <1>1, <1>2, <1>4 DEF QualityOffered
<1>8. /\ QualityIncluded' = QualityIncluded /\ ChangesIncluded' = ChangesIncluded
      /\ (Shortened' <=> Shortened) /\ (SchemaIncluded' <=> SchemaIncluded)
  BY <1>1 DEF QualityIncluded, ChangesIncluded, Included, Shortened, SchemaIncluded, Absent
<1>9. Given' /\ Placed'
  BY <1>1, <1>2, <1>7 DEF Given, Placed, Offset, EInv, Absent
<1>10. Sampled'
  BY <1>1, <1>2, <1>7, <1>8 DEF Sampled, Missed, EInv, Absent
<1>11. /\ QualityIncluded \in Nat /\ QualityIncluded <= Considered(quality)
       /\ ChangesIncluded \in Int /\ ChangesIncluded <= next - 1
       /\ (Shortened => trimmed)
       /\ trimmed => \/ Shortened
                     \/ QualityIncluded < Considered(quality)
                     \/ schema # Absent /\ ~ SchemaIncluded
                     \/ ChangesIncluded < next - 1
  BY <1>1, <1>7, IncludedCount, ChangesCounted DEF Sampled, Missed, EInv, Loops
<1>12. /\ QualityIncluded < Considered(quality) => QualityIncluded < qualityTotal
       /\ QualityIncluded < Len(quality) => QualityIncluded < qualityTotal
       /\ ChangesIncluded < next - 1 => ChangesIncluded < changeTotal
       /\ ChangesIncluded < Len(change) => ChangesIncluded < changeTotal
  BY <1>3, <1>11
<1>13. applied' <=> \/ trimmed
                    \/ qualityTotal > QualityIncluded
                    \/ changeTotal > ChangesIncluded
                    \/ Len(quality) > QualityIncluded
                    \/ Len(change) > ChangesIncluded
                    \/ schema # Absent /\ ~ SchemaIncluded
  BY <1>1 DEF Applied, QualityIncluded
<1>14. applied' <=> \/ QualityIncluded < qualityTotal
                    \/ ChangesIncluded < changeTotal
                    \/ schema # Absent /\ ~ SchemaIncluded
                    \/ Shortened
  BY <1>3, <1>11, <1>12, <1>13
<1>15. SampleDisclosed'
  BY <1>1, <1>8, <1>14 DEF SampleDisclosed, QualityIncluded, Shortened, Absent
<1>16. QED
  BY <1>6, <1>9, <1>10, <1>15 DEF EInv

(* The number of a finding says where it is in the report of its engine.    *)
LEMMA StableNumbers == EInv => NumbersStable
<1>1. SUFFICES ASSUME EInv, NEW i \in 1..Len(evidence)
               PROVE  evidence[i].finding = Numbered(evidence[i].id)
  BY DEF NumbersStable, EInv, Placed
<1> DEFINE id == evidence[i].id
<1>2. evidence[i] \in Entries
  BY <1>1 DEF EInv, Loops
<1>3. id = <<id[1], id[2]>> /\ id[2] \in Nat /\ id[1] \in {"V", "C"}
  BY <1>2 DEF Entries, Numbers
<1>4. /\ id[1] = "V" => evidence[i].finding = quality[id[2]]
      /\ id[1] = "C" => evidence[i].finding = IF id[2] = 1 /\ schema # Absent
                                              THEN schema ELSE change[id[2] - Offset]
  BY <1>1 DEF EInv, Placed
<1> HIDE DEF id
<1>5. CASE id[1] = "V"
  BY <1>3, <1>4, <1>5 DEF Numbered, id
<1>6. CASE id[1] = "C" /\ id[2] = 1 /\ schema # Absent
  BY <1>3, <1>4, <1>6 DEF Numbered, id
<1>7. CASE id[1] = "C" /\ ~ (id[2] = 1 /\ schema # Absent)
  BY <1>3, <1>4, <1>7 DEF Numbered, id, Offset
<1>8. QED
  BY <1>3, <1>5, <1>6, <1>7

(* The types follow from where the loops are.                               *)
LEMMA EvidenceTypes == EInv => EvidenceTypeOK
<1>1. SUFFICES ASSUME EInv PROVE EvidenceTypeOK
  OBVIOUS
<1>2. /\ Considered(quality) \in Nat /\ Considered(quality) <= MaxFindings
      /\ Considered(change) \in Nat /\ Considered(change) <= MaxFindings
      /\ MaxFindings \in Nat
  BY <1>1, ConsideredBound, EvidenceConstants DEF EInv, Loops, Total
<1>3. next \in 1..MaxFindings + 1 /\ changeNumber \in 1..MaxFindings + 2
  <2>1. Offset \in {0, 1}
    BY DEF Offset
  <2>2. QED
    BY <1>1, <1>2, <2>1 DEF EInv, Loops
<1>4. \A i \in 1..Len(evidence) : evidence[i] \in Entries
  BY <1>1 DEF EInv, Loops
<1>5. \A i \in 1..Len(evidence) : evidence[i].id \in Numbers /\ evidence[i].finding \in Finding
  BY <1>4 DEF Entries
<1>6. QED
  BY <1>1, <1>3, <1>5 DEF EvidenceTypeOK, EInv, Loops

(* A step that leaves the loops alone keeps the invariant.                  *)
LEMMA EvidenceRests ==
    ASSUME EInv, UNCHANGED building
    PROVE  EInv'
<1>1. UNCHANGED <<quality, change, qualityTotal, changeTotal, schema, phase, next, changeNumber,
                  evidence, trimmed, applied>>
  BY DEF building, inputs
<1>2. /\ Considered(quality)' = Considered(quality)
      /\ Considered(change)' = Considered(change)
  BY <1>1 DEF Considered
<1>3. Loops' /\ Measured'
  BY <1>1, <1>2 DEF EInv, Loops, Total, Offset, Measured, Absent
<1>4. QualityOffered' = QualityOffered
  BY <1>1, <1>2 DEF QualityOffered
<1>5. /\ QualityIncluded' = QualityIncluded /\ ChangeIncluded' = ChangeIncluded
      /\ ChangesIncluded' = ChangesIncluded
      /\ (Shortened' <=> Shortened) /\ (SchemaIncluded' <=> SchemaIncluded)
  BY <1>1 DEF QualityIncluded, ChangeIncluded, ChangesIncluded, Included, Shortened,
              SchemaIncluded, Absent
<1>6. Given' /\ Placed'
  BY <1>1, <1>4 DEF Given, Placed, Offset, EInv, Absent
<1>7. Sampled'
  BY <1>1, <1>4, <1>5 DEF Sampled, Missed, EInv, Absent
<1>8. SampleDisclosed'
  BY <1>1, <1>5 DEF SampleDisclosed, EInv, Absent, QualityIncluded, Included, SchemaIncluded
<1>9. QED
  BY <1>3, <1>6, <1>7, <1>8 DEF EInv

(* For any findings, limits and sizes that leave room for the counters, the *)
(* loops of build_evidence keep EInv: numbers in their places, measured     *)
(* sizes and a flag that tells what was left out.                           *)
THEOREM EvidenceInvariance == EvidenceSpec => []EInv
<1>1. EvidenceInit => EInv
  BY EvidenceBegins
<1>2. EInv /\ [EvidenceNext]_building => EInv'
  <2>1. SUFFICES ASSUME EInv, [EvidenceNext]_building PROVE EInv'
    OBVIOUS
  <2>2. CASE UNCHANGED building
    BY <2>1, <2>2, EvidenceRests
  <2>3. QED
    BY <2>1, <2>2, QualityKeeps, QualityEndKeeps, SchemaKeeps, ChangeKeeps, FinishKeeps DEF EvidenceNext
<1>3. QED
  BY <1>1, <1>2, PTL DEF EvidenceSpec

(* What build_evidence gives a model is true of the findings: every number  *)
(* cites the finding at its place in the tool's report and none is given    *)
(* twice, the note says exactly if it is a sample, and it fits the request. *)
THEOREM EvidenceAlwaysFaithful == EvidenceSpec => []EvidenceFaithful
<1>1. EInv => EvidenceFaithful
  <2>1. EInv => SampleDisclosed /\ NeverRefused
    BY DEF EInv, Loops, NeverRefused
  <2>2. QED
    BY <2>1, EvidenceTypes, StableNumbers DEF EvidenceFaithful
<1>2. QED
  BY <1>1, EvidenceInvariance, PTL

----------------------------------------------------------------------------
(* The rounds of run_agent_team *)

(* what the model server may have seen: drafts asked for, reviews, failures *)
Chat ==
    [role : {"analyst"}, feedback : Feedback \cup {None}, previous : Draft \cup {None},
     outcome : {"answered"}, reply : Draft]
    \cup [role : {"reviewer"}, draft : Draft, outcome : {"answered"}, reply : Review]
    \cup [role : {"analyst", "reviewer"}, outcome : {"lost", "broken"}]

(* what the next draft must take up, given the requests made so far         *)
TakesUp(asked, why, draft) ==
    IF Len(asked) = 0
    THEN why = None /\ draft = None
    ELSE LET told == asked[Len(asked)]
         IN  /\ draft = IF told.role = "analyst" THEN told.reply ELSE told.draft
             /\ why = IF told.role = "analyst" THEN DraftRefused
                      ELSE IF told.role = "reviewer" /\ Conclusive(told.reply)
                      THEN told.reply.comment
                      ELSE ReviewRefused

(* The attempt: which round it is in, and that the locals of run_agent_team *)
(* are what the requests made so far say.                                   *)
Attempt ==
    /\ chats \in Seq(Chat)
    /\ pc = "pending" => attempts < MaxAttempts
    /\ pc = "pending" /\ attempts > 0 => Last(chats).outcome = "lost"
    /\ pc \in {"analyst", "reviewer"} => Len(history) = round - 1
    /\ pc = "analyst" =>
          Len(chats) <= 2 * (round - 1) /\ TakesUp(chats, feedback, previous)
    /\ pc = "reviewer" =>
          Len(chats) <= 2 * (round - 1) + 1 /\ previous \in Draft /\ Acceptable(previous)

(* a round that ended without approval and says why                         *)
Unapproved(entry, i) == entry.round = i /\ ~ entry.approved /\ entry.feedback # Blank

Rounds ==
    pc \in {"analyst", "reviewer"} => \A i \in 1..Len(history) : Unapproved(history[i], i)

BInv ==
    /\ TypeOK /\ Attempt /\ Rounds
    /\ ApprovedAsReviewed /\ CorrectionsCarried /\ ExhaustionExplained

(* A request is added to the ones made, each of which carried what it had   *)
(* to.                                                                      *)
LEMMA Requested ==
    ASSUME BInv, NEW c \in Chat, chats' = Append(chats, c),
           c.role = "analyst" /\ c.outcome = "answered"
               => TakesUp(chats, c.feedback, c.previous)
    PROVE  /\ chats' \in Seq(Chat) /\ Len(chats') = Len(chats) + 1 /\ Len(chats) \in Nat
           /\ Last(chats') = c /\ chats'[Len(chats')] = c /\ CorrectionsCarried'
<1> DEFINE n == Len(chats)
<1>1. chats \in Seq(Chat)
  BY DEF BInv, Attempt
<1>2. /\ chats' \in Seq(Chat) /\ Len(chats') = n + 1 /\ chats'[n + 1] = c /\ n \in Nat
      /\ \A i \in 1..n : chats'[i] = chats[i]
  BY <1>1
<1>3. Last(chats') = c
  BY <1>2 DEF Last
<1>4. SUFFICES ASSUME NEW i \in 1..n + 1, chats'[i].role = "analyst", chats'[i].outcome = "answered"
               PROVE  IF i = 1
                      THEN chats'[i].feedback = None /\ chats'[i].previous = None
                      ELSE LET told == chats'[i - 1]
                           IN  /\ chats'[i].previous = IF told.role = "analyst" THEN told.reply
                                                       ELSE told.draft
                               /\ chats'[i].feedback = CASE told.role = "analyst" -> DraftRefused
                                     [] told.role = "reviewer" /\ Conclusive(told.reply)
                                        -> told.reply.comment
                                     [] OTHER -> ReviewRefused
  BY <1>2, <1>3 DEF CorrectionsCarried, Answered
<1>5. CASE i \in 1..n
  <2>1. i = 1 \/ i - 1 \in 1..n
    BY <1>2, <1>5
  <2>2. chats'[i] = chats[i] /\ (i # 1 => chats'[i - 1] = chats[i - 1])
    BY <1>2, <1>5, <2>1
  <2>3. i \in Answered("analyst")
    BY <1>4, <1>5, <2>2 DEF Answered
  <2>4. QED
    BY <2>2, <2>3 DEF BInv, CorrectionsCarried
<1>6. CASE i = n + 1
  <2>1. TakesUp(chats, c.feedback, c.previous) /\ chats'[i] = c
    BY <1>2, <1>4, <1>6
  <2>2. CASE n = 0
    BY <1>6, <2>1, <2>2 DEF TakesUp
  <2>3. CASE n # 0
    <3>1. i # 1 /\ i - 1 = n /\ chats'[i - 1] = chats[n]
      BY <1>2, <1>6, <2>3
    <3>2. QED
      BY <2>1, <2>3, <3>1 DEF TakesUp
  <2>4. QED
    BY <2>2, <2>3
<1>7. QED
  BY <1>2, <1>4, <1>5, <1>6

(* what a refused round leaves                                              *)
RefusalKept(why) ==
    /\ history' \in Seq(Entry) /\ Len(history') = round
    /\ \A i \in 1..round : Unapproved(history'[i], i)
    /\ feedback' = why /\ attempts' = attempts /\ output' = output /\ saved' \in Seq(Entry)
    /\ \/ round < MaxRounds /\ round' = round + 1 /\ pc' = "analyst" /\ saved' = saved
       \/ /\ round = MaxRounds /\ round' = round /\ pc' = "failed"
          /\ Len(saved') = MaxRounds
          /\ \A i \in 1..MaxRounds : Unapproved(saved'[i], i)

(* A round that ends without approval is recorded; the last one leaves all  *)
(* of them with the failure.                                                *)
LEMMA RoundRefused ==
    ASSUME BInv, pc \in {"analyst", "reviewer"}, NEW why \in Feedback, why # Blank, Refused(why)
    PROVE  RefusalKept(why)
<1> DEFINE entry == [round |-> round, approved |-> FALSE, feedback |-> why]
<1>1. /\ history \in Seq(Entry) /\ Len(history) = round - 1 /\ round \in 1..MaxRounds
      /\ MaxRounds \in 1..3 /\ saved \in Seq(Entry)
      /\ \A i \in 1..round - 1 : Unapproved(history[i], i)
  BY BriefingConstants DEF BInv, TypeOK, Attempt, Rounds
<1>2. entry \in Entry /\ Unapproved(entry, round)
  BY <1>1 DEF Entry, Unapproved
<1>3. history' = Append(history, entry) /\ feedback' = why
  BY DEF Refused
<1> HIDE DEF entry
<1>4. /\ history' \in Seq(Entry) /\ Len(history') = round /\ history'[round] = entry
      /\ \A i \in 1..round - 1 : history'[i] = history[i]
  BY <1>1, <1>2, <1>3
<1>5. \A i \in 1..round : Unapproved(history'[i], i)
  <2>1. \A i \in 1..round : i \in 1..round - 1 \/ i = round
    BY <1>1
  <2>2. QED
    BY <1>1, <1>2, <1>4, <2>1
<1>6. CASE round < MaxRounds
  BY <1>1, <1>3, <1>4, <1>5, <1>6 DEF Refused, RefusalKept
<1>7. CASE ~ (round < MaxRounds)
  <2>1. /\ round = MaxRounds /\ round' = round
        /\ saved' = Bounded(history') /\ pc' = "failed" /\ attempts' = attempts /\ output' = output
    BY <1>1, <1>7 DEF Refused, Fail
  <2>2. saved' = SubSeq(history', 1, MaxRounds)
    BY <1>1, <1>4, <2>1 DEF Bounded
  <2>3. /\ saved' \in Seq(Entry) /\ Len(saved') = MaxRounds
        /\ \A i \in 1..MaxRounds : saved'[i] = history'[i]
    BY <1>1, <1>4, <2>1, <2>2
  <2>4. QED
    BY <1>3, <1>4, <1>5, <2>1, <2>3 DEF RefusalKept
<1>8. QED
  BY <1>6, <1>7

(* With the request that was refused, a refused round keeps the invariant.  *)
LEMMA RefusedKeeps ==
    ASSUME BInv, pc \in {"analyst", "reviewer"}, NEW why \in Feedback, RefusalKept(why),
           previous' \in Draft, chats' \in Seq(Chat), Len(chats') \in Nat,
           Len(chats') <= 2 * round, CorrectionsCarried', TakesUp(chats, feedback, previous)'
    PROVE  BInv'
<1>1. round \in 1..MaxRounds /\ MaxRounds \in 1..3 /\ attempts \in 0..MaxAttempts
  BY BriefingConstants DEF BInv, TypeOK
<1>2. CASE round < MaxRounds /\ round' = round + 1 /\ pc' = "analyst" /\ saved' = saved
  <2>1. TypeOK'
    BY <1>1, <1>2 DEF TypeOK, RefusalKept
  <2>2. Attempt' /\ Rounds'
    BY <1>1, <1>2 DEF Attempt, Rounds, RefusalKept, Unapproved
  <2>3. ApprovedAsReviewed' /\ ExhaustionExplained'
    BY <1>2 DEF ApprovedAsReviewed, ExhaustionExplained
  <2>4. QED
    BY <2>1, <2>2, <2>3 DEF BInv
<1>3. CASE /\ round = MaxRounds /\ round' = round /\ pc' = "failed"
           /\ Len(saved') = MaxRounds /\ \A i \in 1..MaxRounds : Unapproved(saved'[i], i)
  <2>1. TypeOK'
    BY <1>1, <1>3 DEF TypeOK, RefusalKept
  <2>2. Attempt' /\ Rounds'
    BY <1>3 DEF Attempt, Rounds
  <2>3. ApprovedAsReviewed' /\ ExhaustionExplained'
    BY <1>3 DEF ApprovedAsReviewed, ExhaustionExplained, Unapproved
  <2>4. QED
    BY <2>1, <2>2, <2>3 DEF BInv
<1>4. QED
  BY <1>2, <1>3 DEF RefusalKept

(* An attempt begins with nothing carried over.                             *)
LEMMA StartKeeps ==
    ASSUME BInv, Start
    PROVE  BInv'
<1>1. /\ pc = "pending" /\ attempts' = attempts + 1 /\ pc' = "analyst" /\ round' = 1
      /\ feedback' = None /\ previous' = None /\ history' = <<>> /\ chats' = <<>>
      /\ UNCHANGED <<saved, output>>
  BY DEF Start
<1>2. /\ attempts \in 0..MaxAttempts /\ attempts < MaxAttempts /\ MaxAttempts \in Nat
      /\ MaxRounds \in 1..3 /\ saved \in Seq(Entry)
  BY <1>1, BriefingConstants DEF BInv, TypeOK, Attempt
<1>3. Len(chats') = 0 /\ Len(history') = 0
  BY <1>1
<1>4. TypeOK'
  <2>1. history' \in Seq(Entry) /\ attempts' \in 0..MaxAttempts /\ Len(chats') <= 2 * MaxRounds
    BY <1>1, <1>2, <1>3
  <2>2. QED
    BY <1>1, <1>2, <2>1 DEF TypeOK
<1>5. Attempt'
  BY <1>1, <1>2, <1>3 DEF Attempt, TakesUp
<1>6. Rounds'
  BY <1>3 DEF Rounds
<1>7. CorrectionsCarried'
  BY <1>3 DEF CorrectionsCarried, Answered
<1>8. ApprovedAsReviewed' /\ ExhaustionExplained'
  BY <1>1 DEF ApprovedAsReviewed, ExhaustionExplained
<1>9. QED
  BY <1>4, <1>5, <1>6, <1>7, <1>8 DEF BInv

(* A draft is sent to review, or back to the analyst with what is wrong.    *)
LEMMA AnalystKeeps ==
    ASSUME BInv, Analyst
    PROVE  BInv'
<1>1. pc = "analyst"
  BY DEF Analyst
<1>2. PICK d \in Draft :
          /\ Ask([role |-> "analyst", feedback |-> feedback, previous |-> previous,
                outcome |-> "answered", reply |-> d])
          /\ previous' = d
          /\ IF Acceptable(d)
             THEN pc' = "reviewer" /\ UNCHANGED <<attempts, round, feedback, history, saved, output>>
             ELSE Refused(DraftRefused)
  BY DEF Analyst
<1>3. /\ feedback \in Feedback \cup {None} /\ previous \in Draft \cup {None}
      /\ attempts \in 0..MaxAttempts /\ round \in 1..MaxRounds /\ MaxRounds \in 1..3
      /\ history \in Seq(Entry) /\ saved \in Seq(Entry)
      /\ Len(history) = round - 1 /\ Len(chats) <= 2 * (round - 1)
      /\ TakesUp(chats, feedback, previous)
  BY <1>1, BriefingConstants DEF BInv, TypeOK, Attempt
<1>4. PICK c \in Chat : /\ chats' = Append(chats, c)
                        /\ c.role = "analyst" /\ c.outcome = "answered" /\ c.reply = d
                        /\ c.feedback = feedback /\ c.previous = previous
  BY <1>2, <1>3 DEF Chat, Ask
<1>5. /\ chats' \in Seq(Chat) /\ Len(chats') = Len(chats) + 1 /\ Len(chats) \in Nat
      /\ Last(chats') = c /\ chats'[Len(chats')] = c /\ CorrectionsCarried'
  BY <1>3, <1>4, Requested
<1>6. CASE Acceptable(d)
  <2>1. /\ pc' = "reviewer"
        /\ UNCHANGED <<attempts, round, feedback, history, saved, output>>
    BY <1>2, <1>6
  <2>2. TypeOK'
    BY <1>2, <1>3, <1>5, <2>1 DEF TypeOK
  <2>3. Attempt'
    BY <1>2, <1>3, <1>5, <1>6, <2>1 DEF Attempt, Acceptable
  <2>4. Rounds'
    BY <1>1, <2>1 DEF Rounds, Unapproved, BInv
  <2>5. ApprovedAsReviewed' /\ ExhaustionExplained'
    BY <2>1 DEF ApprovedAsReviewed, ExhaustionExplained
  <2>6. QED
    BY <1>5, <2>2, <2>3, <2>4, <2>5 DEF BInv
<1>7. CASE ~ Acceptable(d)
  <2>1. DraftRefused \in Feedback /\ DraftRefused # Blank
    BY DEF Feedback, DraftRefused, Blank
  <2>2. Refused(DraftRefused)
    BY <1>2, <1>7
  <2>3. RefusalKept(DraftRefused)
    BY <1>1, <2>1, <2>2, RoundRefused
  <2>4. TakesUp(chats, feedback, previous)'
    BY <1>2, <1>4, <1>5, <2>3 DEF TakesUp, RefusalKept
  <2>5. QED
    BY <1>1, <1>2, <1>3, <1>5, <2>1, <2>3, <2>4, RefusedKeeps
<1>8. QED
  BY <1>6, <1>7

(* A verdict approves this draft, or says why not.                          *)
LEMMA ReviewerKeeps ==
    ASSUME BInv, Reviewer
    PROVE  BInv'
<1>1. pc = "reviewer" /\ previous' = previous
  BY DEF Reviewer
<1>2. PICK r \in Review :
          /\ Ask([role |-> "reviewer", draft |-> previous, outcome |-> "answered", reply |-> r])
          /\ IF Approves(r)
             THEN /\ history' = Append(history, [round |-> round, approved |-> TRUE,
                                                 feedback |-> r.comment])
                  /\ output' = [briefing |-> previous, rounds |-> round]
                  /\ pc' = "approved"
                  /\ UNCHANGED <<attempts, round, feedback, saved>>
             ELSE Refused(IF Conclusive(r) THEN r.comment ELSE ReviewRefused)
  BY DEF Reviewer
<1>3. /\ feedback \in Feedback \cup {None} /\ previous \in Draft /\ Acceptable(previous)
      /\ attempts \in 0..MaxAttempts /\ round \in 1..MaxRounds /\ MaxRounds \in 1..3
      /\ history \in Seq(Entry) /\ saved \in Seq(Entry)
      /\ Len(history) = round - 1 /\ Len(chats) <= 2 * (round - 1) + 1
      /\ \A i \in 1..round - 1 : Unapproved(history[i], i)
  BY <1>1, BriefingConstants DEF BInv, TypeOK, Attempt, Rounds
<1>4. PICK c \in Chat : /\ chats' = Append(chats, c)
                        /\ c.role = "reviewer" /\ c.outcome = "answered" /\ c.reply = r
                        /\ c.draft = previous
  <2> DEFINE chat == [role |-> "reviewer", draft |-> previous, outcome |-> "answered", reply |-> r]
  <2>1. chat \in [role : {"reviewer"}, draft : Draft, outcome : {"answered"}, reply : Review]
    BY <1>2, <1>3
  <2>2. chat \in Chat
    BY <2>1 DEF Chat
  <2>3. QED
    BY <1>2, <2>2 DEF Ask
<1>5. /\ chats' \in Seq(Chat) /\ Len(chats') = Len(chats) + 1 /\ Len(chats) \in Nat
      /\ Last(chats') = c /\ chats'[Len(chats')] = c /\ CorrectionsCarried'
  BY <1>4, Requested
<1>6. r.comment \in Comments \cup {Blank} /\ r.formed \in BOOLEAN /\ r.approved \in BOOLEAN
  BY DEF Review
<1>7. CASE Approves(r)
  <2> DEFINE entry == [round |-> round, approved |-> TRUE, feedback |-> r.comment]
  <2>1. /\ history' = Append(history, entry) /\ pc' = "approved"
        /\ output' = [briefing |-> previous, rounds |-> round]
        /\ UNCHANGED <<attempts, round, feedback, saved>>
    BY <1>2, <1>7
  <2>2. entry \in Entry /\ entry.approved
    BY <1>3, <1>6 DEF Entry, Feedback
  <2> HIDE DEF entry
  <2>3. /\ history' \in Seq(Entry) /\ Len(history') = round /\ history'[round] = entry
        /\ \A i \in 1..round - 1 : history'[i] = history[i]
    BY <1>3, <2>1, <2>2
  <2>4. TypeOK'
    BY <1>1, <1>3, <1>5, <2>1, <2>3 DEF TypeOK
  <2>5. Attempt' /\ Rounds'
    BY <1>5, <2>1 DEF Attempt, Rounds
  <2>6. \A i \in 1..round : history'[i].approved <=> i = round
    <3>1. \A i \in 1..round : (i \in 1..round - 1 /\ i # round) \/ i = round
      BY <1>3
    <3>2. QED
      BY <1>3, <2>2, <2>3, <3>1 DEF Unapproved
  <2>7. ApprovedAsReviewed'
    BY <1>3, <1>4, <1>5, <1>7, <2>1, <2>3, <2>6 DEF ApprovedAsReviewed, Approves, Conclusive, Acceptable
  <2>8. ExhaustionExplained'
    BY <2>1 DEF ExhaustionExplained
  <2>9. QED
    BY <1>5, <2>4, <2>5, <2>7, <2>8 DEF BInv
<1>8. CASE ~ Approves(r)
  <2> DEFINE why == IF Conclusive(r) THEN r.comment ELSE ReviewRefused
  <2>1. why \in Feedback /\ why # Blank
    BY <1>6, <1>8 DEF Feedback, ReviewRefused, Blank, Conclusive, Approves
  <2>2. Refused(why)
    BY <1>2, <1>8
  <2> HIDE DEF why
  <2>3. RefusalKept(why)
    BY <1>1, <2>1, <2>2, RoundRefused
  <2>4. TakesUp(chats, feedback, previous)'
    BY <1>1, <1>4, <1>5, <2>3 DEF TakesUp, RefusalKept, why
  <2>5. QED
    BY <1>1, <1>3, <1>5, <2>1, <2>3, <2>4, RefusedKeeps
<1>9. QED
  BY <1>7, <1>8

(* A request that fails ends the attempt; what may be gone later is tried   *)
(* again, while attempts remain.                                            *)
LEMMA ChatFailsKeeps ==
    ASSUME BInv, NEW role \in {"analyst", "reviewer"}, ChatFails(role)
    PROVE  BInv'
<1>1. pc = role /\ UNCHANGED <<round, feedback, previous, history>>
  BY DEF ChatFails, locals
<1>2. PICK temporary \in BOOLEAN :
          /\ Ask([role |-> role, outcome |-> IF temporary THEN "lost" ELSE "broken"])
          /\ Fail(temporary, <<>>)
  BY DEF ChatFails
<1>3. /\ attempts \in 0..MaxAttempts /\ round \in 1..MaxRounds /\ MaxRounds \in 1..3
      /\ MaxAttempts \in 1..5 /\ saved \in Seq(Entry) /\ Len(chats) <= 2 * (round - 1) + 1
  BY <1>1, BriefingConstants DEF BInv, TypeOK, Attempt
<1>4. PICK c \in Chat : /\ chats' = Append(chats, c)
                        /\ c.outcome = IF temporary THEN "lost" ELSE "broken"
  BY <1>2 DEF Chat, Ask
<1>5. /\ chats' \in Seq(Chat) /\ Len(chats') = Len(chats) + 1 /\ Len(chats) \in Nat
      /\ Last(chats') = c /\ CorrectionsCarried'
  BY <1>4, Requested
<1>6. /\ pc' = IF temporary /\ attempts < MaxAttempts THEN "pending" ELSE "failed"
      /\ attempts' = attempts /\ output' = output /\ saved' \in Seq(Entry)
  <2>1. Bounded(<<>>) \in Seq(Entry)
    BY DEF Bounded
  <2>2. QED
    BY <1>2, <2>1 DEF Fail
<1>7. TypeOK'
  BY <1>1, <1>3, <1>5, <1>6 DEF TypeOK, BInv
<1>8. Attempt' /\ Rounds'
  BY <1>4, <1>5, <1>6 DEF Attempt, Rounds
<1>9. ApprovedAsReviewed' /\ ExhaustionExplained'
  BY <1>4, <1>5, <1>6 DEF ApprovedAsReviewed, ExhaustionExplained
<1>10. QED
  BY <1>5, <1>7, <1>8, <1>9 DEF BInv

(* For any replies and failures of the models, each request carried what    *)
(* the one before left to correct, and the rounds tell how they ended.      *)
THEOREM BriefingInvariance == Spec => []BInv
<1>1. Init => BInv
  <2>1. SUFFICES ASSUME Init PROVE BInv
    OBVIOUS
  <2>2. Len(chats) = 0 /\ chats = <<>> /\ pc = "pending" /\ attempts = 0
    BY <2>1 DEF Init
  <2>3. TypeOK
    BY <2>1, BriefingConstants DEF Init, TypeOK
  <2>4. Attempt /\ Rounds
    BY <2>2, BriefingConstants DEF Attempt, Rounds
  <2>5. ApprovedAsReviewed /\ CorrectionsCarried /\ ExhaustionExplained
    BY <2>2 DEF ApprovedAsReviewed, CorrectionsCarried, ExhaustionExplained, Answered
  <2>6. QED
    BY <2>3, <2>4, <2>5 DEF BInv
<1>2. BInv /\ [Next]_vars => BInv'
  <2>1. SUFFICES ASSUME BInv, [Next]_vars PROVE BInv'
    OBVIOUS
  <2>2. CASE UNCHANGED vars
    <3>1. UNCHANGED <<pc, attempts, round, feedback, previous, history, chats, saved, output>>
      BY <2>2 DEF vars, locals
    <3>2. TypeOK' /\ Attempt' /\ Rounds'
      BY <2>1, <3>1 DEF BInv, TypeOK, Attempt, Rounds, TakesUp, Unapproved
    <3>3. ApprovedAsReviewed' /\ CorrectionsCarried' /\ ExhaustionExplained'
      BY <2>1, <3>1 DEF BInv, ApprovedAsReviewed, CorrectionsCarried, ExhaustionExplained, Answered
    <3>4. QED
      BY <3>2, <3>3 DEF BInv
  <2>3. QED
    BY <2>1, <2>2, StartKeeps, AnalystKeeps, ReviewerKeeps, ChatFailsKeeps DEF Next
<1>3. QED
  BY <1>1, <1>2, PTL DEF Spec

(* The briefing is the draft the reviewer approved, citing only what was    *)
(* supplied; the analyst was told what to correct; exhausted rounds leave   *)
(* their reasons: run_agent_team of agents.py, for any models.              *)
THEOREM ReviewsAlwaysFaithful == Spec => []ReviewFaithful
<1>1. BInv => ReviewFaithful
  BY DEF BInv, ReviewFaithful
<1>2. QED
  BY <1>1, BriefingInvariance, PTL

(* An attempt follows another only if the last request was lost: what a     *)
(* model answered, and a review that gave up, is not repeated.              *)
THEOREM OnlyLossRepeated == Spec => RepeatedIfTemporary
<1>1. BInv /\ [Next]_vars
      => [attempts > 0 /\ attempts' > attempts => Last(chats).outcome = "lost"]_vars
  <2>1. SUFFICES ASSUME BInv, Next, attempts > 0, attempts' > attempts
                 PROVE  Last(chats).outcome = "lost"
    OBVIOUS
  <2>2. attempts \in Nat
    BY <2>1 DEF BInv, TypeOK
  <2>3. CASE Start
    BY <2>1, <2>3 DEF BInv, Attempt, Start
  <2>4. CASE Analyst \/ Reviewer \/ ChatFails("analyst") \/ ChatFails("reviewer")
    <3>1. attempts' = attempts
      BY <2>4 DEF Analyst, Reviewer, ChatFails, Refused, Fail
    <3>2. QED
      BY <2>1, <2>2, <3>1
  <2>5. QED
    BY <2>1, <2>3, <2>4 DEF Next
<1>2. QED
  BY <1>1, BriefingInvariance, PTL DEF Spec, RepeatedIfTemporary
=============================================================================
