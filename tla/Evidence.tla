------------------------------ MODULE Evidence ------------------------------
(***************************************************************************)
(* build_evidence of opscheck/agents.py: what the engines found, numbered  *)
(* and sampled to fit a model's request, with a note of what was left out. *)
(* The briefing cites the numbers, and run_agent_team refuses evidence in  *)
(* which a number occurs twice.                                            *)
(*                                                                         *)
(* A finding is the size it has once its values are bounded, and whether   *)
(* that shortened them.  Summaries are counts, which are never shortened.  *)
(***************************************************************************)
EXTENDS Integers, Sequences, SequencesExt, FiniteSetsExt

CONSTANTS
    Findings,     \* what a finding may be
    MaxTotal,     \* bound: findings of an engine, the ones it did not report included
    Reported,     \* findings an engine reports at most (its max_findings)
    MaxFindings,  \* findings considered of each engine
    MaxBytes,     \* size of the evidence
    Reserve,      \* space kept for the counters
    BaseSize      \* the two summaries and the note

Finding == [size : Nat, long : BOOLEAN]

(* what the sizes satisfy                                                  *)
ASSUME EvidenceConstants ==
    /\ Findings \subseteq Finding
    /\ {MaxTotal, Reported, MaxFindings, MaxBytes, Reserve, BaseSize} \subseteq Nat
    /\ BaseSize + Reserve <= MaxBytes

Absent == [size |-> 0, long |-> FALSE]      \* the schema has not changed

VARIABLES
    quality, change,            \* the findings of the engines, in their order
    qualityTotal, changeTotal,  \* how many there were
    schema,                     \* the schema's change as a finding, or Absent
    phase, next,                \* where the loops are
    changeNumber,
    evidence,                   \* what has been appended, with its number
    trimmed, applied

inputs == <<quality, change, qualityTotal, changeTotal, schema>>
building == <<inputs, phase, next, changeNumber, evidence, trimmed, applied>>

Numbers == {"V", "C"} \X Nat

EvidenceTypeOK ==
    /\ phase \in {"quality", "schema", "change", "done", "refused"}
    /\ next \in 1..MaxFindings + 1
    /\ changeNumber \in 1..MaxFindings + 2
    /\ \A i \in 1..Len(evidence) : evidence[i].id \in Numbers /\ evidence[i].finding \in Finding
    /\ trimmed \in BOOLEAN /\ applied \in BOOLEAN

EvidenceInit ==
    /\ qualityTotal \in 0..MaxTotal /\ changeTotal \in 0..MaxTotal
    /\ \E q, c \in BoundedSeq(Findings, Reported) :
          /\ quality = q /\ Len(q) = Min({qualityTotal, Reported})
          /\ change = c /\ Len(c) = Min({changeTotal, Reported})
    /\ schema \in Findings \cup {Absent}
    /\ phase = "quality" /\ next = 1 /\ changeNumber = 1
    /\ evidence = <<>> /\ trimmed = FALSE /\ applied = FALSE

----------------------------------------------------------------------------
Size(e) ==
    LET upTo[n \in 0..Len(e)] == IF n = 0 THEN BaseSize ELSE upTo[n - 1] + e[n].finding.size
    IN  upTo[Len(e)]

Fits(e) == Size(e) <= MaxBytes - Reserve

(* The entry is bounded and appended, and taken back if it does not fit.    *)
Offer(id, f) ==
    LET longer == Append(evidence, [id |-> id, finding |-> f])
    IN  /\ evidence' = IF Fits(longer) THEN longer ELSE evidence
        /\ trimmed' = (trimmed \/ f.long \/ ~ Fits(longer))

Considered(findings) == Min({Len(findings), MaxFindings})

Quality ==
    /\ phase = "quality" /\ next <= Considered(quality)
    /\ Offer(<<"V", next>>, quality[next])
    /\ next' = next + 1
    /\ UNCHANGED <<inputs, phase, changeNumber, applied>>

QualityEnd ==
    /\ phase = "quality" /\ next > Considered(quality)
    /\ phase' = "schema"
    /\ UNCHANGED <<inputs, next, changeNumber, evidence, trimmed, applied>>

(* The change of the schema takes the number C1, whether or not it fits.    *)
Schema ==
    /\ phase = "schema"
    /\ IF schema # Absent
       THEN Offer(<<"C", 1>>, schema) /\ changeNumber' = 2
       ELSE UNCHANGED <<evidence, trimmed, changeNumber>>
    /\ phase' = "change" /\ next' = 1
    /\ UNCHANGED <<inputs, applied>>

(* faulty: only what is appended is numbered                                *)
ChangeNumberedIfFits ==
    /\ phase = "change" /\ next <= Considered(change)
    /\ Offer(<<"C", changeNumber>>, change[next])
    /\ next' = next + 1
    /\ changeNumber' = changeNumber + Len(evidence') - Len(evidence)
    /\ UNCHANGED <<inputs, phase, applied>>

Change ==
    /\ phase = "change" /\ next <= Considered(change)
    /\ Offer(<<"C", changeNumber>>, change[next])
    /\ next' = next + 1 /\ changeNumber' = changeNumber + 1
    /\ UNCHANGED <<inputs, phase, applied>>

Included(kind) == Cardinality({i \in 1..Len(evidence) : evidence[i].id[1] = kind})
SchemaIncluded == schema # Absent /\ \E i \in 1..Len(evidence) : evidence[i].finding = schema
                                                         /\ evidence[i].id = <<"C", 1>>
ChangesIncluded == Included("C") - IF SchemaIncluded THEN 1 ELSE 0

Applied ==
    \/ trimmed
    \/ qualityTotal > Included("V")
    \/ changeTotal > ChangesIncluded
    \/ Len(quality) > Included("V")
    \/ Len(change) > ChangesIncluded
    \/ schema # Absent /\ ~ SchemaIncluded

(* The counters are filled in, and the whole is measured again.             *)
Finish ==
    /\ phase = "change" /\ next > Considered(change)
    /\ applied' = Applied
    /\ \E growth \in 0..Reserve :
          phase' = IF Size(evidence) + growth > MaxBytes THEN "refused" ELSE "done"
    /\ UNCHANGED <<inputs, next, changeNumber, evidence, trimmed>>

EvidenceNext == Quality \/ QualityEnd \/ Schema \/ Change \/ Finish

EvidenceSpec == EvidenceInit /\ [][EvidenceNext]_building

----------------------------------------------------------------------------
(* What the numbers stand for.                                              *)
Numbered(id) ==
    CASE id[1] = "V" -> quality[id[2]]
      [] id = <<"C", 1>> /\ schema # Absent -> schema
      [] OTHER -> change[id[2] - IF schema # Absent THEN 1 ELSE 0]

(* A number cites the same finding whatever else fits in the evidence: the  *)
(* reader of the briefing finds it at that place of the tool's report, and  *)
(* no number is given twice (run_agent_team would refuse the evidence).     *)
NumbersStable ==
    /\ \A i \in 1..Len(evidence) : evidence[i].finding = Numbered(evidence[i].id)
    /\ \A i, j \in 1..Len(evidence) : evidence[i].id = evidence[j].id => i = j

(* The note says that the evidence is a sample exactly if something was     *)
(* left out or shortened: by the engine, by the limit on findings, by the   *)
(* size of the request or by bounding a value.                              *)
SampleDisclosed ==
    phase = "done" =>
        (applied <=> \/ Included("V") < qualityTotal
                     \/ ChangesIncluded < changeTotal
                     \/ schema # Absent /\ ~ SchemaIncluded
                     \/ \E i \in 1..Len(evidence) : evidence[i].finding.long)

(* Sampling prevents that evidence is refused for its size: the counters    *)
(* that are filled in afterwards do not push it over the limit.             *)
NeverRefused == phase # "refused"

(* What a model reads and a human checks against the tool's report is true  *)
(* of the findings, and fits the request.                                   *)
EvidenceFaithful == EvidenceTypeOK /\ NumbersStable /\ SampleDisclosed /\ NeverRefused
=============================================================================
