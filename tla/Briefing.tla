------------------------------ MODULE Briefing ------------------------------
(***************************************************************************)
(* The briefing written by a model: run_agent_team of opscheck/agents.py,  *)
(* in the attempts that _run_tasks of opscheck/workflow.py allows to the   *)
(* task briefing_agent in one invocation.                                  *)
(*                                                                         *)
(* The models are outside: a request gets any reply, or fails.  A draft is *)
(* its text, whether it has the required form, and the evidence it cites;  *)
(* chats is what the model server has seen of this attempt.                *)
(***************************************************************************)
EXTENDS Naturals, Sequences, SequencesExt

CONSTANTS
    Ids,          \* what a model may cite
    Supplied,     \* the numbers of the evidence
    Texts, Comments,
    None,         \* no feedback, no draft yet
    MaxRounds, MaxAttempts

ASSUME BriefingConstants ==
    /\ Supplied \subseteq Ids
    /\ MaxRounds \in 1..3
    /\ MaxAttempts \in 1..5

Draft == [text : Texts, formed : BOOLEAN, cites : SUBSET Ids]
Blank == "blank"
Review == [formed : BOOLEAN, approved : BOOLEAN, comment : Comments \cup {Blank}]

(* what the analyst is told to correct                                      *)
DraftRefused == "draft refused"
ReviewRefused == "review refused"
Feedback == Comments \cup {DraftRefused, ReviewRefused}

VARIABLES
    pc, attempts,
    round, feedback, previous, history,    \* the locals of run_agent_team
    chats,
    saved,     \* the review history recorded with a failed attempt
    output     \* the result of the task

locals == <<round, feedback, previous, history>>
vars == <<pc, attempts, locals, chats, saved, output>>

Entry == [round : 1..MaxRounds, approved : BOOLEAN, feedback : Feedback \cup {Blank}]

TypeOK ==
    /\ pc \in {"pending", "analyst", "reviewer", "approved", "failed"}
    /\ attempts \in 0..MaxAttempts
    /\ round \in 1..MaxRounds
    /\ feedback \in Feedback \cup {None}
    /\ previous \in Draft \cup {None}
    /\ history \in Seq(Entry) /\ saved \in Seq(Entry)
    /\ Len(chats) <= 2 * MaxRounds

Init ==
    /\ pc = "pending" /\ attempts = 0
    /\ round = 1 /\ feedback = None /\ previous = None /\ history = <<>>
    /\ chats = <<>> /\ saved = <<>> /\ output = None

----------------------------------------------------------------------------
(* faulty: the citations are not compared with the evidence                 *)
WellFormed(d) == d.formed

(* _validate_briefing                                                       *)
Acceptable(d) == d.formed /\ d.cites \subseteq Supplied

(* _validate_review                                                         *)
Conclusive(r) == r.formed /\ (r.approved \/ r.comment # Blank)

(* each attempt begins with separate, empty contexts                        *)
Start ==
    /\ pc = "pending"
    /\ attempts' = attempts + 1
    /\ pc' = "analyst"
    /\ round' = 1 /\ feedback' = None /\ previous' = None /\ history' = <<>> /\ chats' = <<>>
    /\ UNCHANGED <<saved, output>>

(* _review_history                                                          *)
Bounded(rounds) == SubSeq(rounds, 1, IF Len(rounds) < 3 THEN Len(rounds) ELSE 3)

(* faulty: any failure is repeated                                          *)
FailAndRepeat(retryable, rounds) ==
    /\ saved' = Bounded(rounds)
    /\ pc' = IF attempts < MaxAttempts THEN "pending" ELSE "failed"
    /\ UNCHANGED <<attempts, output>>

(* The engine saves the failure, and retries the task if that may help.     *)
Fail(retryable, rounds) ==
    /\ saved' = Bounded(rounds)
    /\ pc' = IF retryable /\ attempts < MaxAttempts THEN "pending" ELSE "failed"
    /\ UNCHANGED <<attempts, output>>

Ask(chat) == chats' = Append(chats, chat)

(* The server cannot be reached, answers too late or with a temporary       *)
(* error; or its answer is an error, too large or no chat completion.       *)
ChatFails(role) ==
    /\ pc = role
    /\ \E temporary \in BOOLEAN :
          /\ Ask([role |-> role, outcome |-> IF temporary THEN "lost" ELSE "broken"])
          /\ Fail(temporary, <<>>)
    /\ UNCHANGED locals

(* A round ends without approval, and another begins unless it was the last.*)
Refused(why) ==
    /\ feedback' = why
    /\ history' = Append(history, [round |-> round, approved |-> FALSE, feedback |-> why])
    /\ IF round < MaxRounds
       THEN round' = round + 1 /\ pc' = "analyst" /\ UNCHANGED <<attempts, saved, output>>
       ELSE UNCHANGED round /\ Fail(FALSE, history')

(* faulty: a refused draft is not shown to the analyst again                *)
AnalystForgets ==
    /\ pc = "analyst"
    /\ \E d \in Draft :
          /\ Ask([role |-> "analyst", feedback |-> feedback, previous |-> previous,
                outcome |-> "answered", reply |-> d])
          /\ IF Acceptable(d)
             THEN pc' = "reviewer" /\ previous' = d
                  /\ UNCHANGED <<attempts, round, feedback, history, saved, output>>
             ELSE Refused(DraftRefused) /\ UNCHANGED previous

Analyst ==
    /\ pc = "analyst"
    /\ \E d \in Draft :
          /\ Ask([role |-> "analyst", feedback |-> feedback, previous |-> previous,
                outcome |-> "answered", reply |-> d])
          /\ previous' = d
          /\ IF Acceptable(d)
             THEN pc' = "reviewer" /\ UNCHANGED <<attempts, round, feedback, history, saved, output>>
             ELSE Refused(DraftRefused)

Approves(r) == Conclusive(r) /\ r.approved

Reviewer ==
    /\ pc = "reviewer"
    /\ \E r \in Review :
          /\ Ask([role |-> "reviewer", draft |-> previous, outcome |-> "answered", reply |-> r])
          /\ IF Approves(r)
             THEN /\ history' = Append(history, [round |-> round, approved |-> TRUE,
                                                 feedback |-> r.comment])
                  /\ output' = [briefing |-> previous, rounds |-> round]
                  /\ pc' = "approved"
                  /\ UNCHANGED <<attempts, round, feedback, saved>>
             ELSE Refused(IF Conclusive(r) THEN r.comment ELSE ReviewRefused)
    /\ UNCHANGED previous

Next == Start \/ Analyst \/ Reviewer \/ ChatFails("analyst") \/ ChatFails("reviewer")

Spec == Init /\ [][Next]_vars

----------------------------------------------------------------------------
Answered(role) ==
    {i \in 1..Len(chats) : chats[i].role = role /\ chats[i].outcome = "answered"}

(* The briefing is the very draft that the reviewer approved, in a verdict  *)
(* of the required form, at the last request made; it cites nothing but the *)
(* evidence supplied; and the review history shows every round, of which    *)
(* only the last one was approved.                                          *)
ApprovedAsReviewed ==
    pc = "approved" =>
        /\ Last(chats).role = "reviewer" /\ Last(chats).draft = output.briefing
        /\ Last(chats).reply.formed /\ Last(chats).reply.approved
        /\ output.briefing.cites \subseteq Supplied
        /\ Len(history) = output.rounds
        /\ \A i \in 1..Len(history) : history[i].approved <=> i = output.rounds

(* The analyst is asked to revise its own last draft and told what was      *)
(* wrong with it, whether its form, the reviewer's verdict or the form of   *)
(* that verdict; the first request of an attempt carries nothing over.      *)
CorrectionsCarried ==
    \A i \in Answered("analyst") :
        IF i = 1
        THEN chats[i].feedback = None /\ chats[i].previous = None
        ELSE LET told == chats[i - 1]
             IN  /\ chats[i].previous = IF told.role = "analyst" THEN told.reply ELSE told.draft
                 /\ chats[i].feedback = CASE told.role = "analyst" -> DraftRefused
                                          [] told.role = "reviewer" /\ Conclusive(told.reply)
                                             -> told.reply.comment
                                          [] OTHER -> ReviewRefused

(* When the rounds are used up, the failure is recorded with all of them,   *)
(* and each says what was wrong (the review_history of _review_history).    *)
ExhaustionExplained ==
    pc = "failed" /\ Last(chats).outcome = "answered" =>
        /\ Len(saved) = MaxRounds
        /\ \A i \in 1..MaxRounds : /\ saved[i].round = i /\ ~ saved[i].approved
                                   /\ saved[i].feedback # Blank

(* A briefing that is delivered was reviewed as it is, and one that is not  *)
(* says why.                                                                *)
ReviewFaithful == TypeOK /\ ApprovedAsReviewed /\ CorrectionsCarried /\ ExhaustionExplained

(* Only a temporary failure of the transport is repeated: "malformed model  *)
(* output, or exhausted model review are not fixed by blindly repeating the *)
(* same operation" (docs/ARCHITECTURE.md 70).                               *)
RepeatedIfTemporary ==
    [][attempts > 0 /\ attempts' > attempts => Last(chats).outcome = "lost"]_vars

(* The task ends, whatever the models answer.                               *)
BriefingEnds == <>(pc \in {"approved", "failed"})
=============================================================================
