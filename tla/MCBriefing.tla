----------------------------- MODULE MCBriefing -----------------------------
(***************************************************************************)
(* opscheck/agents.py for TLC.  A behaviour builds the evidence of one     *)
(* pair of results (Evidence), or has the models write and review a        *)
(* briefing that cites it (Briefing); the other rests where it would begin.*)
(***************************************************************************)
EXTENDS Evidence, Briefing

CONSTANTS V1, V2, text1, text2, comment1

VARIABLE call       \* which of the two

(* Findings are small or large, shortened or not; two or three fit.         *)
SmallFindings == {[size |-> 1, long |-> FALSE], [size |-> 1, long |-> TRUE],
                  [size |-> 3, long |-> FALSE]}

EvidenceRests ==
    /\ qualityTotal = 0 /\ changeTotal = 0 /\ schema = Absent
    /\ EvidenceInit

TeamInit ==
    \/ call = "build_evidence" /\ EvidenceInit /\ Init
    \/ call = "run_agent_team" /\ EvidenceRests /\ Init

TeamNext ==
    \/ call = "build_evidence" /\ EvidenceNext /\ UNCHANGED <<call, vars>>
    \/ call = "run_agent_team" /\ Next /\ UNCHANGED <<call, building>>

(* A request is answered or fails within REQUEST_TIMEOUT_SECONDS.           *)
FairTeam ==
    /\ TeamInit /\ [][TeamNext]_<<call, vars, building>>
    /\ WF_<<call, vars, building>>(TeamNext)

(* The task briefing_agent repeats only what may help, and ends (Briefing). *)
TeamRetriesBounded ==
    /\ RepeatedIfTemporary
    /\ call = "run_agent_team" => BriefingEnds
=============================================================================
