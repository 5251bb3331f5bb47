----------------------------- MODULE MCDelivery -----------------------------
(***************************************************************************)
(* An instance of Delivery for TLC: a worker with its heartbeat, a command *)
(* that retries the same event and a human.                                *)
(***************************************************************************)
EXTENDS Delivery

CONSTANTS
    w1, c1, h1,
    MaxTogether     \* bound: commands started, deaths, interrupts and faults in all

Together == spent.starts + spent.deaths + spent.interrupts + spent.faults

(* The bounds of Delivery say how often each thing may happen, this one how *)
(* many of them may happen in one behaviour.                                *)
FairTogether ==
    /\ DeliveryInit
    /\ [][DeliveryNext /\ Together' <= MaxTogether]_allVars
    /\ Fairness
=============================================================================
