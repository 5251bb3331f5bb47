------------------------------ MODULE MCQueue ------------------------------
(***************************************************************************)
(* Instances of Queue for TLC.  MCQueue.cfg follows one job with its event *)
(* and its run through everything; MCQueueOrder.cfg follows two jobs whose *)
(* runs are executing, to see whom the queue hands out first, or one with  *)
(* failures behind it, to see how long a failed job waits.                 *)
(***************************************************************************)
EXTENDS Queue

CONSTANT Failures       \* how often job 1 may have failed so far

Failed == [replay |-> 0, outcome |-> "FAILED", lost |-> FALSE, notes |-> 0]

(* Two events have been claimed and their runs created.  Job 1 exists and   *)
(* has two deliveries left; job 2 does not exist yet.                       *)
OrderInit ==
    /\ run = [j \in Jobs |-> [NoRun EXCEPT !.status = "RUNNING"]]
    /\ event = [j \in Jobs |-> [status |-> "WORKFLOW_CREATED", retryable |-> FALSE]]
    /\ processing = [j \in Jobs |-> "executing"]
    /\ live = [j \in Jobs |-> {}]
    /\ \E n \in Failures, priority \in Priorities :
          queue = [j \in Jobs |->
                     IF j # 1 THEN Absent
                     ELSE [NewJob(priority, n + 2) EXCEPT
                              !.attempts = n, !.budget = n,
                              !.history = [i \in 1..n |-> Failed]]]

(* bounds: no more deliveries than the job would get without deferrals, and *)
(* a second job only beside one that has not failed                         *)
OrderNext ==
    /\ Next
    /\ \A j \in Jobs : queue'[j].attempts <= queue'[j].max
    /\ queue[1].max > 2 => \A j \in Jobs \ {1} : queue'[j] = Absent
    /\ UNCHANGED <<run, event, processing>>

OrderSpec == OrderInit /\ [][OrderNext]_vars
============================================================================
