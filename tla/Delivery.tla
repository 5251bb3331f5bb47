------------------------------ MODULE Delivery ------------------------------
(***************************************************************************)
(* Workers delivering jobs (opscheck/worker.py, _process of ingestion.py), *)
(* beside the commands ingest and retry-event, which execute an event      *)
(* without a job, and human commands, which move the run on.  Each step is *)
(* one transaction of module Queue, or none, together with what the        *)
(* process does between transactions: it holds the operating system's      *)
(* locks of the event and of the run, remembers what it read, and runs the *)
(* heartbeat thread.                                                       *)
(*                                                                         *)
(* Locks are taken without waiting, and released by the system when the    *)
(* process dies.  A process that has ended may be started again.           *)
(***************************************************************************)
EXTENDS Queue

CONSTANTS
    Workers, Commands, Humans,
    MaxStarts,      \* bound: commands and human commands started
    MaxDeaths,      \* bound: processes killed
    MaxInterrupts,  \* bound: workers stopped with Ctrl+C
    MaxFaults       \* bound: operations that fail, on the database or a file

Actors == Workers \cup Commands \cup Humans
Nobody == "nobody"

ASSUME DeliveryConstants ==
    /\ Nobody \notin Actors
    /\ Workers \cap Commands = {} /\ Workers \cap Humans = {} /\ Commands \cap Humans = {}
    /\ {MaxStarts, MaxDeaths, MaxInterrupts, MaxFaults} \subseteq Nat

VARIABLES
    actor,          \* actor[a]: the control and the locals of process a
    eventLock,      \* eventLock[j]: who holds the lock of event j
    runLock,        \* runLock[j]: who holds the lock of run j
    spent           \* how much of the bounds is used up

control == <<actor, eventLock, runLock, spent>>
allVars == <<vars, control>>

(* with the heartbeat running, before and after the event's claim           *)
Preparing == {"begin", "lockEvent", "read", "claim"}
Executing == {"locked", "running", "publish", "return"}
Processing == {"execute", "failing", "close"} \cup Executing

Steps == {"idle", "enter", "exit", "leave", "settle", "refresh", "quit",
          "unwinding", "interrupted", "dying"} \cup Preparing \cup Processing

(* job and token: the delivery in hand; retry: an argument of _process; beat, *)
(* lost: the heartbeat thread runs, has failed; read: the status it read      *)
Locals == [pc : Steps, job : Jobs \cup {0}, token : Nat, retry : BOOLEAN,
           beat : BOOLEAN, lost : BOOLEAN, read : EventStatus, report : Reports]

Resting == [pc |-> "idle", job |-> 0, token |-> NoToken, retry |-> TRUE, beat |-> FALSE,
            lost |-> FALSE, read |-> "VALIDATED", report |-> Plain]

Bounds == [starts |-> MaxStarts, deaths |-> MaxDeaths,
           interrupts |-> MaxInterrupts, faults |-> MaxFaults]

DeliveryTypeOK ==
    /\ TypeOK
    /\ actor \in [Actors -> Locals]
    /\ eventLock \in [Jobs -> Actors \cup {Nobody}]
    /\ runLock \in [Jobs -> Actors \cup {Nobody}]
    /\ \A b \in DOMAIN Bounds : spent[b] \in 0..Bounds[b]

DeliveryInit ==
    /\ Init
    /\ actor = [a \in Actors |-> Resting]
    /\ eventLock = [j \in Jobs |-> Nobody]
    /\ runLock = [j \in Jobs |-> Nobody]
    /\ spent = [b \in DOMAIN Bounds |-> 0]

----------------------------------------------------------------------------
(* Control *)

At(a, pcs) == actor[a].pc \in pcs
JobOf(a) == actor[a].job
Goto(a, pc) == actor' = [actor EXCEPT ![a].pc = pc]
Rest(a) == actor' = [actor EXCEPT ![a] = Resting]

Spend(b) == spent[b] < Bounds[b] /\ spent' = [spent EXCEPT ![b] = @ + 1]

Take(lock, a) == [lock EXCEPT ![JobOf(a)] = a]
Released(lock, a) == [j \in Jobs |-> IF lock[j] = a THEN Nobody ELSE lock[j]]

KeepLocks == UNCHANGED <<eventLock, runLock>>

(* _process returns to the delivery, which reports how it went, or to the   *)
(* command, which ends                                                      *)
Return(a, how) ==
    actor' = [actor EXCEPT ![a] = IF a \in Workers
                                  THEN [@ EXCEPT !.pc = "exit", !.report = how]
                                  ELSE Resting]

(* An operation may fail; the bound counts how often.                       *)
Fault(a, pcs) == At(a, pcs) /\ Spend("faults")

----------------------------------------------------------------------------
(* The worker's main thread: run, process, _execute *)

Poll(w) ==
    /\ At(w, {"idle"})
    /\ \/ \E late \in BOOLEAN : ClaimNone(late) /\ UNCHANGED actor
       \/ \E j \in Jobs, duration \in Durations, late \in BOOLEAN :
            /\ Claim(j, duration, late)
            /\ actor' = [actor EXCEPT ![w] = [Resting EXCEPT !.pc = "enter", !.job = j,
                                                             !.token = queue'[j].token]]
    /\ KeepLocks /\ UNCHANGED spent

(* the first renewal; then the thread is started                            *)
Enter(w) ==
    /\ At(w, {"enter"})
    /\ \E duration \in Durations : Heartbeat(JobOf(w), actor[w].token, duration)
    /\ IF Owned(queue[JobOf(w)], actor[w].token)
       THEN actor' = [actor EXCEPT ![w].pc = "begin", ![w].beat = TRUE]
       ELSE Goto(w, "quit")
    /\ KeepLocks /\ UNCHANGED spent

(* The first transaction of _execute only reads and logs.                   *)
Begin(w) ==
    /\ At(w, {"begin"})
    /\ Goto(w, IF Owned(queue[JobOf(w)], actor[w].token) THEN "lockEvent" ELSE "leave")
    /\ KeepLocks /\ UNCHANGED <<vars, spent>>

(* The database is busy, or the saved identity is found corrupt.            *)
DeliveryFails(w) ==
    /\ Fault(w, {"enter", "begin"})
    /\ \E how \in {Plain, Terminal} :
          /\ how = Terminal => At(w, {"begin"})
          /\ Return(w, how)
    /\ KeepLocks /\ UNCHANGED vars

(* The heartbeat is stopped and joined.                                     *)
Join(w) ==
    /\ At(w, {"exit", "leave"})
    /\ actor' = [actor EXCEPT ![w].beat = FALSE,
                              ![w].pc = IF At(w, {"exit"}) THEN "settle" ELSE "quit"]
    /\ KeepLocks /\ UNCHANGED <<vars, spent>>

(* faulty: a failed renewal is forgotten                                    *)
SettleRegardless(w) ==
    /\ At(w, {"settle"})
    /\ Finish(JobOf(w), actor[w].token, actor[w].report)
    /\ Goto(w, "refresh")
    /\ KeepLocks /\ UNCHANGED spent

(* finish, unless a renewal has failed; a rejected worker has no result     *)
SettleJob(w) ==
    /\ At(w, {"settle"}) /\ ~ actor[w].lost
    /\ Finish(JobOf(w), actor[w].token, actor[w].report)
    /\ IF Owned(queue[JobOf(w)], actor[w].token) /\ ~ actor[w].report.busy
       THEN Goto(w, "refresh") ELSE Rest(w)
    /\ KeepLocks /\ UNCHANGED spent

Refuse(w) ==
    /\ At(w, {"settle"}) /\ actor[w].lost
    /\ Goto(w, "quit")
    /\ KeepLocks /\ UNCHANGED <<vars, spent>>

(* LeaseLostError leaves process; the token is not used again               *)
Quit(w) ==
    /\ At(w, {"quit"})
    /\ WorkerStops(JobOf(w), actor[w].token)
    /\ Rest(w)
    /\ KeepLocks /\ UNCHANGED spent

(* _refresh_report: under the run's lock, if nobody has it                  *)
Refresh(w) ==
    /\ At(w, {"refresh"})
    /\ IF run[JobOf(w)] # NoRun /\ runLock[JobOf(w)] = Nobody
       THEN PublishRun(JobOf(w)) ELSE UNCHANGED vars
    /\ Rest(w)
    /\ KeepLocks /\ UNCHANGED spent

----------------------------------------------------------------------------
(* The heartbeat thread *)

Beat(w) ==
    /\ actor[w].beat
    /\ \E duration \in Durations : Heartbeat(JobOf(w), actor[w].token, duration)
    /\ IF Owned(queue[JobOf(w)], actor[w].token) THEN UNCHANGED actor
       ELSE actor' = [actor EXCEPT ![w].beat = FALSE, ![w].lost = TRUE]
    /\ KeepLocks /\ UNCHANGED spent

(* The renewal fails on a busy database, whatever became of the lease.      *)
BeatFails(w) ==
    /\ actor[w].beat
    /\ Spend("faults")
    /\ actor' = [actor EXCEPT ![w].beat = FALSE, ![w].lost = TRUE]
    /\ KeepLocks /\ UNCHANGED vars

----------------------------------------------------------------------------
(* _process, of a delivery, of retry-event or of ingest *)

StartCommand(c) ==
    /\ At(c, {"idle"}) /\ Spend("starts")
    /\ \E j \in Jobs, retry \in BOOLEAN :
          actor' = [actor EXCEPT ![c] = [Resting EXCEPT !.pc = "lockEvent", !.job = j,
                                                        !.retry = retry]]
    /\ KeepLocks /\ UNCHANGED vars

LockEvent(a) ==
    /\ At(a, {"lockEvent"})
    /\ IF eventLock[JobOf(a)] = Nobody
       THEN eventLock' = Take(eventLock, a) /\ Goto(a, "read")
       ELSE Return(a, Busy) /\ UNCHANGED eventLock
    /\ UNCHANGED <<vars, runLock, spent>>

Unfinished(e, retry) ==
    /\ e.status \notin {"WAITING_FOR_APPROVAL", "COMPLETED"}
    /\ e.status = "FAILED" => retry /\ e.retryable

(* All events are synchronized, then this one is read.                      *)
Read(a) ==
    /\ At(a, {"read"})
    /\ PublishAll
    /\ IF Unfinished(event'[JobOf(a)], actor[a].retry)
       THEN /\ actor' = [actor EXCEPT ![a].pc = "claim", ![a].read = event'[JobOf(a)].status]
            /\ UNCHANGED eventLock
       ELSE Return(a, Plain) /\ eventLock' = Released(eventLock, a)
    /\ UNCHANGED <<runLock, spent>>

(* _claim: compare and set with what was read                               *)
ClaimEvent(a) ==
    /\ At(a, {"claim"})
    /\ IF event[JobOf(a)].status = actor[a].read
       THEN EventClaim(JobOf(a)) /\ Goto(a, "execute") /\ UNCHANGED eventLock
       ELSE Return(a, Busy) /\ eventLock' = Released(eventLock, a) /\ UNCHANGED vars
    /\ UNCHANGED <<runLock, spent>>

(* faulty: a run is taken from an executor that has lost its lease          *)
RunFreeOrLost(j) == runLock[j] \in {Nobody} \cup {w \in Workers : actor[w].lost}

RunFree(j) == runLock[j] = Nobody

LockRun(a) ==
    /\ At(a, {"execute"}) /\ RunFree(JobOf(a))
    /\ runLock' = Take(runLock, a)
    /\ Goto(a, "locked")
    /\ UNCHANGED <<vars, eventLock, spent>>

(* Somebody else executes the run: a delivery is deferred, a command returns *)
(* what is saved.                                                            *)
RunBusy(a) ==
    /\ At(a, {"execute"}) /\ ~ RunFree(JobOf(a))
    /\ IF a \in Workers
       THEN EventDropped(JobOf(a)) /\ Return(a, Busy) /\ eventLock' = Released(eventLock, a)
       ELSE Goto(a, "close") /\ UNCHANGED <<vars, eventLock>>
    /\ UNCHANGED <<runLock, spent>>

(* faulty: the run's status is not read again under the lock                *)
BegunAnyway(r) == [r EXCEPT !.status = "RUNNING"]

(* the first transaction of run_workflow or resume_run                      *)
Begun(r) ==
    IF r = NoRun \/ (r.status = "FAILED" /\ ~ r.limit)
    THEN [r EXCEPT !.status = "RUNNING"] ELSE r

BeginRun(a) ==
    /\ At(a, {"locked"})
    /\ run' = [run EXCEPT ![JobOf(a)] = Begun(@)]
    /\ Goto(a, IF run'[JobOf(a)].status = "RUNNING" THEN "running" ELSE "publish")
    /\ KeepLocks /\ UNCHANGED <<queue, event, processing, live, spent>>

(* the transaction that completes the workflow or pauses it                 *)
EndRun(a) ==
    /\ At(a, {"running"})
    /\ Workflow(JobOf(a))
    /\ Goto(a, "publish")
    /\ KeepLocks /\ UNCHANGED spent

PublishResult(a) ==
    /\ At(a, {"publish"})
    /\ PublishRun(JobOf(a))
    /\ Goto(a, "return")
    /\ KeepLocks /\ UNCHANGED spent

ReturnRun(a) ==
    /\ At(a, {"return"})
    /\ runLock' = Released(runLock, a)
    /\ IF a \in Humans THEN Rest(a) ELSE Goto(a, "close")
    /\ UNCHANGED <<vars, eventLock, spent>>

(* Inputs have changed, a report cannot be written, the database is busy.   *)
RunRaises(a) ==
    /\ Fault(a, {"execute"} \cup Executing)
    /\ runLock' = Released(runLock, a)
    /\ IF a \in Humans THEN Rest(a) ELSE Goto(a, "failing")
    /\ UNCHANGED <<vars, eventLock>>

SaveFailure(a) ==
    /\ At(a, {"failing"})
    /\ EventFail(JobOf(a))
    /\ Goto(a, "close")
    /\ KeepLocks /\ UNCHANGED spent

Close(a) ==
    /\ At(a, {"close"})
    /\ EventEnd(JobOf(a))
    /\ eventLock' = Released(eventLock, a)
    /\ Return(a, Plain)
    /\ UNCHANGED <<runLock, spent>>

(* A transaction of _process itself fails.                                  *)
ProcessFails(a) ==
    /\ Fault(a, {"lockEvent", "read", "claim", "failing", "close"})
    /\ IF At(a, {"failing", "close"}) THEN EventDropped(JobOf(a)) ELSE UNCHANGED vars
    /\ eventLock' = Released(eventLock, a)
    /\ Return(a, Plain)
    /\ UNCHANGED runLock

----------------------------------------------------------------------------
(* decide and resume_run, from another terminal *)

StartHuman(h) ==
    /\ At(h, {"idle"}) /\ Spend("starts")
    /\ \E j \in Jobs :
          /\ run[j] # NoRun /\ RunFree(j)
          /\ actor' = [actor EXCEPT ![h] = [Resting EXCEPT !.pc = "locked", !.job = j]]
          /\ runLock' = [runLock EXCEPT ![j] = h]
    /\ UNCHANGED <<vars, eventLock>>

(* A decision; resume_run is BeginRun.                                      *)
Decide(h) ==
    /\ At(h, {"locked"}) /\ run[JobOf(h)].status = "WAITING_FOR_APPROVAL"
    /\ Workflow(JobOf(h))
    /\ Goto(h, "running")
    /\ KeepLocks /\ UNCHANGED spent

----------------------------------------------------------------------------
(* Ends nobody planned *)

(* Ctrl+C in the block under the heartbeat                                  *)
Interrupt(w) ==
    /\ At(w, Preparing \cup Processing) /\ Spend("interrupts")
    /\ Goto(w, "unwinding")
    /\ KeepLocks /\ UNCHANGED vars

(* The process is killed: its threads stop, then its locks are released.    *)
Die(a) ==
    /\ ~ At(a, {"idle", "dying"}) /\ Spend("deaths")
    /\ actor' = [actor EXCEPT ![a].pc = "dying", ![a].beat = FALSE]
    /\ IF a \in Workers /\ ~ At(a, {"refresh"})
       THEN WorkerStops(JobOf(a), actor[a].token) ELSE UNCHANGED vars
    /\ KeepLocks

Unlock(a) ==
    /\ eventLock' = Released(eventLock, a)
    /\ runLock' = Released(runLock, a)
    /\ IF eventLock[JobOf(a)] = a /\ processing[JobOf(a)] # "idle"
       THEN EventDropped(JobOf(a)) ELSE UNCHANGED vars

Unwind(w) ==
    /\ At(w, {"unwinding"})
    /\ actor' = [actor EXCEPT ![w].pc = "interrupted", ![w].beat = FALSE]
    /\ Unlock(w) /\ UNCHANGED spent

(* process hands the delivery back, and the worker ends                     *)
SettleInterrupted(w) ==
    /\ At(w, {"interrupted"})
    /\ Finish(JobOf(w), actor[w].token, Plain)
    /\ Rest(w)
    /\ KeepLocks /\ UNCHANGED spent

Dead(a) == At(a, {"dying"}) /\ Rest(a) /\ Unlock(a) /\ UNCHANGED spent

----------------------------------------------------------------------------
WorkerStep(w) ==
    \/ Poll(w) \/ Enter(w) \/ Begin(w) \/ Join(w) \/ SettleJob(w) \/ Refuse(w)
    \/ Quit(w) \/ Refresh(w) \/ Unwind(w) \/ SettleInterrupted(w)

ProcessStep(a) ==
    \/ LockEvent(a) \/ Read(a) \/ ClaimEvent(a) \/ LockRun(a) \/ RunBusy(a)
    \/ SaveFailure(a) \/ Close(a)

RunnerStep(a) == BeginRun(a) \/ EndRun(a) \/ PublishResult(a) \/ ReturnRun(a)

(* what observers and operators do                                          *)
Environment ==
    /\ \/ Tick
       \/ Observe
       \/ \E j \in Jobs : \/ \E priority \in Priorities, max \in Limits : Enqueue(j, priority, max)
                          \/ \E max \in Limits : Replay(j, max)
    /\ UNCHANGED control

DeliveryNext ==
    \/ Environment
    \/ \E w \in Workers : WorkerStep(w) \/ DeliveryFails(w) \/ Beat(w) \/ BeatFails(w) \/ Interrupt(w)
    \/ \E c \in Commands : StartCommand(c)
    \/ \E a \in Workers \cup Commands : ProcessStep(a) \/ ProcessFails(a)
    \/ \E h \in Humans : StartHuman(h) \/ Decide(h)
    \/ \E a \in Actors : RunnerStep(a) \/ RunRaises(a) \/ Die(a) \/ Dead(a)

DeliverySpec == DeliveryInit /\ [][DeliveryNext]_allVars

(* Every process runs on (its locks do not wait, and a transaction waits    *)
(* ten seconds at most), workers poll, and time passes.                     *)
Fairness ==
    /\ WF_allVars(Tick /\ UNCHANGED control)
    /\ \A w \in Workers : WF_allVars(WorkerStep(w) \/ ProcessStep(w) \/ RunnerStep(w) \/ Dead(w))
    /\ \A c \in Commands : WF_allVars(ProcessStep(c) \/ RunnerStep(c) \/ Dead(c))
    /\ \A h \in Humans : WF_allVars(Decide(h) \/ RunnerStep(h) \/ Dead(h))

FairDelivery == DeliverySpec /\ Fairness

----------------------------------------------------------------------------
(* What the composition is for.                                             *)

(* Every transaction the processes run, in whatever order their locks and   *)
(* threads allow, is one that module Queue allows at that moment: the queue *)
(* and its guarantees may be studied without the processes.                 *)
ImplementsQueue == Spec

(* A run is executed by one process at a time, although leases expire and   *)
(* jobs are delivered again while the first worker still works, commands    *)
(* execute events too, and processes are killed anywhere (_run_lock).       *)
OneExecutor ==
    \A a, b \in Actors :
        At(a, Executing) /\ At(b, Executing) /\ JobOf(a) = JobOf(b) => a = b

(* A run that waits for its approval or has succeeded is never restarted by *)
(* a delivery or a command that decided to execute it before it got there:  *)
(* only the human commands move it on.                                      *)
CheckpointKept ==
    [][\A j \in Jobs :
          run[j].status \in Checkpoints /\ run'[j] # run[j] => runLock[j] \in Humans]_allVars

(* A worker whose renewal failed does not settle its delivery, whatever its *)
(* workflow came to, whatever became of the lease and however it ended:     *)
(* worker.py 98, whose promise is the comment at 33.  The one way out is    *)
(* Ctrl+C, where line 91 hands the job back without looking.                *)
LostNeverSettles ==
    [][\A w \in Workers :
          LET j == JobOf(w)
          IN  /\ actor[w].lost /\ ~ At(w, {"interrupted"})
              /\ actor[w].token \in live[j] \ live'[j] /\ Owned(queue[j], actor[w].token)
              => Owned(queue'[j], actor[w].token)]_allVars

(* Whoever dies, is interrupted or fails, every job that is queued is in    *)
(* the end delivered to a checkpoint of its run or ends as a dead letter,   *)
(* unless busy runs defer it to the bound on attempts.                      *)
DeliveryEnds ==
    \A j \in Jobs :
        queue[j].status = "QUEUED"
        ~> \/ queue[j].status \in Checkpoints \cup {"DEAD_LETTER"}
           \/ /\ queue[j].attempts = MaxClaims
              /\ \E n \in 1..MaxClaims : queue[j].history[n].outcome = "DEFERRED"

(* A run that has succeeded is known to its event and its job in the end,   *)
(* even if the process that executed it had lost the job or died before it  *)
(* could tell.                                                              *)
SuccessKnown ==
    \A j \in Jobs :
        run[j].status = "SUCCEEDED" /\ queue[j].status # "ABSENT"
        ~> queue[j].status = "SUCCEEDED" /\ event[j].status = "COMPLETED"

(* No death, interrupt or failure leaves a job or a success stuck.          *)
DeliveryCompletes == DeliveryEnds /\ SuccessKnown
============================================================================
