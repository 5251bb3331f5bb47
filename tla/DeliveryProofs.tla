--------------------------- MODULE DeliveryProofs ---------------------------
(***************************************************************************)
(* The processes of Delivery implement the queue of module Queue, and one  *)
(* process at a time executes a run: for any number of workers, commands,  *)
(* jobs, deaths, interruptions and failures.                               *)
(***************************************************************************)
EXTENDS Delivery, QueueProofs

(* steps of a process that holds the lock of its event                      *)
Inside == {"read", "claim"} \cup Processing

(* What a process knows where it is: the job it works on is one; it holds   *)
(* the locks it took; before its execution of the event ends nobody else    *)
(* touches the event; a human command is about a run that exists.           *)
Holds(a) ==
    /\ ~ At(a, {"idle"}) => JobOf(a) \in Jobs
    /\ actor[a].beat \/ actor[a].lost => ~ At(a, {"idle"})
    /\ At(a, Executing) => runLock[JobOf(a)] = a
    /\ a \in Humans => /\ At(a, {"idle", "dying"} \cup Executing)
                       /\ At(a, Executing) => run[JobOf(a)] # NoRun
    /\ a \notin Humans /\ At(a, Inside) => eventLock[JobOf(a)] = a
    /\ a \notin Humans /\ At(a, {"execute"} \cup Executing) => processing[JobOf(a)] = "executing"

LocksOK ==
    /\ actor \in [Actors -> Locals]
    /\ eventLock \in [Jobs -> Actors \cup {Nobody}]
    /\ runLock \in [Jobs -> Actors \cup {Nobody}]

ControlInv == LocksOK /\ \A a \in Actors : Holds(a)

(* A step of process a changes what only a may change.                      *)
StepOf(a) ==
    /\ LocksOK'
    /\ \A b \in Actors \ {a} : actor'[b] = actor[b]
    /\ \A j \in Jobs : \A b \in Actors \ {a} :
          /\ eventLock[j] = b => eventLock'[j] = b /\ processing'[j] = processing[j]
          /\ runLock[j] = b => runLock'[j] = b
    /\ \A j \in Jobs : run[j] # NoRun => run'[j] # NoRun

(* So the others know what they knew.                                       *)
LEMMA OthersKeep ==
    ASSUME ControlInv, NEW a \in Actors, StepOf(a), Holds(a)'
    PROVE  ControlInv'
<1>1. ASSUME NEW b \in Actors, b # a PROVE Holds(b)'
  <2>1. Holds(b) /\ actor'[b] = actor[b]
    BY <1>1 DEF ControlInv, StepOf
  <2>2. At(b, Executing) => runLock'[JobOf(b)] = b
    BY <1>1, <2>1 DEF Holds, StepOf, At, Executing
  <2>3. b \notin Humans /\ At(b, Inside) =>
            eventLock'[JobOf(b)] = b /\ processing'[JobOf(b)] = processing[JobOf(b)]
    BY <1>1, <2>1 DEF Holds, StepOf, At, Inside, Processing, Executing
  <2>4. b \in Humans /\ At(b, Executing) => run'[JobOf(b)] # NoRun
    BY <1>1, <2>1 DEF Holds, StepOf, At, Executing
  <2>5. QED
    BY <2>1, <2>2, <2>3, <2>4 DEF Holds, At, JobOf, Inside, Processing
<1>2. QED
  BY <1>1 DEF ControlInv, StepOf

(* No transaction of the queue or of the workflow unmakes a run.            *)
LEMMA RunsStay ==
    ASSUME IInv, [Next]_vars
    PROVE  \A j \in Jobs : run[j] # NoRun => run'[j] # NoRun
<1>1. SUFFICES ASSUME NEW j \in Jobs, run[j] # NoRun PROVE run'[j] # NoRun
  OBVIOUS
<1>2. run \in [Jobs -> Run]
  BY InvariantTable
<1>3. ASSUME NEW i \in Jobs, Workflow(i) PROVE run'[j] # NoRun
  <2>1. PICK r \in Run : RunStep(run[i], r) /\ run' = [run EXCEPT ![i] = r]
    BY <1>3 DEF Workflow
  <2>2. r # NoRun
    <3>1. run[i] \in Run
      BY <1>2
    <3>2. r.status # "NONE"
      BY <2>1, <3>1 DEF RunStep, RunCreated, RunRestarted, RunFailed, RunPaused, RunDecidedOn,
                RunSucceeded, RunLimited, Run
    <3>3. QED
      BY <3>2 DEF NoRun
  <2>3. QED
    BY <1>1, <1>2, <2>1, <2>2
<1>4. CASE UNCHANGED run
  BY <1>1, <1>4
<1>5. QED
  BY <1>3, <1>4 DEF Next, vars, Tick, Observe, PublishAll, ClaimNone, PublishRun, EventClaim,
     EventFail, EventEnd, EventDropped, Enqueue, Claim, Replay, WorkerStops, Heartbeat, Finish

----------------------------------------------------------------------------
(* What a step of one process does to its locals, a lock and the event.     *)

Locally(a, r) == actor' \in [Actors -> Locals] /\ actor' = [actor EXCEPT ![a] = r]

LockStep(l, m, a) ==
    \/ m = l
    \/ m = Released(l, a)
    \/ \E j \in Jobs : l[j] = Nobody /\ m = [l EXCEPT ![j] = a]

EventStep(a) ==
    \/ UNCHANGED processing
    \/ \E phase : /\ eventLock[JobOf(a)] = a
                  /\ processing' = [processing EXCEPT ![JobOf(a)] = phase]

(* A lock changes hands only to and from the process that makes the step.   *)
LEMMA LockKept ==
    ASSUME NEW l \in [Jobs -> Actors \cup {Nobody}], NEW m, NEW a \in Actors, LockStep(l, m, a)
    PROVE  /\ m \in [Jobs -> Actors \cup {Nobody}]
           /\ \A j \in Jobs : \A b \in Actors \ {a} : l[j] = b => m[j] = b
  BY DeliveryConstants DEF LockStep, Released

(* A step within these limits keeps the invariant if the process itself     *)
(* knows where it is.                                                       *)
LEMMA StepKept ==
    ASSUME IInv, ControlInv, [Next]_vars, NEW a \in Actors, NEW r, Locally(a, r),
           LockStep(eventLock, eventLock', a), LockStep(runLock, runLock', a),
           EventStep(a), Holds(a)'
    PROVE  ControlInv'
<1>1. LocksOK /\ processing \in [Jobs -> Phases]
  BY InvariantTable DEF ControlInv
<1>2. LocksOK'
  BY <1>1, LockKept DEF LocksOK, Locally
<1>3. \A b \in Actors \ {a} : actor'[b] = actor[b]
  BY <1>1 DEF LocksOK, Locally
<1>4. \A j \in Jobs : \A b \in Actors \ {a} :
          /\ eventLock[j] = b => eventLock'[j] = b
          /\ runLock[j] = b => runLock'[j] = b
  BY <1>1, LockKept DEF LocksOK
<1>5. \A j \in Jobs : \A b \in Actors \ {a} :
          eventLock[j] = b => processing'[j] = processing[j]
  BY <1>1 DEF EventStep
<1>6. \A j \in Jobs : run[j] # NoRun => run'[j] # NoRun
  BY RunsStay
<1>7. StepOf(a)
  BY <1>2, <1>3, <1>4, <1>5, <1>6 DEF StepOf
<1>8. QED
  BY <1>7, OthersKeep

(* A process that goes on from one step to the next.                        *)
LEMMA GotoStep ==
    ASSUME ControlInv, NEW a \in Actors, NEW p \in Steps, Goto(a, p)
    PROVE  /\ Locally(a, [actor[a] EXCEPT !.pc = p])
           /\ actor'[a] \in Locals /\ actor'[a].pc = p
           /\ actor'[a].job = actor[a].job /\ actor'[a].beat = actor[a].beat
<1>1. actor \in [Actors -> Locals] /\ actor[a] \in Locals
  BY DEF ControlInv, LocksOK
<1>2. [actor[a] EXCEPT !.pc = p] \in Locals
  BY <1>1 DEF Locals
<1>3. actor' = [actor EXCEPT ![a] = [actor[a] EXCEPT !.pc = p]]
  BY <1>1 DEF Goto
<1>4. QED
  BY <1>1, <1>2, <1>3 DEF Locally, Locals

(* A process that ends, and rests until it is started again.                *)
LEMMA RestStep ==
    ASSUME ControlInv, NEW a \in Actors, Rest(a)
    PROVE  Locally(a, Resting) /\ actor'[a] = Resting
<1>1. Resting \in Locals
  BY DEF Resting, Locals, Steps, Reports, EventStatus, NoToken
<1>2. actor \in [Actors -> Locals]
  BY DEF ControlInv, LocksOK
<1>3. QED
  BY <1>1, <1>2 DEF Rest, Locally

(* The end of _process.                                                     *)
LEMMA ReturnStep ==
    ASSUME ControlInv, NEW a \in Actors, NEW how \in Reports, Return(a, how)
    PROVE  /\ \E r : Locally(a, r)
           /\ actor'[a].pc \in {"exit", "idle"}
           /\ a \in Workers => actor'[a].job = actor[a].job /\ actor'[a].pc = "exit"
           /\ a \notin Workers => actor'[a] = Resting
<1> DEFINE r == IF a \in Workers THEN [actor[a] EXCEPT !.pc = "exit", !.report = how] ELSE Resting
<1>1. actor \in [Actors -> Locals] /\ actor[a] \in Locals
  BY DEF ControlInv, LocksOK
<1>2. Resting \in Locals
  BY DEF Resting, Locals, Steps, Reports, EventStatus, NoToken
<1>3. r \in Locals
  BY <1>1, <1>2 DEF Locals, Steps
<1>4. actor' = [actor EXCEPT ![a] = r]
  BY DEF Return
<1>5. Locally(a, r) /\ actor'[a] = r
  BY <1>1, <1>3, <1>4 DEF Locally
<1>6. r.pc \in {"exit", "idle"} /\ (a \in Workers => r.job = actor[a].job /\ r.pc = "exit")
  BY <1>1 DEF Resting, Locals
<1>7. QED
  BY <1>5, <1>6

(* A step to where the process holds nothing it must answer for.            *)
LEMMA QuietKept ==
    ASSUME IInv, ControlInv, [Next]_vars, NEW a \in Actors, NEW r, Locally(a, r),
           LockStep(eventLock, eventLock', a), LockStep(runLock, runLock', a), EventStep(a),
           actor'[a].pc \notin Inside \cup Executing,
           actor'[a].pc # "idle" => actor'[a].job \in Jobs,
           actor'[a].beat \/ actor'[a].lost => actor'[a].pc # "idle",
           a \in Humans => actor'[a].pc \in {"idle", "dying"}
    PROVE  ControlInv'
<1>1. Holds(a)'
  BY DEF Holds, At, JobOf, Inside, Processing, Executing
<1>2. QED
  BY <1>1, StepKept

----------------------------------------------------------------------------
(* The worker *)

(* run asks for a job.                                                      *)
LEMMA PollKept ==
    ASSUME IInv, ControlInv, NEW w \in Workers, Poll(w)
    PROVE  [Next]_vars /\ ControlInv'
<1>1. actor \in [Actors -> Locals] /\ w \in Actors /\ w \notin Humans
  BY DeliveryConstants DEF ControlInv, LocksOK, Actors
<1>2. [Next]_vars
  BY DEF Poll, Next
<1>3. IInv'
  BY <1>2, NextKept DEF Kept
<1>4. LockStep(eventLock, eventLock', w) /\ LockStep(runLock, runLock', w) /\ EventStep(w)
  BY DEF Poll, KeepLocks, LockStep, EventStep, Claim, ClaimNone
<1>5. CASE UNCHANGED actor
  <2>1. Locally(w, actor[w]) /\ actor'[w] = actor[w] /\ actor[w].pc = "idle"
    BY <1>1, <1>5 DEF Locally, Poll, At
  <2>2. ~ actor[w].beat /\ ~ actor[w].lost
    BY <1>1, <2>1 DEF ControlInv, Holds, At
  <2>3. QED
    BY <1>1, <1>2, <1>4, <2>1, <2>2, QuietKept DEF Inside, Processing, Executing
<1>6. ASSUME NEW j \in Jobs, NEW d \in Durations, NEW late \in BOOLEAN, Claim(j, d, late),
             actor' = [actor EXCEPT ![w] = [Resting EXCEPT !.pc = "enter", !.job = j,
                                                           !.token = queue'[j].token]]
      PROVE  ControlInv'
  <2> DEFINE r == [Resting EXCEPT !.pc = "enter", !.job = j, !.token = queue'[j].token]
  <2>1. queue'[j].token \in Nat
    BY <1>3, InvariantTableNext DEF Table, Job
  <2>2. r \in Locals /\ r.pc = "enter" /\ r.job = j
    BY <2>1 DEF Resting, Locals, Steps, Reports, EventStatus, NoToken
  <2>3. Locally(w, r) /\ actor'[w] = r
    BY <1>1, <1>6, <2>2 DEF Locally
  <2> HIDE DEF r
  <2>4. QED
    BY <1>1, <1>2, <1>4, <2>2, <2>3, QuietKept DEF Inside, Processing, Executing
<1>7. QED
  BY <1>2, <1>5, <1>6 DEF Poll

(* The steps of a worker that go on without a lock and without the event.   *)
LEMMA MainThreadKept ==
    ASSUME IInv, ControlInv, NEW w \in Workers,
           \/ Enter(w) \/ Begin(w) \/ Join(w) \/ SettleJob(w) \/ Refuse(w)
           \/ Quit(w) \/ Refresh(w) \/ SettleInterrupted(w) \/ Interrupt(w)
    PROVE  [Next]_vars /\ ControlInv'
<1>1. /\ actor \in [Actors -> Locals] /\ w \in Actors /\ w \notin Humans
      /\ actor[w] \in Locals
  BY DeliveryConstants DEF ControlInv, LocksOK, Actors
<1>2. actor[w].pc # "idle" /\ JobOf(w) \in Jobs
  BY <1>1 DEF ControlInv, Holds, At, JobOf, Enter, Begin, Join, SettleJob, Refuse, Quit, Refresh,
     SettleInterrupted, Interrupt, Preparing, Processing, Executing
<1>3. actor[w].report \in Reports /\ Plain \in Reports
  BY <1>1 DEF Locals, Reports
<1>4. [Next]_vars
  <2>1. CASE Enter(w)
    BY <1>2, <2>1 DEF Enter, Heartbeat, Next
  <2>2. CASE SettleJob(w) \/ SettleInterrupted(w)
    BY <1>2, <1>3, <2>2 DEF SettleJob, SettleInterrupted, Finish, Next
  <2>3. CASE Quit(w)
    BY <1>2, <2>3 DEF Quit, WorkerStops, Next
  <2>4. CASE Refresh(w)
    BY <1>2, <2>4 DEF Refresh, Next
  <2>5. CASE Begin(w) \/ Join(w) \/ Refuse(w) \/ Interrupt(w)
    BY <2>5 DEF Begin, Join, Refuse, Interrupt
  <2>6. QED
    BY <2>1, <2>2, <2>3, <2>4, <2>5
<1>5. LockStep(eventLock, eventLock', w) /\ LockStep(runLock, runLock', w)
  BY DEF KeepLocks, LockStep, Enter, Begin, Join, SettleJob, Refuse, Quit, Refresh,
     SettleInterrupted, Interrupt
<1>6. EventStep(w)
  BY DEF EventStep, Enter, Begin, Join, SettleJob, Refuse, Quit, Refresh, SettleInterrupted,
     Interrupt, vars, Heartbeat, Finish, WorkerStops, PublishRun
<1>7. CASE Rest(w)
  BY <1>1, <1>4, <1>5, <1>6, <1>7, RestStep, QuietKept DEF Resting, Inside, Processing, Executing
<1>8. ASSUME NEW p \in {"quit", "lockEvent", "leave", "refresh", "unwinding"}, Goto(w, p)
      PROVE  ControlInv'
  <2>1. p \in Steps /\ p # "idle" /\ p \notin Inside \cup Executing
    BY DEF Steps, Preparing, Inside, Processing, Executing
  <2>2. QED
    BY <1>1, <1>2, <1>4, <1>5, <1>6, <1>8, <2>1, GotoStep, QuietKept DEF JobOf
<1>9. ASSUME NEW p \in {"begin", "settle", "quit"}, NEW b \in BOOLEAN,
             actor' = [actor EXCEPT ![w].pc = p, ![w].beat = b]
      PROVE  ControlInv'
  <2> DEFINE r == [actor[w] EXCEPT !.pc = p, !.beat = b]
  <2>1. r \in Locals /\ r.pc = p /\ r.job = actor[w].job
    BY <1>1 DEF Locals, Steps, Preparing
  <2>2. actor' = [actor EXCEPT ![w] = r]
    BY <1>1, <1>9
  <2>3. Locally(w, r) /\ actor'[w] = r
    BY <1>1, <2>1, <2>2 DEF Locally
  <2> HIDE DEF r
  <2>4. QED
    BY <1>1, <1>2, <1>4, <1>5, <1>6, <2>1, <2>3, QuietKept
       DEF JobOf, Inside, Processing, Executing
<1>10. \/ Rest(w)
       \/ \E p \in {"quit", "lockEvent", "leave", "refresh", "unwinding"} : Goto(w, p)
       \/ \E p \in {"begin", "settle", "quit"}, b \in BOOLEAN :
             actor' = [actor EXCEPT ![w].pc = p, ![w].beat = b]
  <2>1. CASE Enter(w)
    BY <2>1 DEF Enter
  <2>2. CASE Join(w)
    <3>1. \E p \in {"settle", "quit"} : actor' = [actor EXCEPT ![w].beat = FALSE, ![w].pc = p]
      BY <2>2 DEF Join
    <3>2. PICK p \in {"settle", "quit"} : actor' = [actor EXCEPT ![w].beat = FALSE, ![w].pc = p]
      BY <3>1
    <3>3. [actor EXCEPT ![w].beat = FALSE, ![w].pc = p]
          = [actor EXCEPT ![w].pc = p, ![w].beat = FALSE]
      BY <1>1 DEF Locals
    <3>4. QED
      BY <3>2, <3>3
  <2>3. CASE Begin(w)
    BY <2>3 DEF Begin
  <2>4. CASE SettleJob(w) \/ SettleInterrupted(w) \/ Refuse(w) \/ Quit(w) \/ Refresh(w)
    BY <2>4 DEF SettleJob, SettleInterrupted, Refuse, Quit, Refresh
  <2>5. CASE Interrupt(w)
    BY <2>5 DEF Interrupt
  <2>6. QED
    BY <2>1, <2>2, <2>3, <2>4, <2>5
<1>11. QED
  BY <1>4, <1>7, <1>8, <1>9, <1>10

(* The heartbeat thread, whatever the main thread is at.                    *)
LEMMA ThreadKept ==
    ASSUME IInv, ControlInv, NEW w \in Workers, Beat(w) \/ BeatFails(w)
    PROVE  [Next]_vars /\ ControlInv'
<1>1. /\ actor \in [Actors -> Locals] /\ w \in Actors /\ w \notin Humans
      /\ actor[w] \in Locals
  BY DeliveryConstants DEF ControlInv, LocksOK, Actors
<1>2. Holds(w) /\ actor[w].pc # "idle" /\ JobOf(w) \in Jobs
  BY <1>1 DEF ControlInv, Holds, At, Beat, BeatFails
<1>3. [Next]_vars
  BY <1>2 DEF Beat, BeatFails, Heartbeat, Next
<1>4. /\ LockStep(eventLock, eventLock', w) /\ LockStep(runLock, runLock', w) /\ EventStep(w)
      /\ UNCHANGED <<eventLock, runLock, processing, run>>
  BY DEF KeepLocks, LockStep, EventStep, Beat, BeatFails, Heartbeat, vars
<1>5. \E r \in Locals : /\ actor' = [actor EXCEPT ![w] = r]
                        /\ r.pc = actor[w].pc /\ r.job = actor[w].job
  <2> DEFINE s == [actor[w] EXCEPT !.beat = FALSE, !.lost = TRUE]
  <2>1. s \in Locals /\ s.pc = actor[w].pc /\ s.job = actor[w].job
    BY <1>1 DEF Locals
  <2>2. actor' = actor \/ actor' = [actor EXCEPT ![w].beat = FALSE, ![w].lost = TRUE]
    BY DEF Beat, BeatFails
  <2>3. [actor EXCEPT ![w].beat = FALSE, ![w].lost = TRUE] = [actor EXCEPT ![w] = s]
    BY <1>1
  <2>4. actor = [actor EXCEPT ![w] = actor[w]]
    BY <1>1
  <2> HIDE DEF s
  <2>5. QED
    BY <1>1, <2>1, <2>2, <2>3, <2>4
<1>6. PICK r \in Locals : /\ actor' = [actor EXCEPT ![w] = r]
                         /\ r.pc = actor[w].pc /\ r.job = actor[w].job
  BY <1>5
<1>7. Locally(w, r) /\ actor'[w].pc = actor[w].pc /\ actor'[w].job = actor[w].job
  BY <1>1, <1>6 DEF Locally
<1>8. Holds(w)'
  BY <1>1, <1>2, <1>4, <1>7 DEF Holds, At, JobOf
<1>9. QED
  BY <1>1, <1>3, <1>4, <1>7, <1>8, StepKept

(* A delivery that fails before it executes.                                *)
LEMMA DeliveryFailsKept ==
    ASSUME IInv, ControlInv, NEW w \in Workers, DeliveryFails(w)
    PROVE  [Next]_vars /\ ControlInv'
<1>1. w \in Actors /\ w \notin Humans /\ actor[w].pc # "idle" /\ JobOf(w) \in Jobs
  BY DeliveryConstants DEF ControlInv, Holds, At, Actors, DeliveryFails, Fault
<1>2. [Next]_vars
  BY DEF DeliveryFails
<1>3. LockStep(eventLock, eventLock', w) /\ LockStep(runLock, runLock', w) /\ EventStep(w)
  BY DEF KeepLocks, LockStep, EventStep, DeliveryFails, vars
<1>4. \E how \in Reports : Return(w, how)
  BY DEF DeliveryFails, Reports
<1>5. /\ \E r : Locally(w, r)
      /\ actor'[w].pc = "exit" /\ actor'[w].job = actor[w].job
  BY <1>1, <1>4, ReturnStep
<1>6. QED
  BY <1>1, <1>2, <1>3, <1>5, QuietKept DEF JobOf, Inside, Processing, Executing

(* A process is killed.                                                     *)
LEMMA DieKept ==
    ASSUME IInv, ControlInv, NEW a \in Actors, Die(a)
    PROVE  [Next]_vars /\ ControlInv'
<1>1. actor \in [Actors -> Locals] /\ actor[a] \in Locals /\ JobOf(a) \in Jobs
  BY DEF ControlInv, LocksOK, Holds, At, Die
<1>2. [Next]_vars
  BY <1>1 DEF Die, WorkerStops, Next
<1>3. LockStep(eventLock, eventLock', a) /\ LockStep(runLock, runLock', a) /\ EventStep(a)
  BY DEF KeepLocks, LockStep, EventStep, Die, WorkerStops, vars
<1> DEFINE r == [actor[a] EXCEPT !.pc = "dying", !.beat = FALSE]
<1>4. r \in Locals /\ r.pc = "dying" /\ r.job = actor[a].job
  BY <1>1 DEF Locals, Steps
<1>5. actor' = [actor EXCEPT ![a] = r]
  BY <1>1 DEF Die
<1>6. Locally(a, r) /\ actor'[a] = r
  BY <1>1, <1>4, <1>5 DEF Locally
<1> HIDE DEF r
<1>7. QED
  BY <1>1, <1>2, <1>3, <1>4, <1>6, QuietKept DEF JobOf, Inside, Processing, Executing

(* Locks are released by a process that unwinds or is dead.                 *)
LEMMA UnlockKept ==
    ASSUME IInv, ControlInv, NEW a \in Actors,
           Dead(a) \/ (a \in Workers /\ Unwind(a))
    PROVE  [Next]_vars /\ ControlInv'
<1>1. actor \in [Actors -> Locals] /\ actor[a] \in Locals /\ JobOf(a) \in Jobs
  BY DEF ControlInv, LocksOK, Holds, At, Dead, Unwind
<1>2. Unlock(a)
  BY DEF Dead, Unwind
<1>3. [Next]_vars
  BY <1>1, <1>2 DEF Unlock, Next
<1>4. LockStep(eventLock, eventLock', a) /\ LockStep(runLock, runLock', a)
  BY <1>2 DEF LockStep, Unlock
<1>5. EventStep(a)
  BY <1>2 DEF EventStep, Unlock, EventDropped, vars
<1>6. CASE Rest(a)
  BY <1>3, <1>4, <1>5, <1>6, RestStep, QuietKept DEF Resting, Inside, Processing, Executing
<1>7. CASE a \in Workers /\ Unwind(a)
  <2> DEFINE r == [actor[a] EXCEPT !.pc = "interrupted", !.beat = FALSE]
  <2>1. r \in Locals /\ r.pc = "interrupted" /\ r.job = actor[a].job
    BY <1>1 DEF Locals, Steps
  <2>2. actor' = [actor EXCEPT ![a] = r]
    BY <1>1, <1>7 DEF Unwind
  <2>3. Locally(a, r) /\ actor'[a] = r
    BY <1>1, <2>1, <2>2 DEF Locally
  <2> HIDE DEF r
  <2>4. a \notin Humans
    BY <1>7, DeliveryConstants
  <2>5. QED
    BY <1>1, <1>3, <1>4, <1>5, <2>1, <2>3, <2>4, QuietKept
       DEF JobOf, Inside, Processing, Executing
<1>8. QED
  BY <1>3, <1>6, <1>7 DEF Dead

----------------------------------------------------------------------------
(* _process *)

(* The steps of _process that end it, with the event's lock released.       *)
LEMMA ReturnKept ==
    ASSUME IInv, ControlInv, NEW a \in Workers \cup Commands, NEW how \in Reports,
           Return(a, how), ~ At(a, {"idle"}), [Next]_vars, UNCHANGED runLock, EventStep(a),
           eventLock' = Released(eventLock, a) \/ UNCHANGED eventLock
    PROVE  ControlInv'
<1>1. a \in Actors /\ a \notin Humans /\ JobOf(a) \in Jobs
  BY DeliveryConstants DEF ControlInv, Holds, At, Actors
<1>2. LockStep(eventLock, eventLock', a) /\ LockStep(runLock, runLock', a)
  BY DEF LockStep
<1>3. /\ \E r : Locally(a, r)
      /\ actor'[a].pc \in {"exit", "idle"}
      /\ a \in Workers => actor'[a].job = actor[a].job /\ actor'[a].pc = "exit"
      /\ a \notin Workers => actor'[a] = Resting
  BY <1>1, ReturnStep
<1>4. QED
  BY <1>1, <1>2, <1>3, QuietKept DEF JobOf, Resting, Inside, Processing, Executing

(* The steps up to and around the execution, and those that end _process.   *)
LEMMA ProcessKept ==
    ASSUME IInv, ControlInv, NEW a \in Workers \cup Commands, ProcessStep(a) \/ ProcessFails(a)
    PROVE  [Next]_vars /\ ControlInv'
<1>1. /\ a \in Actors /\ a \notin Humans /\ JobOf(a) \in Jobs /\ ~ At(a, {"idle"})
      /\ LocksOK /\ Holds(a)
  BY DeliveryConstants DEF ControlInv, Holds, At, Actors, ProcessStep, ProcessFails, Fault,
     LockEvent, Read, ClaimEvent, LockRun, RunBusy, SaveFailure, Close
<1>2. /\ At(a, {"read", "claim", "execute", "failing", "close"}) => eventLock[JobOf(a)] = a
      /\ processing \in [Jobs -> Phases]
  BY <1>1, InvariantTable DEF Holds, At, Inside, Processing
<1>3. Plain \in Reports /\ Busy \in Reports
  BY DEF Reports
<1>4. CASE LockEvent(a)
  <2>1. [Next]_vars /\ EventStep(a)
    BY <1>4 DEF LockEvent, EventStep, vars
  <2>2. CASE Return(a, Busy) /\ UNCHANGED eventLock
    BY <1>1, <1>3, <1>4, <2>1, <2>2, ReturnKept DEF LockEvent
  <2>3. CASE eventLock[JobOf(a)] = Nobody /\ eventLock' = Take(eventLock, a) /\ Goto(a, "read")
    <3>1. "read" \in Steps
      BY DEF Steps, Preparing
    <3>2. /\ Locally(a, [actor[a] EXCEPT !.pc = "read"]) /\ actor'[a].pc = "read"
          /\ actor'[a].job = actor[a].job
      BY <1>1, <2>3, <3>1, GotoStep
    <3>3. LockStep(eventLock, eventLock', a) /\ LockStep(runLock, runLock', a)
      BY <1>1, <1>4, <2>3 DEF LockStep, Take, LockEvent
    <3>4. Holds(a)'
      BY <1>1, <2>3, <3>2 DEF Holds, At, JobOf, Take, Executing, LocksOK
    <3>5. QED
      BY <1>1, <2>1, <3>2, <3>3, <3>4, StepKept
  <2>4. QED
    BY <1>4, <2>1, <2>2, <2>3 DEF LockEvent
<1>5. CASE Read(a)
  <2>1. [Next]_vars /\ EventStep(a)
    BY <1>5 DEF Read, EventStep, PublishAll, Next
  <2>2. CASE Return(a, Plain) /\ eventLock' = Released(eventLock, a)
    BY <1>1, <1>3, <1>5, <2>1, <2>2, ReturnKept DEF Read
  <2>3. CASE /\ actor' = [actor EXCEPT ![a].pc = "claim", ![a].read = event'[JobOf(a)].status]
             /\ UNCHANGED eventLock
    <3> DEFINE r == [actor[a] EXCEPT !.pc = "claim", !.read = event'[JobOf(a)].status]
    <3>1. event'[JobOf(a)].status \in EventStatus
      <4>1. IInv'
        BY <2>1, NextKept DEF Kept
      <4>2. event'[JobOf(a)] \in Event
        BY <1>1, <4>1, InvariantTableNext
      <4>3. QED
        BY <4>2 DEF Event
    <3>2. r \in Locals /\ r.pc = "claim" /\ r.job = actor[a].job
      BY <1>1, <3>1 DEF LocksOK, Locals, Steps, Preparing
    <3>3. actor' = [actor EXCEPT ![a] = r]
      BY <1>1, <2>3 DEF LocksOK
    <3>4. Locally(a, r) /\ actor'[a] = r
      BY <1>1, <3>2, <3>3 DEF Locally, LocksOK
    <3> HIDE DEF r
    <3>5. LockStep(eventLock, eventLock', a) /\ LockStep(runLock, runLock', a)
      BY <1>5, <2>3 DEF LockStep, Read
    <3>6. Holds(a)'
      BY <1>1, <1>2, <1>5, <2>3, <3>2, <3>4 DEF Holds, At, JobOf, Executing, Read
    <3>7. QED
      BY <1>1, <2>1, <3>4, <3>5, <3>6, StepKept
  <2>4. QED
    BY <1>5, <2>1, <2>2, <2>3 DEF Read
<1>6. CASE ClaimEvent(a)
  <2>1. CASE EventClaim(JobOf(a)) /\ Goto(a, "execute") /\ UNCHANGED eventLock
    <3>1. [Next]_vars
      BY <1>1, <2>1 DEF Next
    <3>2. "execute" \in Steps
      BY DEF Steps, Processing
    <3>3. /\ Locally(a, [actor[a] EXCEPT !.pc = "execute"]) /\ actor'[a].pc = "execute"
          /\ actor'[a].job = actor[a].job
      BY <1>1, <2>1, <3>2, GotoStep
    <3>4. eventLock[JobOf(a)] = a
      BY <1>2, <1>6 DEF At, ClaimEvent
    <3>5. EventStep(a)
      BY <2>1, <3>4 DEF EventStep, EventClaim
    <3>6. LockStep(eventLock, eventLock', a) /\ LockStep(runLock, runLock', a)
      BY <1>6, <2>1 DEF LockStep, ClaimEvent
    <3>7. processing'[JobOf(a)] = "executing"
      BY <1>1, <1>2, <2>1 DEF EventClaim
    <3>8. Holds(a)'
      BY <1>1, <2>1, <3>3, <3>4, <3>7 DEF Holds, At, JobOf, Executing
    <3>9. QED
      BY <1>1, <3>1, <3>3, <3>5, <3>6, <3>8, StepKept
  <2>2. CASE Return(a, Busy) /\ eventLock' = Released(eventLock, a) /\ UNCHANGED vars
    <3>1. [Next]_vars /\ EventStep(a)
      BY <2>2 DEF EventStep, vars
    <3>2. QED
      BY <1>1, <1>3, <1>6, <2>2, <3>1, ReturnKept DEF ClaimEvent
  <2>3. QED
    BY <1>6, <2>1, <2>2 DEF ClaimEvent
<1>7. CASE LockRun(a)
  <2>1. [Next]_vars /\ EventStep(a)
    BY <1>7 DEF LockRun, EventStep, vars
  <2>2. "locked" \in Steps
    BY DEF Steps, Processing, Executing
  <2>3. /\ Locally(a, [actor[a] EXCEPT !.pc = "locked"]) /\ actor'[a].pc = "locked"
        /\ actor'[a].job = actor[a].job
    BY <1>1, <1>7, <2>2, GotoStep DEF LockRun
  <2>4. LockStep(eventLock, eventLock', a) /\ LockStep(runLock, runLock', a)
    BY <1>1, <1>7 DEF LockStep, Take, LockRun, RunFree
  <2>5. eventLock[JobOf(a)] = a /\ processing[JobOf(a)] = "executing"
    BY <1>1, <1>7 DEF LockRun, Holds, At, Inside, Processing
  <2>6. Holds(a)'
    BY <1>1, <1>7, <2>3, <2>5 DEF Holds, At, JobOf, Take, LocksOK, LockRun, vars
  <2>7. QED
    BY <1>1, <2>1, <2>3, <2>4, <2>6, StepKept
<1>8. ASSUME NEW how \in Reports, Return(a, how), [Next]_vars, EventStep(a),
             eventLock' = Released(eventLock, a), UNCHANGED runLock
      PROVE  ControlInv'
  BY <1>1, <1>8, ReturnKept
<1>9. ASSUME EventStep(a), [Next]_vars, Goto(a, "close"), UNCHANGED <<eventLock, runLock>>,
             At(a, {"execute", "failing"})
      PROVE  ControlInv'
  <2>1. "close" \in Steps
    BY DEF Steps, Processing
  <2>2. /\ Locally(a, [actor[a] EXCEPT !.pc = "close"]) /\ actor'[a].pc = "close"
        /\ actor'[a].job = actor[a].job
    BY <1>1, <1>9, <2>1, GotoStep
  <2>3. LockStep(eventLock, eventLock', a) /\ LockStep(runLock, runLock', a)
    BY <1>9 DEF LockStep
  <2>4. Holds(a)'
    BY <1>1, <1>2, <1>9, <2>2 DEF Holds, At, JobOf, Executing
  <2>5. QED
    BY <1>1, <1>9, <2>2, <2>3, <2>4, StepKept
<1>10. CASE RunBusy(a)
  <2>1. eventLock[JobOf(a)] = a /\ UNCHANGED runLock
    BY <1>2, <1>10 DEF RunBusy, At
  <2>2. CASE EventDropped(JobOf(a)) /\ Return(a, Busy) /\ eventLock' = Released(eventLock, a)
    <3>1. [Next]_vars /\ EventStep(a)
      BY <1>1, <2>1, <2>2 DEF Next, EventStep, EventDropped
    <3>2. QED
      BY <1>3, <1>8, <2>1, <2>2, <3>1
  <2>3. CASE Goto(a, "close") /\ UNCHANGED <<vars, eventLock>>
    <3>1. [Next]_vars /\ EventStep(a)
      BY <2>3 DEF EventStep, vars
    <3>2. QED
      BY <1>9, <1>10, <2>1, <2>3, <3>1 DEF RunBusy, At
  <2>4. QED
    BY <1>10, <2>2, <2>3 DEF RunBusy
<1>11. CASE SaveFailure(a)
  <2>1. eventLock[JobOf(a)] = a
    BY <1>2, <1>11 DEF SaveFailure, At
  <2>2. [Next]_vars /\ EventStep(a)
    BY <1>1, <1>11, <2>1 DEF SaveFailure, Next, EventStep, EventFail
  <2>3. QED
    BY <1>9, <1>11, <2>2 DEF SaveFailure, KeepLocks, At
<1>12. CASE Close(a)
  <2>1. eventLock[JobOf(a)] = a
    BY <1>2, <1>12 DEF Close, At
  <2>2. [Next]_vars /\ EventStep(a)
    BY <1>1, <1>12, <2>1 DEF Close, Next, EventStep, EventEnd
  <2>3. QED
    BY <1>3, <1>8, <1>12, <2>2 DEF Close
<1>13. CASE ProcessFails(a)
  <2>1. [Next]_vars /\ EventStep(a)
    <3>1. CASE At(a, {"failing", "close"}) /\ EventDropped(JobOf(a))
      <4>1. eventLock[JobOf(a)] = a
        BY <1>2, <3>1 DEF At
      <4>2. QED
        BY <1>1, <3>1, <4>1 DEF Next, EventStep, EventDropped
    <3>2. CASE UNCHANGED vars
      BY <3>2 DEF EventStep, vars
    <3>3. QED
      BY <1>13, <3>1, <3>2 DEF ProcessFails
  <2>2. QED
    BY <1>3, <1>8, <1>13, <2>1 DEF ProcessFails
<1>14. QED
  BY <1>4, <1>5, <1>6, <1>7, <1>10, <1>11, <1>12, <1>13 DEF ProcessStep

----------------------------------------------------------------------------
(* The execution of a run, and the human commands *)

(* What an executor's first transaction does to a run is one of the steps   *)
(* of a workflow, or nothing.                                               *)
LEMMA BegunStep ==
    ASSUME NEW r \in Run
    PROVE  Begun(r) = r \/ (Begun(r) \in Run /\ RunStep(r, Begun(r)))
  BY DEF Begun, Run, RunStatus, NoRun, RunStep, RunCreated, RunRestarted

(* Whoever holds the run's lock: processes that execute an event, and human *)
(* commands.                                                                *)
LEMMA RunnerKept ==
    ASSUME IInv, ControlInv, NEW a \in Actors,
           RunnerStep(a) \/ RunRaises(a) \/ (a \in Humans /\ Decide(a))
    PROVE  [Next]_vars /\ ControlInv'
<1>1. /\ JobOf(a) \in Jobs /\ At(a, {"execute"} \cup Executing)
      /\ LocksOK /\ Holds(a)
  BY DEF ControlInv, Holds, At, RunnerStep, RunRaises, Fault, BeginRun, EndRun, PublishResult,
     ReturnRun, Decide, Executing
<1>2. run \in [Jobs -> Run] /\ run[JobOf(a)] \in Run
  BY <1>1, InvariantTable
<1>3. [Next]_vars
  <2>1. CASE BeginRun(a)
    <3> DEFINE r == run[JobOf(a)]
    <3>1. CASE Begun(r) = r
      <4>1. run' = run
        BY <1>1, <1>2, <2>1, <3>1 DEF BeginRun
      <4>2. QED
        BY <2>1, <4>1 DEF BeginRun, vars
    <3>2. CASE Begun(r) \in Run /\ RunStep(r, Begun(r))
      <4>1. r = NoRun => processing[JobOf(a)] = "executing"
        BY <1>1, <2>1 DEF BeginRun, Holds, At, Executing
      <4>2. Workflow(JobOf(a))
        BY <1>1, <1>2, <2>1, <3>2, <4>1 DEF BeginRun, Workflow
      <4>3. QED
        BY <1>1, <4>2 DEF Next
    <3>3. QED
      BY <1>2, <3>1, <3>2, BegunStep
  <2>2. CASE EndRun(a) \/ Decide(a)
    BY <1>1, <2>2 DEF EndRun, Decide, Next
  <2>3. CASE PublishResult(a)
    BY <1>1, <2>3 DEF PublishResult, Next
  <2>4. CASE ReturnRun(a) \/ RunRaises(a)
    BY <2>4 DEF ReturnRun, RunRaises
  <2>5. QED
    BY <2>1, <2>2, <2>3, <2>4 DEF RunnerStep
<1>4. /\ UNCHANGED eventLock /\ UNCHANGED processing
      /\ runLock' = runLock \/ runLock' = Released(runLock, a)
  BY DEF RunnerStep, RunRaises, BeginRun, EndRun, PublishResult, ReturnRun, Decide, KeepLocks,
     Workflow, PublishRun, vars
<1>5. LockStep(eventLock, eventLock', a) /\ LockStep(runLock, runLock', a) /\ EventStep(a)
  BY <1>4 DEF LockStep, EventStep
<1>6. \A j \in Jobs : run[j] # NoRun => run'[j] # NoRun
  BY <1>3, RunsStay
<1>7. ASSUME UNCHANGED runLock, At(a, Executing), a \in Humans => run[JobOf(a)] # NoRun,
             Goto(a, "running") \/ Goto(a, "publish") \/ Goto(a, "return")
      PROVE  ControlInv'
  <2> PICK p \in {"running", "publish", "return"} : Goto(a, p)
    BY <1>7
  <2>1. p \in Steps /\ p \in Executing
    BY DEF Steps, Processing, Executing
  <2>2. /\ Locally(a, [actor[a] EXCEPT !.pc = p]) /\ actor'[a].pc = p
        /\ actor'[a].job = actor[a].job
    BY <1>7, <2>1, GotoStep
  <2>3. Holds(a)'
    BY <1>1, <1>4, <1>6, <1>7, <2>1, <2>2 DEF Holds, At, JobOf, Inside, Processing, Executing
  <2>4. QED
    BY <1>3, <1>5, <2>2, <2>3, StepKept
<1>8. ASSUME NEW p \in {"close", "failing"}, Goto(a, p), a \notin Humans
      PROVE  ControlInv'
  <2>1. p \in Steps /\ p \notin {"idle", "execute"} \cup Executing
    BY DEF Steps, Processing, Executing
  <2>2. /\ Locally(a, [actor[a] EXCEPT !.pc = p]) /\ actor'[a].pc = p
        /\ actor'[a].job = actor[a].job
    BY <1>8, <2>1, GotoStep
  <2>3. eventLock[JobOf(a)] = a
    BY <1>1, <1>8 DEF Holds, At, Inside, Processing
  <2>4. Holds(a)'
    BY <1>1, <1>4, <1>8, <2>1, <2>2, <2>3 DEF Holds, At, JobOf
  <2>5. QED
    BY <1>3, <1>5, <2>2, <2>4, StepKept
<1>9. CASE Rest(a)
  BY <1>3, <1>5, <1>9, RestStep, QuietKept DEF Resting, Inside, Processing, Executing
<1>10. CASE BeginRun(a) \/ EndRun(a) \/ PublishResult(a) \/ (a \in Humans /\ Decide(a))
  <2>1. At(a, Executing) /\ UNCHANGED runLock
    BY <1>10 DEF BeginRun, EndRun, PublishResult, Decide, At, Executing, KeepLocks
  <2>2. a \in Humans => run[JobOf(a)] # NoRun
    BY <1>1, <2>1 DEF Holds
  <2>3. Goto(a, "running") \/ Goto(a, "publish") \/ Goto(a, "return")
    BY <1>10 DEF BeginRun, EndRun, PublishResult, Decide
  <2>4. QED
    BY <1>3, <1>7, <2>1, <2>2, <2>3
<1>11. CASE ReturnRun(a) \/ RunRaises(a)
  BY <1>8, <1>9, <1>11 DEF ReturnRun, RunRaises
<1>12. QED
  BY <1>3, <1>10, <1>11 DEF RunnerStep

(* Commands and human commands are started.                                 *)
LEMMA StartKept ==
    ASSUME IInv, ControlInv, NEW a \in Actors,
           (a \in Commands /\ StartCommand(a)) \/ (a \in Humans /\ StartHuman(a))
    PROVE  [Next]_vars /\ ControlInv'
<1>1. /\ actor \in [Actors -> Locals] /\ LocksOK
      /\ a \in Commands => a \notin Humans
  BY DeliveryConstants DEF ControlInv, LocksOK
<1>2. [Next]_vars /\ EventStep(a) /\ UNCHANGED <<run, processing>>
  BY DEF StartCommand, StartHuman, EventStep, vars
<1>3. CASE a \in Commands /\ StartCommand(a)
  <2>1. PICK j \in Jobs, retry \in BOOLEAN :
            actor' = [actor EXCEPT ![a] = [Resting EXCEPT !.pc = "lockEvent", !.job = j,
                                                          !.retry = retry]]
    BY <1>3 DEF StartCommand
  <2> DEFINE r == [Resting EXCEPT !.pc = "lockEvent", !.job = j, !.retry = retry]
  <2>2. r \in Locals /\ r.pc = "lockEvent" /\ r.job = j
    BY DEF Resting, Locals, Steps, Preparing, Reports, EventStatus, NoToken
  <2>3. Locally(a, r) /\ actor'[a] = r
    BY <1>1, <2>1, <2>2 DEF Locally
  <2> HIDE DEF r
  <2>4. LockStep(eventLock, eventLock', a) /\ LockStep(runLock, runLock', a)
    BY <1>3 DEF LockStep, StartCommand, KeepLocks
  <2>5. QED
    BY <1>1, <1>2, <1>3, <2>2, <2>3, <2>4, QuietKept DEF Inside, Processing, Executing
<1>4. CASE a \in Humans /\ StartHuman(a)
  <2>1. PICK j \in Jobs :
            /\ run[j] # NoRun /\ runLock[j] = Nobody
            /\ actor' = [actor EXCEPT ![a] = [Resting EXCEPT !.pc = "locked", !.job = j]]
            /\ runLock' = [runLock EXCEPT ![j] = a]
    BY <1>4 DEF StartHuman, RunFree
  <2> DEFINE r == [Resting EXCEPT !.pc = "locked", !.job = j]
  <2>2. r \in Locals /\ r.pc = "locked" /\ r.job = j
    BY DEF Resting, Locals, Steps, Processing, Executing, Reports, EventStatus, NoToken
  <2>3. Locally(a, r) /\ actor'[a] = r
    BY <1>1, <2>1, <2>2 DEF Locally
  <2> HIDE DEF r
  <2>4. LockStep(eventLock, eventLock', a) /\ LockStep(runLock, runLock', a)
    BY <1>4, <2>1 DEF LockStep, StartHuman
  <2>5. runLock'[j] = a
    BY <1>1, <2>1 DEF LocksOK
  <2>6. Holds(a)'
    BY <1>2, <1>4, <2>1, <2>2, <2>3, <2>5 DEF Holds, At, JobOf, Executing
  <2>7. QED
    BY <1>1, <1>2, <2>3, <2>4, <2>6, StepKept
<1>5. QED
  BY <1>2, <1>3, <1>4

----------------------------------------------------------------------------
(* Observers, operators and the clock, or nobody.                           *)
LEMMA EnvironmentStep ==
    ASSUME IInv, ControlInv, Environment \/ UNCHANGED allVars
    PROVE  [Next]_vars /\ ControlInv'
<1>1. [Next]_vars
  BY DEF Environment, Next, allVars
<1>2. UNCHANGED <<run, processing>> /\ UNCHANGED control
  BY DEF Environment, Tick, Observe, Enqueue, Replay, allVars, vars
<1>3. QED
  BY <1>1, <1>2 DEF control, ControlInv, LocksOK, Holds, At, JobOf

(* Every step of the composition is a step of the queue or none.            *)
LEMMA DeliveryStep ==
    ASSUME IInv, ControlInv, [DeliveryNext]_allVars
    PROVE  [Next]_vars /\ ControlInv'
<1>1. CASE Environment \/ UNCHANGED allVars
  BY <1>1, EnvironmentStep
<1>2. ASSUME NEW w \in Workers,
             WorkerStep(w) \/ DeliveryFails(w) \/ Beat(w) \/ BeatFails(w) \/ Interrupt(w)
      PROVE  [Next]_vars /\ ControlInv'
  <2>1. w \in Actors
    BY DEF Actors
  <2>2. QED
    BY <1>2, <2>1, PollKept, MainThreadKept, ThreadKept, DeliveryFailsKept, UnlockKept DEF WorkerStep
<1>3. ASSUME NEW c \in Commands, StartCommand(c) PROVE [Next]_vars /\ ControlInv'
  BY <1>3, StartKept DEF Actors
<1>4. ASSUME NEW a \in Workers \cup Commands, ProcessStep(a) \/ ProcessFails(a)
      PROVE  [Next]_vars /\ ControlInv'
  BY <1>4, ProcessKept
<1>5. ASSUME NEW h \in Humans, StartHuman(h) \/ Decide(h) PROVE [Next]_vars /\ ControlInv'
  BY <1>5, StartKept, RunnerKept DEF Actors
<1>6. ASSUME NEW a \in Actors, RunnerStep(a) \/ RunRaises(a) \/ Die(a) \/ Dead(a)
      PROVE  [Next]_vars /\ ControlInv'
  BY <1>6, RunnerKept, DieKept, UnlockKept
<1>7. QED
  BY <1>1, <1>2, <1>3, <1>4, <1>5, <1>6 DEF DeliveryNext

(* Nobody has started.                                                      *)
LEMMA DeliveryInitKept == DeliveryInit => IInv /\ ControlInv
<1> SUFFICES ASSUME DeliveryInit PROVE IInv /\ ControlInv
  OBVIOUS
<1>1. IInv
  BY InitKept DEF DeliveryInit
<1>2. Resting \in Locals
  BY DEF Resting, Locals, Steps, Reports, EventStatus, NoToken
<1>3. LocksOK
  BY <1>2 DEF LocksOK, DeliveryInit
<1>4. \A a \in Actors : actor[a] = Resting
  BY DEF DeliveryInit
<1>5. \A a \in Actors : Holds(a)
  BY <1>4 DEF Holds, At, Resting, Inside, Processing, Executing
<1>6. QED
  BY <1>1, <1>3, <1>5 DEF ControlInv

----------------------------------------------------------------------------
(* In every reachable state of the composition, the queue's records are in  *)
(* order and every process holds the locks its step relies on.              *)
THEOREM DeliveryInvariance == DeliverySpec => [](IInv /\ ControlInv)
<1>1. DeliveryInit => IInv /\ ControlInv
  BY DeliveryInitKept
<1>2. IInv /\ ControlInv /\ [DeliveryNext]_allVars => (IInv /\ ControlInv)'
  BY DeliveryStep, NextKept DEF Kept
<1>3. QED
  BY <1>1, <1>2, PTL DEF DeliverySpec

(* Workers, commands and human commands, stepping through worker.py and     *)
(* _process in any order, never do to the database what the transactions of *)
(* module Queue do not allow: all its theorems hold of them.                *)
THEOREM DeliveryImplementsQueue == DeliverySpec => ImplementsQueue
<1>1. DeliveryInit => Init
  BY DEF DeliveryInit
<1>2. IInv /\ ControlInv /\ [DeliveryNext]_allVars => [Next]_vars
  BY DeliveryStep
<1>3. QED
  BY <1>1, <1>2, DeliveryInvariance, PTL DEF DeliverySpec, ImplementsQueue, Spec

(* However many processes there are, one at a time executes a run, because  *)
(* an executor holds the run's lock until it has published or is dead.      *)
THEOREM OneExecutorAtATime == DeliverySpec => []OneExecutor
<1>1. ControlInv => OneExecutor
  BY DEF ControlInv, Holds, OneExecutor
<1>2. QED
  BY <1>1, DeliveryInvariance, PTL

(* An unexpired lease of the composed system is ended by its holder only.   *)
THEOREM DeliveredExclusively == DeliverySpec => LeaseExclusive
  BY DeliveryImplementsQueue, LeasesExclusive, PTL DEF ImplementsQueue

(* The records of the composed system agree with the runs, and no attempt's *)
(* end is rewritten, whatever its processes go through.                     *)
THEOREM DeliveredOnRecord == DeliverySpec => []RecordsAgree /\ RunPrevails /\ HistoryKept
  BY DeliveryImplementsQueue, RecordsAlwaysAgree, RunsPrevail, HistoryAlwaysKept, PTL
     DEF ImplementsQueue

----------------------------------------------------------------------------
(* Who moves a run on, and who settles a delivery                           *)

(* a step by which nobody begins to execute a run                           *)
Calm ==
    \A a \in Actors : actor'[a].pc = "running"
                      => actor[a].pc = "running" /\ actor'[a].job = actor[a].job

(* a step by which no worker takes a delivery in hand                       *)
SameDelivery ==
    \A w \in Workers : actor'[w].pc # "idle"
                       => /\ actor[w].pc # "idle"
                          /\ actor'[w].job = actor[w].job /\ actor'[w].token = actor[w].token

(* An execution that is not a human's own is of a run that is RUNNING.      *)
ExecutesRunning ==
    \A a \in Actors \ Humans : At(a, {"running"}) => run[JobOf(a)].status = "RUNNING"

(* A process that changes its own locals, but not to begin an execution or  *)
(* a delivery.                                                              *)
LEMMA LocalCalm ==
    ASSUME ControlInv, NEW a \in Actors, NEW r, actor' = [actor EXCEPT ![a] = r]
    PROVE  /\ r.pc # "running" \/ (r.pc = actor[a].pc /\ r.job = actor[a].job) => Calm
           /\ \/ a \notin Workers
              \/ r.pc = "idle"
              \/ actor[a].pc # "idle" /\ r.job = actor[a].job /\ r.token = actor[a].token
              => SameDelivery
<1>1. \A b \in Actors : actor'[b] = IF b = a THEN r ELSE actor[b]
  BY DEF ControlInv, LocksOK
<1>2. Workers \subseteq Actors
  BY DEF Actors
<1>3. QED
  BY <1>1, <1>2 DEF Calm, SameDelivery

(* ... by going on, coming to rest or returning from _process.              *)
LEMMA ControlCalm ==
    ASSUME ControlInv, NEW a \in Actors, ~ At(a, {"idle"})
    PROVE  /\ \A p \in Steps : Goto(a, p) => (p # "running" => Calm) /\ SameDelivery
           /\ Rest(a) => Calm /\ SameDelivery
           /\ \A how \in Reports : Return(a, how) => Calm /\ SameDelivery
<1>1. actor[a] \in Locals /\ actor[a].pc # "idle"
  BY DEF ControlInv, LocksOK, At
<1>2. ASSUME NEW p \in Steps, Goto(a, p) PROVE (p # "running" => Calm) /\ SameDelivery
  <2> DEFINE r == [actor[a] EXCEPT !.pc = p]
  <2>1. /\ actor' = [actor EXCEPT ![a] = r] /\ r.pc = p
        /\ r.job = actor[a].job /\ r.token = actor[a].token
    BY <1>1, <1>2 DEF Goto, Locals
  <2> HIDE DEF r
  <2>2. QED
    BY <1>1, <2>1, LocalCalm
<1>3. ASSUME Rest(a) PROVE Calm /\ SameDelivery
  <2>1. actor' = [actor EXCEPT ![a] = Resting] /\ Resting.pc = "idle"
    BY <1>3 DEF Rest, Resting
  <2>2. QED
    BY <2>1, LocalCalm
<1>4. ASSUME NEW how \in Reports, Return(a, how) PROVE Calm /\ SameDelivery
  <2> DEFINE r == IF a \in Workers THEN [actor[a] EXCEPT !.pc = "exit", !.report = how]
                  ELSE Resting
  <2>1. actor' = [actor EXCEPT ![a] = r]
    BY <1>4 DEF Return
  <2>2. /\ r.pc # "running"
        /\ a \in Workers => r.job = actor[a].job /\ r.token = actor[a].token
    BY <1>1 DEF Locals, Resting
  <2> HIDE DEF r
  <2>3. QED
    BY <1>1, <2>1, <2>2, LocalCalm
<1>5. QED
  BY <1>2, <1>3, <1>4

(* The worker's own transactions and its heartbeat leave the runs to others.*)
LEMMA WorkerCalm ==
    ASSUME ControlInv, NEW w \in Workers,
           WorkerStep(w) \/ DeliveryFails(w) \/ Beat(w) \/ BeatFails(w) \/ Interrupt(w)
    PROVE  Calm /\ UNCHANGED run /\ (Poll(w) \/ SameDelivery)
<1>1. w \in Actors /\ actor[w] \in Locals
  BY DEF Actors, ControlInv, LocksOK
<1> USE DEF At
<1>2. Plain \in Reports /\ Terminal \in Reports
  BY DEF Reports
<1>3. {"lockEvent", "leave", "refresh", "quit", "unwinding"} \subseteq Steps
  BY DEF Steps, Preparing
<1>4. CASE Poll(w)
  <2>1. UNCHANGED run
    BY <1>4 DEF Poll, ClaimNone, Claim
  <2>2. CASE UNCHANGED actor
    BY <1>4, <2>1, <2>2 DEF Calm
  <2>3. ASSUME NEW j, NEW t, actor' = [actor EXCEPT ![w] = [Resting EXCEPT !.pc = "enter", !.job = j,
                                                            !.token = t]]
        PROVE  Calm
    <3> DEFINE r == [Resting EXCEPT !.pc = "enter", !.job = j, !.token = t]
    <3>1. actor' = [actor EXCEPT ![w] = r] /\ r.pc = "enter"
      BY <2>3 DEF Resting
    <3> HIDE DEF r
    <3>2. QED
      BY <1>1, <3>1, LocalCalm
  <2>4. QED
    BY <1>4, <2>1, <2>2, <2>3 DEF Poll
<1>5. CASE Enter(w)
  <2>1. UNCHANGED run
    BY <1>5 DEF Enter, Heartbeat
  <2>2. ~ At(w, {"idle"})
    BY <1>5 DEF Enter
  <2>3. ASSUME actor' = [actor EXCEPT ![w].pc = "begin", ![w].beat = TRUE]
        PROVE  Calm /\ SameDelivery
    <3> DEFINE r == [actor[w] EXCEPT !.pc = "begin", !.beat = TRUE]
    <3>1. /\ actor' = [actor EXCEPT ![w] = r] /\ r.pc = "begin"
          /\ r.job = actor[w].job /\ r.token = actor[w].token
      BY <1>1, <2>3 DEF ControlInv, LocksOK, Locals
    <3> HIDE DEF r
    <3>2. QED
      BY <1>1, <2>2, <3>1, LocalCalm
  <2>4. QED
    BY <1>1, <1>3, <1>5, <2>1, <2>2, <2>3, ControlCalm DEF Enter
<1>6. CASE Join(w) \/ Unwind(w)
  <2>1. UNCHANGED run
    BY <1>6 DEF Join, Unwind, Unlock, EventDropped, vars
  <2>2. PICK p \in {"settle", "quit", "interrupted"} :
            actor' = [actor EXCEPT ![w].beat = FALSE, ![w].pc = p]
    BY <1>1, <1>6 DEF Join, Unwind, ControlInv, LocksOK, Locals
  <2> DEFINE r == [actor[w] EXCEPT !.beat = FALSE, !.pc = p]
  <2>3. /\ actor' = [actor EXCEPT ![w] = r] /\ r.pc = p
        /\ r.job = actor[w].job /\ r.token = actor[w].token
    BY <1>1, <2>2 DEF ControlInv, LocksOK, Locals
  <2>4. ~ At(w, {"idle"})
    BY <1>6 DEF Join, Unwind
  <2> HIDE DEF r
  <2>5. QED
    BY <1>1, <2>1, <2>2, <2>3, <2>4, LocalCalm
<1>7. CASE \/ Begin(w) \/ SettleJob(w) \/ Refuse(w) \/ Quit(w) \/ Refresh(w)
           \/ SettleInterrupted(w) \/ Interrupt(w)
  <2>1. UNCHANGED run
    BY <1>7 DEF Begin, SettleJob, Refuse, Quit, Refresh, SettleInterrupted, Interrupt,
                Finish, WorkerStops, PublishRun, vars
  <2>2. \/ Goto(w, "lockEvent") \/ Goto(w, "leave") \/ Goto(w, "refresh")
        \/ Goto(w, "quit") \/ Goto(w, "unwinding") \/ Rest(w)
    BY <1>7 DEF Begin, SettleJob, Refuse, Quit, Refresh, SettleInterrupted, Interrupt
  <2>3. ~ At(w, {"idle"})
    BY <1>7 DEF Begin, SettleJob, Refuse, Quit, Refresh, SettleInterrupted, Interrupt,
                Preparing, Processing, Executing
  <2>4. QED
    BY <1>1, <1>3, <2>1, <2>2, <2>3, ControlCalm
<1>8. CASE DeliveryFails(w)
  <2>1. ~ At(w, {"idle"})
    BY <1>8 DEF DeliveryFails, Fault
  <2>2. QED
    BY <1>1, <1>2, <1>8, <2>1, ControlCalm DEF DeliveryFails, vars
<1>9. CASE Beat(w) \/ BeatFails(w)
  <2>1. UNCHANGED run
    BY <1>9 DEF Beat, BeatFails, Heartbeat, vars
  <2>2. ~ At(w, {"idle"})
    BY <1>1, <1>9 DEF Beat, BeatFails, ControlInv, Holds
  <2>3. ASSUME actor' = [actor EXCEPT ![w].beat = FALSE, ![w].lost = TRUE]
        PROVE  Calm /\ SameDelivery
    <3> DEFINE r == [actor[w] EXCEPT !.beat = FALSE, !.lost = TRUE]
    <3>1. /\ actor' = [actor EXCEPT ![w] = r] /\ r.pc = actor[w].pc /\ r.job = actor[w].job
          /\ r.token = actor[w].token
      BY <1>1, <2>3 DEF ControlInv, LocksOK, Locals
    <3> HIDE DEF r
    <3>2. QED
      BY <1>1, <2>2, <3>1, LocalCalm
  <2>4. UNCHANGED actor => Calm /\ SameDelivery
    BY DEF Calm, SameDelivery
  <2>5. QED
    BY <1>9, <2>1, <2>3, <2>4 DEF Beat, BeatFails
<1>10. QED
  BY <1>4, <1>5, <1>6, <1>7, <1>8, <1>9 DEF WorkerStep

(* Nor do _process up to the run's lock and from it, the starts of commands *)
(* and the deaths of processes touch a run.                                 *)
LEMMA ProcessCalm ==
    ASSUME ControlInv,
           \/ \E a \in Workers \cup Commands : ProcessStep(a) \/ ProcessFails(a)
           \/ \E c \in Commands : StartCommand(c)
           \/ \E h \in Humans : StartHuman(h)
           \/ \E a \in Actors : Die(a) \/ Dead(a)
    PROVE  Calm /\ SameDelivery /\ UNCHANGED run
<1>1. UNCHANGED run
  BY DEF ProcessStep, LockEvent, Read, ClaimEvent, LockRun, RunBusy, SaveFailure, Close,
         ProcessFails, StartCommand, StartHuman, Die, Dead, Unlock, PublishAll,
         EventClaim, EventFail, EventEnd, EventDropped, WorkerStops, vars
<1>2. Plain \in Reports /\ Busy \in Reports
  BY DEF Reports
<1>3. {"read", "execute", "locked", "close"} \subseteq Steps
  BY DEF Steps, Preparing, Processing, Executing
<1>4. ASSUME NEW a \in Workers \cup Commands, ProcessStep(a) \/ ProcessFails(a) PROVE Calm /\ SameDelivery
  <2>1. a \in Actors /\ actor[a] \in Locals
    BY DEF Actors, ControlInv, LocksOK
  <2> USE DEF At
  <2>0. ~ At(a, {"idle"})
    BY <1>4 DEF ProcessStep, LockEvent, Read, ClaimEvent, LockRun, RunBusy, SaveFailure, Close,
                ProcessFails, Fault
  <2>2. CASE Read(a)
    <3>1. CASE Return(a, Plain)
      BY <1>2, <2>0, <2>1, <3>1, ControlCalm
    <3>2. ASSUME NEW s,
                 actor' = [actor EXCEPT ![a].pc = "claim", ![a].read = s]
          PROVE  Calm /\ SameDelivery
      <4> DEFINE r == [actor[a] EXCEPT !.pc = "claim", !.read = s]
      <4>1. /\ actor' = [actor EXCEPT ![a] = r] /\ r.pc = "claim"
            /\ r.job = actor[a].job /\ r.token = actor[a].token
        BY <2>1, <3>2 DEF ControlInv, LocksOK, Locals
      <4> HIDE DEF r
      <4>2. QED
        BY <2>0, <2>1, <4>1, LocalCalm
    <3>3. QED
      BY <2>2, <3>1, <3>2 DEF Read
  <2>3. CASE ~ Read(a)
    <3>1. \/ Goto(a, "read") \/ Goto(a, "execute") \/ Goto(a, "locked") \/ Goto(a, "close")
          \/ Return(a, Plain) \/ Return(a, Busy)
      BY <1>4, <2>3 DEF ProcessStep, LockEvent, ClaimEvent, LockRun, RunBusy, SaveFailure,
                        Close, ProcessFails
    <3>2. QED
      BY <1>2, <1>3, <2>0, <2>1, <3>1, ControlCalm
  <2>4. QED
    BY <2>2, <2>3
<1>5. ASSUME NEW c \in Commands, StartCommand(c) PROVE Calm /\ SameDelivery
  <2>1. PICK j \in Jobs, retry \in BOOLEAN :
            actor' = [actor EXCEPT ![c] = [Resting EXCEPT !.pc = "lockEvent", !.job = j,
                                                          !.retry = retry]]
    BY <1>5 DEF StartCommand
  <2> DEFINE r == [Resting EXCEPT !.pc = "lockEvent", !.job = j, !.retry = retry]
  <2>2. actor' = [actor EXCEPT ![c] = r] /\ r.pc # "running"
    BY <2>1 DEF Resting
  <2>3. c \in Actors /\ c \notin Workers
    BY DeliveryConstants DEF Actors
  <2> HIDE DEF r
  <2>4. QED
    BY <2>2, <2>3, LocalCalm
<1>6. ASSUME NEW h \in Humans, StartHuman(h) PROVE Calm /\ SameDelivery
  <2>1. PICK j \in Jobs :
            actor' = [actor EXCEPT ![h] = [Resting EXCEPT !.pc = "locked", !.job = j]]
    BY <1>6 DEF StartHuman
  <2> DEFINE r == [Resting EXCEPT !.pc = "locked", !.job = j]
  <2>2. actor' = [actor EXCEPT ![h] = r] /\ r.pc # "running"
    BY <2>1 DEF Resting
  <2>3. h \in Actors /\ h \notin Workers
    BY DeliveryConstants DEF Actors
  <2> HIDE DEF r
  <2>4. QED
    BY <2>2, <2>3, LocalCalm
<1>7. ASSUME NEW a \in Actors, Die(a) PROVE Calm /\ SameDelivery
  <2> DEFINE r == [actor[a] EXCEPT !.pc = "dying", !.beat = FALSE]
  <2>1. /\ actor' = [actor EXCEPT ![a] = r] /\ r.pc = "dying"
        /\ r.job = actor[a].job /\ r.token = actor[a].token /\ actor[a].pc # "idle"
    BY <1>7 DEF Die, ControlInv, LocksOK, Locals, At
  <2> HIDE DEF r
  <2>2. QED
    BY <2>1, LocalCalm
<1>8. ASSUME NEW a \in Actors, Dead(a) PROVE Calm /\ SameDelivery
  BY <1>8, ControlCalm DEF Dead, At
<1>9. QED
  BY <1>1, <1>4, <1>5, <1>6, <1>7, <1>8

(* A calm step that leaves the runs alone moves none on.                    *)
LEMMA CalmKept ==
    ASSUME ExecutesRunning, Calm, UNCHANGED run
    PROVE  ExecutesRunning'
  BY DEF ExecutesRunning, Calm, At, JobOf

(* Which runs a step changes, and on whose behalf.                          *)
MovedOn ==
    \A j \in Jobs :
        run[j].status \in Checkpoints /\ run'[j] # run[j] => runLock[j] \in Humans

(* The holder of a run's lock executes it: nobody else's execution is       *)
(* disturbed, and only a human's command finds the run at a checkpoint.     *)
LEMMA RunnerMoves ==
    ASSUME IInv, ControlInv, ExecutesRunning, NEW a \in Actors,
           RunnerStep(a) \/ RunRaises(a) \/ (a \in Humans /\ Decide(a))
    PROVE  ExecutesRunning' /\ MovedOn /\ SameDelivery
<1>1. /\ actor[a] \in Locals /\ run \in [Jobs -> Run]
      /\ At(a, Executing) => runLock[JobOf(a)] = a /\ JobOf(a) \in Jobs
  BY InvariantTable DEF ControlInv, LocksOK, Holds, At, Executing
<1>2. {"publish", "return", "close", "failing", "running"} \subseteq Steps
  BY DEF Steps, Processing, Executing
<1>0. ~ At(a, {"idle"})
  BY DEF RunnerStep, BeginRun, EndRun, PublishResult, ReturnRun, RunRaises, Decide, Fault, At,
         Executing
<1>3. CASE PublishResult(a) \/ ReturnRun(a) \/ RunRaises(a)
  <2>1. UNCHANGED run
    BY <1>3 DEF PublishResult, ReturnRun, RunRaises, PublishRun, vars
  <2>2. Goto(a, "return") \/ Goto(a, "close") \/ Goto(a, "failing") \/ Rest(a)
    BY <1>3 DEF PublishResult, ReturnRun, RunRaises
  <2>3. Calm /\ SameDelivery
    BY <1>0, <1>2, <2>2, ControlCalm
  <2>4. QED
    BY <2>1, <2>3, CalmKept DEF MovedOn
<1> DEFINE k == JobOf(a)
<1>4. ASSUME At(a, Executing),
             NEW p \in {"running", "publish"}, Goto(a, p),
             NEW s, run' = [run EXCEPT ![k] = s],
             a \notin Humans /\ p = "running" => s.status = "RUNNING",
             a \notin Humans /\ s # run[k] => run[k].status \notin Checkpoints
      PROVE  ExecutesRunning' /\ MovedOn /\ SameDelivery
  <2>1. runLock[k] = a /\ k \in Jobs /\ \A j \in Jobs : run'[j] = IF j = k THEN s ELSE run[j]
    BY <1>1, <1>4
  <2>2. MovedOn
    BY <1>4, <2>1 DEF MovedOn
  <2>3. \A b \in Actors : /\ actor'[b].pc = IF b = a THEN p ELSE actor[b].pc
                          /\ actor'[b].job = actor[b].job
    BY <1>4 DEF Goto, ControlInv, LocksOK, Locals
  <2>4. ASSUME NEW b \in Actors \ Humans, At(b, {"running"})'
        PROVE  run'[JobOf(b)'].status = "RUNNING"
    <3>1. CASE b = a
      BY <1>4, <2>1, <2>3, <2>4, <3>1 DEF At, JobOf
    <3>2. CASE b # a
      <4>1. At(b, {"running"}) /\ JobOf(b)' = JobOf(b)
        BY <2>3, <2>4, <3>2 DEF At, JobOf
      <4>2. JobOf(b) \in Jobs /\ runLock[JobOf(b)] = b
        BY <4>1 DEF ControlInv, Holds, At, Executing
      <4>3. QED
        BY <2>1, <2>4, <3>2, <4>1, <4>2 DEF ExecutesRunning
    <3>3. QED
      BY <3>1, <3>2
  <2>5. SameDelivery
    BY <1>0, <1>2, <1>4, ControlCalm
  <2>6. QED
    BY <2>2, <2>4, <2>5 DEF ExecutesRunning
<1>5. CASE BeginRun(a)
  <2>1. At(a, Executing)
    BY <1>5 DEF BeginRun, At, Executing
  <2>2. run' = [run EXCEPT ![k] = Begun(run[k])] /\ run'[k] = Begun(run[k])
    BY <1>1, <1>5, <2>1 DEF BeginRun
  <2> DEFINE s == Begun(run[k])
             p == IF s.status = "RUNNING" THEN "running" ELSE "publish"
  <2>3. Goto(a, p)
    BY <1>5, <2>2 DEF BeginRun
  <2>4. s # run[k] => run[k].status \notin Checkpoints
    BY DEF Begun, NoRun, Checkpoints
  <2>5. p \in {"running", "publish"} /\ (p = "running" => s.status = "RUNNING")
    OBVIOUS
  <2> HIDE DEF s, p
  <2>6. QED
    BY <1>4, <2>1, <2>2, <2>3, <2>4, <2>5 DEF s
<1>6. CASE EndRun(a) \/ (a \in Humans /\ Decide(a))
  <2>1. At(a, Executing) /\ Workflow(k)
    BY <1>6 DEF EndRun, Decide, At, Executing
  <2>2. PICK s \in Run : run' = [run EXCEPT ![k] = s]
    BY <2>1 DEF Workflow
  <2>3. CASE EndRun(a)
    <3>1. a \notin Humans => run[k].status \notin Checkpoints
      BY <2>3 DEF EndRun, ExecutesRunning, Checkpoints
    <3>2. Goto(a, "publish")
      BY <2>3 DEF EndRun
    <3>3. QED
      BY <1>4, <2>1, <2>2, <3>1, <3>2
  <2>4. CASE a \in Humans /\ Decide(a)
    BY <1>4, <2>1, <2>2, <2>4 DEF Decide
  <2>5. QED
    BY <1>6, <2>3, <2>4
<1>7. QED
  BY <1>3, <1>5, <1>6 DEF RunnerStep

(* What a step of the composition does to the runs.                         *)
LEMMA DeliveryMoves ==
    ASSUME IInv, ControlInv, ExecutesRunning, [DeliveryNext]_allVars
    PROVE  ExecutesRunning' /\ MovedOn
<1>1. Calm /\ UNCHANGED run => ExecutesRunning' /\ MovedOn
  BY CalmKept DEF MovedOn
<1>2. CASE Environment \/ UNCHANGED allVars
  <2>1. UNCHANGED run /\ UNCHANGED actor
    BY <1>2 DEF Environment, Tick, Observe, Enqueue, Replay, control, allVars, vars
  <2>2. QED
    BY <1>1, <2>1 DEF Calm
<1>3. ASSUME NEW w \in Workers,
             WorkerStep(w) \/ DeliveryFails(w) \/ Beat(w) \/ BeatFails(w) \/ Interrupt(w)
      PROVE  ExecutesRunning' /\ MovedOn
  BY <1>1, <1>3, WorkerCalm
<1>4. CASE \/ \E a \in Workers \cup Commands : ProcessStep(a) \/ ProcessFails(a)
           \/ \E c \in Commands : StartCommand(c)
           \/ \E h \in Humans : StartHuman(h)
           \/ \E a \in Actors : Die(a) \/ Dead(a)
  BY <1>1, <1>4, ProcessCalm
<1>5. ASSUME NEW h \in Humans, Decide(h) PROVE ExecutesRunning' /\ MovedOn
  BY <1>5, RunnerMoves DEF Actors
<1>6. ASSUME NEW a \in Actors, RunnerStep(a) \/ RunRaises(a)
      PROVE  ExecutesRunning' /\ MovedOn
  BY <1>6, RunnerMoves
<1>7. QED
  BY <1>2, <1>3, <1>4, <1>5, <1>6 DEF DeliveryNext

(* A delivery that decided to execute a run before it reached its           *)
(* checkpoint does not move it from there: only humans do.                  *)
THEOREM CheckpointsKept == DeliverySpec => CheckpointKept
<1>1. DeliveryInit => ExecutesRunning
  BY DEF DeliveryInit, ExecutesRunning, At, Resting
<1>2. IInv /\ ControlInv /\ ExecutesRunning /\ [DeliveryNext]_allVars => ExecutesRunning'
  BY DeliveryMoves
<1>3. IInv /\ ControlInv /\ ExecutesRunning /\ [DeliveryNext]_allVars
      => [\A j \in Jobs :
             run[j].status \in Checkpoints /\ run'[j] # run[j] => runLock[j] \in Humans]_allVars
  BY DeliveryMoves DEF MovedOn
<1>4. QED
  BY <1>1, <1>2, <1>3, DeliveryInvariance, PTL DEF DeliverySpec, CheckpointKept

(* A worker's delivery has an attempt, and no two workers have the same.    *)
DeliveriesDiffer ==
    \A w \in Workers :
        actor[w].pc # "idle" =>
            /\ actor[w].token \in 1..Len(queue[JobOf(w)].history)
            /\ \A v \in Workers \ {w} :
                  actor[v].pc # "idle" /\ JobOf(v) = JobOf(w) => actor[v].token # actor[w].token

(* claim hands out the number of an attempt that did not exist.             *)
LEMMA ClaimToken ==
    ASSUME IInv, NEW j \in Jobs, NEW d \in Durations, NEW late \in BOOLEAN,
           Claim(j, d, late)
    PROVE  /\ queue'[j].token = Len(queue[j].history) + 1
           /\ queue'[j].token = Len(queue'[j].history)
<1> DEFINE f == Swept(late)
           q == Lease(f[j], d)
<1>1. Table(f) /\ Len(f[j].history) = Len(queue[j].history)
  BY SweptTable
<1>2. /\ f[j].status = "QUEUED" /\ f[j].budget < f[j].max
      /\ queue' = [f EXCEPT ![j] = q]
  BY DEF Claim, Eligible
<1>3. d \in Nat
  BY QueueConstants
<1> HIDE DEF f
<1>4. q.token = Len(q.history) /\ Len(q.history) = Len(f[j].history) + 1
  BY <1>1, <1>2, <1>3, LeaseRow DEF Table
<1> HIDE DEF q
<1>5. queue'[j] = q
  BY <1>1, <1>2 DEF Table
<1>6. QED
  BY <1>1, <1>4, <1>5

(* What a step of the composition does to the deliveries in hand.           *)
LEMMA DeliveryHands ==
    ASSUME IInv, ControlInv, ExecutesRunning, [DeliveryNext]_allVars
    PROVE  SameDelivery \/ \E w \in Workers : Poll(w)
<1>1. CASE Environment \/ UNCHANGED allVars
  BY <1>1 DEF SameDelivery, Environment, control, allVars
<1>2. ASSUME NEW w \in Workers,
             WorkerStep(w) \/ DeliveryFails(w) \/ Beat(w) \/ BeatFails(w) \/ Interrupt(w)
      PROVE  Poll(w) \/ SameDelivery
  BY <1>2, WorkerCalm
<1>3. CASE \/ \E a \in Workers \cup Commands : ProcessStep(a) \/ ProcessFails(a)
           \/ \E c \in Commands : StartCommand(c)
           \/ \E h \in Humans : StartHuman(h)
           \/ \E a \in Actors : Die(a) \/ Dead(a)
  BY <1>3, ProcessCalm
<1>4. ASSUME NEW h \in Humans, Decide(h) PROVE SameDelivery
  BY <1>4, RunnerMoves DEF Actors
<1>5. ASSUME NEW a \in Actors, RunnerStep(a) \/ RunRaises(a) PROVE SameDelivery
  BY <1>5, RunnerMoves
<1>6. QED
  BY <1>1, <1>2, <1>3, <1>4, <1>5 DEF DeliveryNext

(* Workers differ in their deliveries because attempts are only added and   *)
(* each claim adds its own.                                                 *)
LEMMA DifferKept ==
    ASSUME Records, ControlInv, ExecutesRunning, DeliveriesDiffer, [DeliveryNext]_allVars
    PROVE  DeliveriesDiffer'
<1>1. /\ IInv /\ Table(queue) /\ Workers \subseteq Actors
      /\ actor \in [Actors -> Locals]
      /\ \A w \in Workers : actor[w].pc # "idle" => JobOf(w) \in Jobs
  BY InvariantTable DEF Records, Actors, ControlInv, LocksOK, Holds, At
<1>2. IInv' /\ Table(queue')
  BY <1>1, DeliveryStep, NextKept, InvariantTableNext DEF Kept
<1>3. \A j \in Jobs : /\ Len(queue[j].history) <= Len(queue'[j].history)
                      /\ Len(queue[j].history) \in Nat /\ Len(queue'[j].history) \in Nat
  BY <1>1, <1>2, DeliveryStep, NextContinues, HistoryType
     DEF RowsContinue, Continues, SameHistory, Table
<1>4. \A j \in Jobs : \A t \in 1..Len(queue[j].history) : t \in 1..Len(queue'[j].history)
  BY <1>3
<1>5. CASE SameDelivery
  BY <1>1, <1>4, <1>5 DEF SameDelivery, DeliveriesDiffer, JobOf
<1>6. ASSUME NEW w \in Workers, Poll(w) PROVE DeliveriesDiffer'
  <2>1. CASE UNCHANGED actor
    BY <1>1, <1>4, <2>1 DEF DeliveriesDiffer, JobOf
  <2>2. ASSUME NEW j \in Jobs, NEW d \in Durations, NEW late \in BOOLEAN, Claim(j, d, late),
               actor' = [actor EXCEPT ![w] = [Resting EXCEPT !.pc = "enter", !.job = j,
                                                             !.token = queue'[j].token]]
        PROVE  DeliveriesDiffer'
    <3> DEFINE t == queue'[j].token
               r == [Resting EXCEPT !.pc = "enter", !.job = j, !.token = t]
    <3>1. t = Len(queue[j].history) + 1 /\ t = Len(queue'[j].history)
      BY <1>1, <2>2, ClaimToken
    <3>2. t \in 1..Len(queue'[j].history) /\ t \notin 1..Len(queue[j].history)
      BY <1>3, <3>1
    <3> HIDE DEF t
    <3>3. actor' = [actor EXCEPT ![w] = r] /\ r.job = j /\ r.token = t
      BY <2>2 DEF Resting, t
    <3> HIDE DEF r
    <3>4. \A v \in Workers : actor'[v] = IF v = w THEN r ELSE actor[v]
      BY <1>1, <3>3
    <3>5. ASSUME NEW v \in Workers, actor'[v].pc # "idle"
          PROVE  /\ actor'[v].token \in 1..Len(queue'[actor'[v].job].history)
                 /\ v # w /\ actor'[v].job = j => actor'[v].token # t
      BY <1>1, <1>4, <3>2, <3>3, <3>4, <3>5 DEF DeliveriesDiffer, JobOf
    <3>6. ASSUME NEW v \in Workers, NEW u \in Workers \ {v},
                 actor'[v].pc # "idle", actor'[u].pc # "idle", actor'[u].job = actor'[v].job
          PROVE  actor'[u].token # actor'[v].token
      BY <3>3, <3>4, <3>5, <3>6 DEF DeliveriesDiffer, JobOf
    <3>7. QED
      BY <3>5, <3>6 DEF DeliveriesDiffer, JobOf
  <2>3. QED
    BY <1>6, <2>1, <2>2 DEF Poll
<1>7. QED
  BY <1>1, <1>5, <1>6, DeliveryHands

(* Tokens leave the workers' hands by a settlement, or with their worker.   *)
LEMMA TokenGone ==
    ASSUME IInv, [DeliveryNext]_allVars, NEW j \in Jobs, NEW t \in live[j], t \notin live'[j]
    PROVE  \/ UNCHANGED queue
           \/ \E w \in Workers : /\ JobOf(w) = j /\ actor[w].token = t
                                 /\ SettleJob(w) \/ SettleInterrupted(w)
<1>1. live \in [Jobs -> SUBSET Nat]
  BY DEF IInv, TypeOK
<1>2. ~ UNCHANGED live
  OBVIOUS
<1>3. ASSUME NEW k, NEW s, live' = [live EXCEPT ![k] = @ \ {s}] PROVE k = j /\ s = t
  BY <1>1, <1>3
<1>4. ASSUME NEW k, NEW s, live' = [live EXCEPT ![k] = @ \cup {s}] PROVE FALSE
  BY <1>1, <1>4
<1>5. CASE Environment \/ UNCHANGED allVars
  BY <1>2, <1>5 DEF Environment, Tick, Observe, Enqueue, Replay, allVars, vars
<1>6. ASSUME NEW w \in Workers,
             WorkerStep(w) \/ DeliveryFails(w) \/ Beat(w) \/ BeatFails(w) \/ Interrupt(w)
      PROVE  \/ UNCHANGED queue
             \/ /\ JobOf(w) = j /\ actor[w].token = t
                /\ SettleJob(w) \/ SettleInterrupted(w)
  <2>1. CASE Poll(w)
    BY <1>2, <1>4, <2>1 DEF Poll, ClaimNone, Claim
  <2>2. CASE Quit(w)
    BY <2>2 DEF Quit, WorkerStops
  <2>3. CASE SettleJob(w) \/ SettleInterrupted(w)
    BY <1>3, <2>3 DEF SettleJob, SettleInterrupted, Finish
  <2>4. CASE Enter(w) \/ Beat(w)
    BY <1>2, <2>4 DEF Enter, Beat, Heartbeat
  <2>5. CASE \/ Begin(w) \/ Join(w) \/ Refuse(w) \/ Refresh(w) \/ Unwind(w)
             \/ DeliveryFails(w) \/ BeatFails(w) \/ Interrupt(w)
    BY <1>2, <2>5 DEF Begin, Join, Refuse, Refresh, PublishRun, Unwind, Unlock, EventDropped,
                      DeliveryFails, BeatFails, Interrupt, vars
  <2>6. QED
    BY <1>6, <2>1, <2>2, <2>3, <2>4, <2>5 DEF WorkerStep
<1>7. CASE \/ \E a \in Workers \cup Commands : ProcessStep(a) \/ ProcessFails(a)
           \/ \E c \in Commands : StartCommand(c)
           \/ \E h \in Humans : StartHuman(h) \/ Decide(h)
  BY <1>2, <1>7 DEF ProcessStep, LockEvent, Read, ClaimEvent, LockRun, RunBusy, SaveFailure,
         Close, ProcessFails, StartCommand, StartHuman, Decide, Workflow, PublishAll,
         EventClaim, EventFail, EventEnd, EventDropped, vars
<1>8. CASE \E a \in Actors : RunnerStep(a) \/ RunRaises(a) \/ Die(a) \/ Dead(a)
  BY <1>2, <1>8 DEF RunnerStep, BeginRun, EndRun, PublishResult, PublishRun, ReturnRun,
         RunRaises, Workflow, Die, WorkerStops, Dead, Unlock, EventDropped, vars
<1>9. QED
  BY <1>5, <1>6, <1>7, <1>8 DEF DeliveryNext

(* A lost delivery's token goes unused: the one settlement that presents it *)
(* is that of its own worker, who looks first, or was interrupted.          *)
LEMMA LostUnsettled ==
    ASSUME IInv, ControlInv, DeliveriesDiffer, [DeliveryNext]_allVars, NEW w \in Workers,
           actor[w].lost, ~ At(w, {"interrupted"}),
           actor[w].token \in live[JobOf(w)] \ live'[JobOf(w)],
           Owned(queue[JobOf(w)], actor[w].token)
    PROVE  Owned(queue'[JobOf(w)], actor[w].token)
<1>1. actor[w].pc # "idle" /\ JobOf(w) \in Jobs
  BY DEF ControlInv, Holds, At, Resting, Actors
<1>2. CASE UNCHANGED queue
  BY <1>2
<1>3. ASSUME NEW v \in Workers, JobOf(v) = JobOf(w), actor[v].token = actor[w].token,
             SettleJob(v) \/ SettleInterrupted(v)
      PROVE  FALSE
  <2>1. actor[v].pc # "idle"
    BY <1>3 DEF SettleJob, SettleInterrupted, At
  <2>2. v = w
    BY <1>1, <1>3, <2>1 DEF DeliveriesDiffer
  <2>3. QED
    BY <1>3, <2>2 DEF SettleJob, SettleInterrupted
<1>4. QED
  BY <1>1, <1>2, <1>3, TokenGone

(* A worker whose renewal failed settles nothing, unless it is interrupted. *)
THEOREM LostStaysUnsettled == DeliverySpec => LostNeverSettles
<1>1. DeliveryInit => ExecutesRunning /\ DeliveriesDiffer
  BY DEF DeliveryInit, ExecutesRunning, DeliveriesDiffer, At, Resting, Actors
<1>2. IInv /\ ControlInv /\ ExecutesRunning /\ [DeliveryNext]_allVars => ExecutesRunning'
  BY DeliveryMoves
<1>3. /\ Records /\ ControlInv /\ ExecutesRunning /\ DeliveriesDiffer /\ [DeliveryNext]_allVars
      => DeliveriesDiffer'
  BY DifferKept
<1>4. IInv /\ ControlInv /\ DeliveriesDiffer /\ [DeliveryNext]_allVars
      => [\A w \in Workers :
             LET j == JobOf(w)
             IN  /\ actor[w].lost /\ ~ At(w, {"interrupted"})
                 /\ actor[w].token \in live[j] \ live'[j] /\ Owned(queue[j], actor[w].token)
                 => Owned(queue'[j], actor[w].token)]_allVars
  BY LostUnsettled
<1>5. DeliverySpec => []Records
  BY DeliveryImplementsQueue, RecordsInvariance, PTL DEF ImplementsQueue
<1>6. QED
  BY <1>1, <1>2, <1>3, <1>4, <1>5, DeliveryInvariance, PTL DEF DeliverySpec, LostNeverSettles
=============================================================================
