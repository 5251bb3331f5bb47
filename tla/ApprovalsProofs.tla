-------------------------- MODULE ApprovalsProofs --------------------------
(***************************************************************************)
(* The human decision boundary, for any number of processes, comments and  *)
(* revisions and any crashes: what the table of approvals, the run's row   *)
(* and the task rows say of each other after every committed transaction,  *)
(* and that the run moves only by the steps the other modules rely on.     *)
(***************************************************************************)
EXTENDS Approvals, SequenceTheorems, FiniteSetTheorems, TLAPS

Row == [status : {"pending", "approved", "rejected"},
        comment : Comments \cup {None}, briefing : Seq(Comments)]

TaskRow == [status : {None, "pending", "running", "failed", "succeeded"},
            output : Seq(Comments)]

(* TypeOK with no bound on the length of a briefing                         *)
Typed ==
    /\ status \in RunStatus
    /\ limit \in BOOLEAN /\ briefed \in BOOLEAN
    /\ approvals \in Seq(Row)
    /\ gate \in {None, "pending", "waiting", "succeeded", "failed"}
    /\ revisions \in [Iterations -> TaskRow]
    /\ lock \in Processes \cup {None}
    /\ pc \in [Processes -> Steps]
    /\ seen \in [Processes -> Nat]
    /\ verdict \in [Processes -> Verdicts]
    /\ crashes \in 0..MaxCrashes

N == Len(approvals)

(* the table of approvals: every version but the last was rejected with a   *)
(* comment that the next one contains                                       *)
Evidence ==
    /\ N <= MaxRevisions
    /\ \A i \in 1..N :
          /\ i < N => approvals[i].status = "rejected"
          /\ approvals[i].status = "rejected" => approvals[i].comment \in Comments
          /\ Len(approvals[i].briefing) = i - 1
          /\ i > 1 => approvals[i].briefing
                         = Append(approvals[i-1].briefing, approvals[i-1].comment)

(* what saved revisions contain                                             *)
Outputs ==
    \A i \in Iterations :
        /\ Len(revisions[i].output) <= MaxRevisions
        /\ Saved(i) => /\ i <= N /\ approvals[i].status = "rejected"
                       /\ revisions[i].output
                             = Append(approvals[i].briefing, approvals[i].comment)

(* what the run's row says of the latest version                            *)
RunRow ==
    /\ status = "WAITING_FOR_APPROVAL" <=> N > 0 /\ approvals[N].status = "pending"
    /\ status = "SUCCEEDED" => N > 0 /\ approvals[N].status = "approved"
    /\ status = "NONE" => N = 0
    /\ limit => /\ status = "FAILED" /\ N = MaxRevisions
                /\ approvals[N].status = "rejected"

Revisable == status = "RUNNING" /\ 0 < N /\ N < MaxRevisions /\ approvals[N].status = "rejected"

(* what the holder of the lock has made sure of                             *)
Stages ==
    \A p \in Processes :
        /\ pc[p] = "tasks" => status = "RUNNING"
        /\ pc[p] \in {"revising", "request"} => Revisable
        /\ pc[p] = "request" => Saved(N)
        /\ pc[p] = "revising" => ~ Saved(N)

IInv == Typed /\ LockHolder /\ Evidence /\ Outputs /\ RunRow /\ GateAgrees /\ Stages

----------------------------------------------------------------------------
(* The table of approvals is numbered from 1.                               *)
LEMMA TableFacts ==
    ASSUME Typed
    PROVE  /\ N \in Nat /\ MaxRevisions \in Nat \ {0} /\ DOMAIN approvals = 1..N
           /\ approvals # << >> <=> N > 0
           /\ \A i \in 1..N : approvals[i] \in Row
           /\ N > 0 => N \in 1..N /\ Latest = approvals[N]
<1>1. approvals \in Seq(Row)
  BY DEF Typed
<1>2. N \in Nat /\ DOMAIN approvals = 1..N /\ \A i \in 1..N : approvals[i] \in Row
  BY <1>1, LenProperties, ElementOfSeq DEF N
<1>3. approvals # << >> <=> N > 0
  BY <1>1, EmptySeq DEF N
<1>4. QED
  BY <1>2, <1>3, ApprovalConstants DEF Latest, N

(* Once the latest version is rejected, as many are rejected as there are.  *)
LEMMA AllRejected ==
    ASSUME Typed, Evidence, N > 0, approvals[N].status = "rejected"
    PROVE  Rejected = N
<1>1. {i \in DOMAIN approvals : approvals[i].status = "rejected"} = 1..N
  BY TableFacts DEF Evidence
<1>2. Cardinality(1..N) = N
  BY TableFacts, FS_Interval
<1>3. QED
  BY <1>1, <1>2 DEF Rejected

(* Only the latest version can be pending.                                  *)
LEMMA OnePending ==
    ASSUME Typed, Evidence
    PROVE  Pending = IF N > 0 /\ approvals[N].status = "pending" THEN {N} ELSE {}
<1>1. \A i \in 1..N : approvals[i].status = "pending" => i = N
  BY TableFacts DEF Evidence
<1>2. Pending = {i \in 1..N : approvals[i].status = "pending"}
  BY TableFacts DEF Pending
<1>3. QED
  BY <1>1, <1>2, TableFacts

(* The lock excludes the other processes from the run.                      *)
LEMMA Alone ==
    ASSUME LockHolder, NEW p \in Processes, pc[p] \in Locked
    PROVE  \A q \in Processes \ {p} : pc[q] \notin Locked
  BY DEF LockHolder

(* A command that starts, is refused the lock, ends or dies changes no row. *)
LEMMA RowsKept ==
    ASSUME IInv, UNCHANGED database
    PROVE  Evidence' /\ Outputs' /\ RunRow' /\ GateAgrees' /\ (Revisable' <=> Revisable)
           /\ N' = N /\ \A i : Saved(i)' <=> Saved(i)
  BY DEF IInv, database, Evidence, Outputs, RunRow, GateAgrees, Revisable, N, Saved

(* ... and leaves the stages of the others.                                 *)
LEMMA StagesKept ==
    ASSUME IInv, UNCHANGED database, NEW p \in Processes,
           pc' \in [Processes -> Steps],
           \A q \in Processes \ {p} : pc'[q] = pc[q],
           pc'[p] = pc[p] \/ pc'[p] \notin {"tasks", "revising", "request"}
    PROVE  Stages'
<1>1. ASSUME NEW q \in Processes
      PROVE  /\ pc'[q] = "tasks" => status' = "RUNNING"
             /\ pc'[q] \in {"revising", "request"} => Revisable'
             /\ pc'[q] = "request" => Saved(N)'
             /\ pc'[q] = "revising" => ~ Saved(N)'
  <2>1. CASE pc'[q] = pc[q]
    BY <2>1, RowsKept DEF IInv, Stages, database, Saved
  <2>2. CASE pc'[q] # pc[q]
    BY <2>2
  <2>3. QED
    BY <2>1, <2>2
<1>2. QED
  BY <1>1 DEF Stages, Revisable, Saved, N

----------------------------------------------------------------------------
(* Before the first command there is no run.                                *)
LEMMA InitInv == Init => IInv
<1> SUFFICES ASSUME Init PROVE IInv
  OBVIOUS
<1>1. approvals \in Seq(Row) /\ N = 0 /\ << >> \in Seq(Comments) /\ Len(<< >>) = 0
  BY EmptySeq DEF Init, N
<1>2. NoRevision \in TaskRow /\ NoRevision.output = << >> /\ NoRevision.status = None
  BY <1>1 DEF NoRevision, TaskRow
<1> HIDE DEF NoRevision
<1>3. Typed
  <2>1. revisions \in [Iterations -> TaskRow]
    BY <1>2 DEF Init
  <2>2. "idle" \in Steps /\ Approve \in Verdicts /\ 0 \in 0..MaxCrashes
    BY ApprovalConstants DEF Steps, Verdicts
  <2> HIDE DEF Approve
  <2>3. QED
    BY <1>1, <2>1, <2>2 DEF Init, Typed, RunStatus
<1>4. Evidence /\ Outputs
  BY <1>1, <1>2, ApprovalConstants DEF Init, Evidence, Outputs, Saved, None
<1>5. RunRow /\ GateAgrees /\ Stages /\ LockHolder
  BY <1>1, ApprovalConstants DEF Init, RunRow, GateAgrees, Stages, LockHolder, None, Locked
<1>6. QED
  BY <1>3, <1>4, <1>5 DEF IInv

----------------------------------------------------------------------------
(* Commands that change no row *)

(* A step that only moves p and the lock.                                   *)
LEMMA ControlInv ==
    ASSUME IInv, UNCHANGED database, NEW p \in Processes,
           NEW s \in Steps \ {"tasks", "revising", "request"}, Goto(p, s), LockHolder',
           lock' \in Processes \cup {None}, seen' \in [Processes -> Nat],
           verdict' \in [Processes -> Verdicts], crashes' \in 0..MaxCrashes
    PROVE  IInv'
<1>1. /\ pc' \in [Processes -> Steps] /\ pc'[p] = s
      /\ \A q \in Processes \ {p} : pc'[q] = pc[q]
  BY DEF IInv, Typed, Goto
<1>2. Typed'
  BY <1>1 DEF IInv, Typed, database
<1>3. Stages'
  BY <1>1, StagesKept
<1>4. QED
  BY <1>2, <1>3, RowsKept DEF IInv

(* The lock goes to whoever finds it free.                                  *)
LEMMA AcquireInv ==
    ASSUME IInv, NEW p \in Processes,
           \/ Acquire(p, "decide_lock", "decide")
           \/ Acquire(p, "resume_lock", "resume")
           \/ Acquire(p, "workflow_lock", "workflow")
    PROVE  IInv'
<1>1. PICK from \in {"decide_lock", "resume_lock", "workflow_lock"},
           to \in {"decide", "resume", "workflow"} : Acquire(p, from, to)
  OBVIOUS
<1>2. pc \in [Processes -> Steps] /\ lock \in Processes \cup {None}
  BY DEF IInv, Typed
<1>3. CASE lock = None
  <2>1. Goto(p, to) /\ lock' = p /\ to \in Locked /\ pc' = [pc EXCEPT ![p] = to]
    BY <1>1, <1>3 DEF Acquire, Locked, Goto
  <2>2. \A q \in Processes : pc[q] \notin Locked
    BY <1>3, ApprovalConstants DEF IInv, LockHolder
  <2>3. LockHolder'
    BY <1>2, <2>1, <2>2 DEF LockHolder
  <2>4. to \in Steps \ {"tasks", "revising", "request"}
    BY DEF Steps, Locked
  <2>5. QED
    BY <1>1, <2>1, <2>3, <2>4, ControlInv DEF Acquire, IInv, Typed
<1>4. CASE lock # None
  <2>1. Goto(p, "idle") /\ lock' = lock /\ pc' = [pc EXCEPT ![p] = "idle"] /\ pc[p] \notin Locked
    BY <1>1, <1>4 DEF Acquire, Goto, At, Locked
  <2>2. LockHolder'
    BY <1>2, <2>1 DEF IInv, LockHolder, Locked
  <2>3. "idle" \in Steps \ {"tasks", "revising", "request"}
    BY DEF Steps
  <2>4. QED
    BY <1>1, <1>2, <2>1, <2>2, <2>3, ControlInv DEF Acquire, IInv, Typed
<1>5. QED
  BY <1>3, <1>4

(* The end of a command gives the lock back.                                *)
LEMMA LeaveInv ==
    ASSUME IInv, UNCHANGED <<database, seen, verdict, crashes>>, NEW p \in Processes,
           pc[p] \in Locked, Leave(p)
    PROVE  IInv'
<1>1. pc \in [Processes -> Steps] /\ pc' = [pc EXCEPT ![p] = "idle"] /\ lock' = None
  BY DEF IInv, Typed, Leave, Goto
<1>2. \A q \in Processes \ {p} : pc[q] \notin Locked
  BY Alone DEF IInv
<1>3. LockHolder'
  BY <1>1, <1>2, ApprovalConstants DEF LockHolder, Locked
<1>4. "idle" \in Steps \ {"tasks", "revising", "request"}
  BY DEF Steps
<1>5. QED
  BY <1>1, <1>3, <1>4, ControlInv DEF Leave, IInv, Typed

(* A process that dies gives the lock back as well.                         *)
LEMMA CrashInv == ASSUME IInv, NEW p \in Processes, Crash(p) PROVE IInv'
<1>1. /\ pc \in [Processes -> Steps] /\ pc' = [pc EXCEPT ![p] = "idle"]
      /\ lock \in Processes \cup {None} /\ lock' = IF lock = p THEN None ELSE lock
  BY DEF IInv, Typed, Crash, Goto
<1>2. LockHolder'
  BY <1>1, ApprovalConstants DEF IInv, LockHolder, Locked
<1>3. "idle" \in Steps \ {"tasks", "revising", "request"} /\ crashes' \in 0..MaxCrashes
  BY ApprovalConstants DEF Steps, Crash, IInv, Typed
<1>4. QED
  BY <1>1, <1>2, <1>3, ControlInv DEF Crash, IInv, Typed

(* Starting a command takes no lock yet.                                    *)
LEMMA StartInv == ASSUME IInv, NEW p \in Processes, Start(p) PROVE IInv'
<1>1. /\ pc \in [Processes -> Steps] /\ pc[p] = "idle"
      /\ UNCHANGED <<database, lock, crashes>>
  BY DEF IInv, Typed, Start, DecideStart, ResumeStart, WorkflowStart, At
<1>2. PICK s \in {"decide_lock", "resume_lock", "workflow_lock"} : Goto(p, s)
  BY DEF Start, DecideStart, ResumeStart, WorkflowStart
<1>3. LockHolder'
  BY <1>1, <1>2 DEF IInv, LockHolder, Goto, Locked
<1>4. s \in Steps \ {"tasks", "revising", "request"}
  BY DEF Steps, Locked
<1>5. verdict' \in [Processes -> Verdicts]
  BY DEF IInv, Typed, Start, DecideStart, ResumeStart, WorkflowStart
<1>6. seen' \in [Processes -> Nat]
  <2>1. CASE seen' = seen
    BY <2>1 DEF IInv, Typed
  <2>2. ASSUME NEW v \in Verdicts, NEW named \in 0..Len(approvals), DecideStart(p, v, named)
        PROVE  seen' \in [Processes -> Nat]
    <3> DEFINE i == IF named # 0 THEN named ELSE IF Pending = {} THEN 0
                    ELSE CHOOSE k \in Pending : TRUE
    <3>1. Pending \subseteq Nat
      BY TableFacts DEF IInv, Pending
    <3>2. Pending # {} => (CHOOSE k \in Pending : TRUE) \in Pending
      OBVIOUS
    <3>3. named \in Nat
      BY TableFacts DEF IInv, N
    <3>4. i \in Nat
      BY <3>1, <3>2, <3>3
    <3>5. seen' = [seen EXCEPT ![p] = i]
      BY <2>2 DEF DecideStart
    <3> HIDE DEF i
    <3>6. QED
      BY <3>4, <3>5 DEF IInv, Typed
  <2>3. QED
    BY <2>1, <2>2 DEF Start, ResumeStart, WorkflowStart
<1>7. QED
  BY <1>1, <1>2, <1>3, <1>4, <1>5, <1>6, ControlInv DEF IInv, Typed

(* Refusals, and the end of a command after its reports.                    *)
LEMMA EndInv ==
    ASSUME IInv, NEW p \in Processes, DecideRefused(p) \/ WorkflowRefused(p) \/ Publish(p)
    PROVE  IInv'
<1>1. /\ pc[p] \in Locked /\ Leave(p)
      /\ UNCHANGED <<database, seen, verdict, crashes>>
  BY DEF DecideRefused, WorkflowRefused, Publish, At, Locked
<1>2. QED
  BY <1>1, LeaveInv

(* The holder of the lock goes on to a stage that rests on nothing.         *)
LEMMA HolderLock ==
    ASSUME IInv, NEW p \in Processes, pc[p] \in Locked, NEW s \in Locked, Goto(p, s),
           UNCHANGED lock
    PROVE  /\ LockHolder' /\ pc' \in [Processes -> Steps]
           /\ pc'[p] = s /\ \A q \in Processes \ {p} : pc'[q] = pc[q] /\ pc'[q] \notin Locked
<1>1. /\ pc \in [Processes -> Steps] /\ pc' = [pc EXCEPT ![p] = s] /\ s \in Steps
      /\ \A q \in Processes \ {p} : pc[q] \notin Locked
  BY Alone DEF IInv, Typed, Goto, Steps
<1>2. QED
  BY <1>1 DEF IInv, LockHolder

(* Nothing to advance.                                                      *)
LEMMA AdvanceNothingInv ==
    ASSUME IInv, NEW p \in Processes, AdvanceNothing(p) PROVE IInv'
<1>1. pc[p] \in Locked /\ "publish" \in Locked /\ Goto(p, "publish")
      /\ UNCHANGED <<database, lock, seen, verdict, crashes>>
  BY DEF AdvanceNothing, At, Locked
<1>2. LockHolder' /\ "publish" \in Steps \ {"tasks", "revising", "request"}
  BY <1>1, HolderLock DEF Steps
<1>3. QED
  BY <1>1, <1>2, ControlInv DEF IInv, Typed

----------------------------------------------------------------------------
(* Commands that change rows *)

(* The holder of the lock p goes to a stage, everyone else is outside.      *)
LEMMA HolderStages ==
    ASSUME NEW p \in Processes, NEW s, pc'[p] = s,
           \A q \in Processes \ {p} : pc'[q] \notin Locked,
           s = "tasks" => status' = "RUNNING",
           s \in {"revising", "request"} => Revisable',
           s = "request" => Saved(N)',
           s = "revising" => ~ Saved(N)'
    PROVE  Stages'
  BY DEF Stages, Locked, Revisable, Saved, N

(* What the tables of approvals and revisions say stands while neither is   *)
(* written.                                                                 *)
LEMMA TablesKept ==
    ASSUME IInv, UNCHANGED <<approvals, revisions>>
    PROVE  Evidence' /\ Outputs' /\ N' = N /\ \A i : Saved(i)' <=> Saved(i)
  BY DEF IInv, Evidence, Outputs, N, Saved

(* A decision resolves the one version that is pending.                     *)
LEMMA DecideFacts ==
    ASSUME IInv, NEW p \in Processes, Decide(p)
    PROVE  /\ N \in Nat /\ N > 0 /\ approvals[N].status = "pending" /\ seen[p] = N
           /\ approvals' \in Seq(Row) /\ N' = N
           /\ \A i \in 1..N : /\ i # N => approvals'[i] = approvals[i]
                              /\ approvals'[i].briefing = approvals[i].briefing
           /\ approvals'[N].status = verdict[p].decision
           /\ approvals'[N].status \in {"approved", "rejected"}
           /\ approvals'[N].status = "rejected" => approvals'[N].comment \in Comments
           /\ ~ limit
<1>1. PICK i \in Targets(p) : approvals' = [approvals EXCEPT ![i] = Decided(@, verdict[p])]
  BY DEF Decide
<1>2. i = N /\ seen[p] = N /\ N \in Nat /\ N > 0 /\ approvals[N].status = "pending" /\ N \in 1..N
  BY OnePending, TableFacts DEF IInv, Targets
<1> DEFINE a == Decided(approvals[N], verdict[p])
<1>3. approvals[N] \in Row /\ approvals \in Seq(Row) /\ verdict[p] \in Verdicts
  BY <1>2, TableFacts DEF IInv, Typed
<1>4. /\ a \in Row /\ a.briefing = approvals[N].briefing /\ a.status = verdict[p].decision
      /\ a.status \in {"approved", "rejected"}
      /\ a.status = "rejected" => a.comment \in Comments
  <2> DEFINE d == verdict[p].decision
             c == verdict[p].comment
  <2>1. /\ d \in {"approved", "rejected"} /\ c \in Comments \cup {None}
        /\ d = "rejected" => c \in Comments
    BY <1>3 DEF Verdicts, Approve
  <2>2. a = [approvals[N] EXCEPT !.status = d, !.comment = c]
    BY DEF Decided
  <2> HIDE DEF a, d, c
  <2>3. a \in Row /\ a.briefing = approvals[N].briefing /\ a.status = d /\ a.comment = c
    BY <1>3, <2>1, <2>2 DEF Row
  <2>4. QED
    BY <2>1, <2>3 DEF d
<1>5. approvals' = [approvals EXCEPT ![N] = a]
  BY <1>1, <1>2
<1> HIDE DEF a
<1>6. /\ approvals' \in Seq(Row) /\ N' = N
      /\ \A k \in 1..N : approvals'[k] = IF k = N THEN a ELSE approvals[k]
  BY <1>2, <1>3, <1>4, <1>5, ExceptSeq DEF N
<1>7. ~ limit
  BY DEF IInv, RunRow, Decide
<1>8. QED
  BY <1>2, <1>4, <1>6, <1>7

LEMMA DecideInv == ASSUME IInv, NEW p \in Processes, Decide(p) PROVE IInv'
<1>1. /\ pc[p] \in Locked /\ "advance" \in Locked /\ Goto(p, "advance")
      /\ UNCHANGED <<limit, briefed, gate, revisions, lock, seen, verdict, crashes>>
      /\ status = "WAITING_FOR_APPROVAL" /\ status' = "RUNNING"
  BY DEF Decide, At, Locked
<1>2. /\ LockHolder' /\ pc' \in [Processes -> Steps] /\ pc'[p] = "advance"
      /\ \A q \in Processes \ {p} : pc'[q] \notin Locked
  BY <1>1, HolderLock
<1>3. Typed'
  BY <1>1, <1>2, DecideFacts DEF IInv, Typed, RunStatus
<1>4. Evidence'
  <2>1. ASSUME NEW i \in 1..N, i > 1
        PROVE  approvals'[i].briefing = Append(approvals'[i-1].briefing, approvals'[i-1].comment)
    <3>1. i - 1 \in 1..N /\ i - 1 # N
      BY <2>1, DecideFacts
    <3>2. QED
      BY <2>1, <3>1, DecideFacts DEF IInv, Evidence
  <2>2. ASSUME NEW i \in 1..N
        PROVE  /\ i < N => approvals'[i].status = "rejected"
               /\ approvals'[i].status = "rejected" => approvals'[i].comment \in Comments
               /\ Len(approvals'[i].briefing) = i - 1
    BY DecideFacts DEF IInv, Evidence
  <2>3. N' = N /\ N <= MaxRevisions
    BY DecideFacts DEF IInv, Evidence
  <2>4. QED
    BY <2>1, <2>2, <2>3 DEF Evidence
<1>5. Outputs'
  <2>1. \A i \in Iterations : Saved(i)' <=> Saved(i)
    BY <1>1 DEF Saved
  <2>2. ASSUME NEW i \in Iterations, Saved(i) PROVE i \in 1..N /\ i # N
    BY <2>2, DecideFacts DEF IInv, Outputs, Iterations
  <2>3. QED
    BY <1>1, <2>1, <2>2, DecideFacts DEF IInv, Outputs, Iterations
<1>6. RunRow'
  BY <1>1, DecideFacts DEF RunRow
<1>7. GateAgrees'
  BY <1>1, DecideFacts DEF IInv, GateAgrees
<1>8. Stages'
  BY <1>2, HolderStages
<1>9. QED
  BY <1>2, <1>3, <1>4, <1>5, <1>6, <1>7, <1>8 DEF IInv

(* resume_run marks a failed run as running again.                          *)
LEMMA ResumeInv == ASSUME IInv, NEW p \in Processes, Resume(p) PROVE IInv'
<1>1. /\ pc[p] \in Locked /\ "advance" \in Locked /\ Goto(p, "advance")
      /\ UNCHANGED <<limit, briefed, approvals, gate, revisions, lock, seen, verdict, crashes>>
      /\ status' = IF status = "FAILED" /\ ~ limit THEN "RUNNING" ELSE status
  BY DEF Resume, At, Locked
<1>2. /\ LockHolder' /\ pc' \in [Processes -> Steps] /\ pc'[p] = "advance"
      /\ \A q \in Processes \ {p} : pc'[q] \notin Locked
  BY <1>1, HolderLock
<1>3. Typed'
  BY <1>1, <1>2 DEF IInv, Typed, RunStatus
<1>4. Evidence' /\ Outputs' /\ N' = N
  BY <1>1, TablesKept
<1>5. RunRow' /\ GateAgrees'
  BY <1>1, <1>4 DEF IInv, RunRow, GateAgrees
<1>6. Stages'
  BY <1>2, HolderStages
<1>7. QED
  BY <1>2, <1>3, <1>4, <1>5, <1>6 DEF IInv

(* run_workflow resets the rows to be done again, and keeps saved results.  *)
LEMMA WorkflowInv == ASSUME IInv, NEW p \in Processes, Workflow(p) PROVE IInv'
<1>1. pc[p] \in Locked /\ "publish" \in Locked /\ "tasks" \in Locked
      /\ UNCHANGED <<lock, seen, verdict, crashes>>
  BY DEF Workflow, At, Locked
<1>2. CASE Finished
  <2>1. Goto(p, "publish") /\ UNCHANGED database
    BY <1>2 DEF Workflow
  <2>2. LockHolder' /\ "publish" \in Steps \ {"tasks", "revising", "request"}
    BY <1>1, <2>1, HolderLock DEF Steps
  <2>3. QED
    BY <1>1, <2>1, <2>2, ControlInv DEF IInv, Typed
<1>3. CASE ~ Finished
  <2>1. /\ Goto(p, "tasks") /\ status' = "RUNNING" /\ gate' = ResetTask(gate)
        /\ revisions' = [i \in Iterations |->
                            [revisions[i] EXCEPT !.status = ResetTask(revisions[i].status)]]
        /\ UNCHANGED <<limit, briefed, approvals>>
    BY <1>3 DEF Workflow
  <2>2. /\ LockHolder' /\ pc' \in [Processes -> Steps] /\ pc'[p] = "tasks"
        /\ \A q \in Processes \ {p} : pc'[q] \notin Locked
    BY <1>1, <2>1, HolderLock
  <2>3. ASSUME NEW i \in Iterations
        PROVE  /\ revisions'[i] \in TaskRow /\ revisions'[i].output = revisions[i].output
               /\ Saved(i)' <=> Saved(i)
    <3>1. revisions[i] \in TaskRow
      BY DEF IInv, Typed
    <3> DEFINE s == ResetTask(revisions[i].status)
    <3>2. revisions'[i] = [revisions[i] EXCEPT !.status = s]
      BY <2>1
    <3>3. /\ s \in {None, "pending", "running", "failed", "succeeded"}
          /\ s = "succeeded" <=> revisions[i].status = "succeeded"
      BY <3>1 DEF ResetTask, TaskRow, None
    <3> HIDE DEF s
    <3>4. QED
      BY <3>1, <3>2, <3>3 DEF TaskRow, Saved
  <2>4. revisions' \in [Iterations -> TaskRow]
    BY <2>1, <2>3
  <2>5. gate' \in {None, "pending", "waiting", "succeeded", "failed"}
    BY <2>1 DEF IInv, Typed, ResetTask
  <2>6. Typed'
    BY <1>1, <2>1, <2>2, <2>4, <2>5 DEF IInv, Typed, RunStatus
  <2>7. Evidence' /\ N' = N
    BY <2>1 DEF IInv, Evidence, N
  <2>8. Outputs'
    BY <2>1, <2>3, <2>7 DEF IInv, Outputs
  <2>9. status \notin {"WAITING_FOR_APPROVAL", "SUCCEEDED"} /\ ~ limit
    BY <1>3 DEF Finished, Checkpoints, IInv, RunRow
  <2>10. RunRow'
    BY <2>1, <2>7, <2>9 DEF IInv, RunRow
  <2>11. GateAgrees'
    BY <2>1, <2>9 DEF IInv, GateAgrees, ResetTask, None
  <2>12. Stages'
    BY <2>1, <2>2, HolderStages
  <2>13. QED
    BY <2>2, <2>6, <2>7, <2>8, <2>10, <2>11, <2>12 DEF IInv
<1>4. QED
  BY <1>2, <1>3

(* The DAG ends with a saved briefing, or fails.                            *)
LEMMA TasksInv ==
    ASSUME IInv, NEW p \in Processes, Tasks(p) \/ TasksFail(p) PROVE IInv'
<1>1. /\ pc[p] \in Locked /\ "advance" \in Locked /\ Goto(p, "advance")
      /\ UNCHANGED <<limit, approvals, gate, revisions, lock, seen, verdict, crashes>>
      /\ status' \in {status, "FAILED"} /\ briefed' \in {briefed, TRUE}
      /\ pc[p] = "tasks"
  BY DEF Tasks, TasksFail, At, Locked
<1>2. /\ LockHolder' /\ pc' \in [Processes -> Steps] /\ pc'[p] = "advance"
      /\ \A q \in Processes \ {p} : pc'[q] \notin Locked
  BY <1>1, HolderLock
<1>3. status = "RUNNING" /\ ~ limit
  BY <1>1 DEF IInv, Stages, RunRow
<1>4. Typed'
  BY <1>1, <1>2 DEF IInv, Typed, RunStatus
<1>5. Evidence' /\ Outputs' /\ N' = N
  BY <1>1, TablesKept
<1>6. RunRow' /\ GateAgrees'
  BY <1>1, <1>3, <1>5 DEF IInv, RunRow, GateAgrees
<1>7. Stages'
  BY <1>2, HolderStages
<1>8. QED
  BY <1>2, <1>4, <1>5, <1>6, <1>7 DEF IInv

(* A request appends a version that extends the evidence so far.            *)
LEMMA RequestFacts ==
    ASSUME IInv, NEW b \in Seq(Comments), Request(b), N < MaxRevisions, Len(b) = N,
           N > 0 => /\ approvals[N].status = "rejected"
                    /\ b = Append(approvals[N].briefing, approvals[N].comment)
    PROVE  /\ approvals' \in Seq(Row) /\ N' = N + 1 /\ N \in Nat
           /\ \A i \in 1..N : approvals'[i] = approvals[i]
           /\ approvals'[N + 1].status = "pending"
           /\ Evidence'
<1> DEFINE a == [status |-> "pending", comment |-> None, briefing |-> b]
<1>1. a \in Row /\ approvals \in Seq(Row) /\ a.status = "pending" /\ a.briefing = b
  BY DEF Row, IInv, Typed
<1>2. approvals' = Append(approvals, a)
  BY DEF Request
<1> HIDE DEF a
<1>3. /\ approvals' \in Seq(Row) /\ N' = N + 1 /\ N \in Nat
      /\ \A i \in 1..N : approvals'[i] = approvals[i]
      /\ approvals'[N + 1] = a
  BY <1>1, <1>2, AppendProperties, LenProperties DEF N
<1>4. N + 1 <= MaxRevisions
  BY <1>3, TableFacts DEF IInv
<1>5. ASSUME NEW i \in 1..(N + 1)
      PROVE  /\ i < N + 1 => approvals'[i].status = "rejected"
             /\ approvals'[i].status = "rejected" => approvals'[i].comment \in Comments
             /\ Len(approvals'[i].briefing) = i - 1
             /\ i > 1 => approvals'[i].briefing
                            = Append(approvals'[i-1].briefing, approvals'[i-1].comment)
  <2>1. CASE i = N + 1
    <3>1. approvals'[i] = a
      BY <1>3, <2>1
    <3>2. i > 1 => i - 1 = N /\ N > 0 /\ N \in 1..N
      BY <1>3, <2>1
    <3>3. i > 1 => a.briefing = Append(approvals'[i-1].briefing, approvals'[i-1].comment)
      BY <1>1, <1>3, <3>2
    <3>4. QED
      BY <1>1, <1>3, <2>1, <3>1, <3>3
  <2>2. CASE i # N + 1
    <3>1. i \in 1..N /\ (i > 1 => i - 1 \in 1..N)
      BY <1>3, <2>2
    <3>2. approvals'[i] = approvals[i] /\ (i > 1 => approvals'[i-1] = approvals[i-1])
      BY <1>3, <3>1
    <3>3. i < N => approvals[i].status = "rejected"
      BY <3>1 DEF IInv, Evidence
    <3>4. i = N => approvals[i].status = "rejected"
      BY <1>3, <3>1
    <3>5. i < N + 1 => approvals[i].status = "rejected"
      BY <1>3, <3>1, <3>3, <3>4
    <3>6. /\ approvals[i].status = "rejected" => approvals[i].comment \in Comments
          /\ Len(approvals[i].briefing) = i - 1
          /\ i > 1 => approvals[i].briefing
                         = Append(approvals[i-1].briefing, approvals[i-1].comment)
      BY <3>1 DEF IInv, Evidence
    <3>7. QED
      BY <3>2, <3>5, <3>6
  <2>3. QED
    BY <2>1, <2>2
<1>6. Evidence'
  BY <1>3, <1>4, <1>5 DEF Evidence
<1>7. QED
  BY <1>1, <1>3, <1>6

(* ... and the rest of the rows follow.                                     *)
LEMMA RequestInv ==
    ASSUME IInv, NEW p \in Processes, pc[p] \in Locked, status = "RUNNING",
           NEW b \in Seq(Comments), Request(b), N < MaxRevisions, Len(b) = N,
           N > 0 => /\ approvals[N].status = "rejected"
                    /\ b = Append(approvals[N].briefing, approvals[N].comment),
           Goto(p, "publish"), UNCHANGED <<lock, seen, verdict, crashes>>
    PROVE  IInv'
<1>1. /\ approvals' \in Seq(Row) /\ N' = N + 1 /\ N \in Nat /\ Evidence'
      /\ \A i \in 1..N : approvals'[i] = approvals[i]
      /\ approvals'[N'].status = "pending"
  BY RequestFacts
<1>2. /\ status' = "WAITING_FOR_APPROVAL" /\ gate' = "waiting"
      /\ UNCHANGED <<limit, briefed, revisions>> /\ ~ limit /\ "publish" \in Locked
  BY DEF Request, IInv, RunRow, Locked
<1>3. /\ LockHolder' /\ pc' \in [Processes -> Steps] /\ pc'[p] = "publish"
      /\ \A q \in Processes \ {p} : pc'[q] \notin Locked
  BY <1>2, HolderLock
<1>4. Typed'
  BY <1>1, <1>2, <1>3 DEF IInv, Typed, RunStatus
<1>5. Outputs'
  <2>1. \A i \in Iterations : Saved(i)' <=> Saved(i)
    BY <1>2 DEF Saved
  <2>2. ASSUME NEW i \in Iterations, Saved(i) PROVE i \in 1..N /\ i <= N'
    BY <1>1, <2>2 DEF IInv, Outputs, Iterations
  <2>3. QED
    BY <1>1, <1>2, <2>1, <2>2 DEF IInv, Outputs
<1>6. RunRow' /\ GateAgrees'
  BY <1>1, <1>2 DEF RunRow, IInv, GateAgrees
<1>7. Stages'
  BY <1>3, HolderStages
<1>8. QED
  BY <1>1, <1>3, <1>4, <1>5, <1>6, <1>7 DEF IInv

(* The first request shows the original briefing.                           *)
LEMMA AdvanceFirstInv == ASSUME IInv, NEW p \in Processes, AdvanceFirst(p) PROVE IInv'
<1>1. N = 0 /\ N < MaxRevisions
  BY TableFacts DEF IInv, AdvanceFirst
<1>2. pc[p] \in Locked /\ status = "RUNNING" /\ Request(<< >>) /\ Goto(p, "publish")
      /\ UNCHANGED <<lock, seen, verdict, crashes>>
  BY DEF AdvanceFirst, Advancing, At, Locked
<1> DEFINE b == << >>
<1>3. b \in Seq(Comments) /\ Len(b) = N /\ Request(b) /\ ~ (N > 0)
  BY <1>1, <1>2, EmptySeq
<1> HIDE DEF b
<1>4. QED
  BY <1>1, <1>2, <1>3, RequestInv

(* Every further one a saved revision of the version rejected last.         *)
LEMMA RequestNextInv == ASSUME IInv, NEW p \in Processes, RequestNext(p) PROVE IInv'
<1>1. pc[p] \in Locked /\ pc[p] = "request" /\ Request(revisions[N].output)
      /\ Goto(p, "publish") /\ UNCHANGED <<lock, seen, verdict, crashes>>
  BY DEF RequestNext, At, Locked, N
<1>2. Revisable /\ Saved(N)
  BY <1>1 DEF IInv, Stages
<1>3. N \in Nat /\ N \in 1..N /\ N \in Iterations
  BY <1>2, TableFacts DEF IInv, Revisable, Iterations
<1>4. /\ revisions[N].output \in Seq(Comments)
      /\ revisions[N].output = Append(approvals[N].briefing, approvals[N].comment)
      /\ approvals[N].status = "rejected" /\ status = "RUNNING" /\ N < MaxRevisions
  BY <1>2, <1>3 DEF IInv, Typed, TaskRow, Outputs, Revisable
<1>5. Len(revisions[N].output) = N
  <2>1. /\ approvals[N].briefing \in Seq(Comments) /\ approvals[N].comment \in Comments
        /\ Len(approvals[N].briefing) = N - 1
    BY <1>3, <1>4, TableFacts DEF IInv, Evidence, Row
  <2>2. QED
    BY <1>3, <1>4, <2>1, AppendProperties
<1>6. QED
  BY <1>1, <1>4, <1>5, RequestInv

(* The run succeeds, or fails for good, with its latest version decided.    *)
LEMMA AdvanceEndInv ==
    ASSUME IInv, NEW p \in Processes, AdvanceApproved(p) \/ AdvanceLimit(p) PROVE IInv'
<1>1. /\ pc[p] \in Locked /\ "publish" \in Locked /\ Goto(p, "publish")
      /\ UNCHANGED <<briefed, approvals, revisions, lock, seen, verdict, crashes>>
      /\ status = "RUNNING" /\ ~ limit
  BY DEF AdvanceApproved, AdvanceLimit, Advancing, At, Locked, IInv, RunRow
<1>2. /\ LockHolder' /\ pc' \in [Processes -> Steps] /\ pc'[p] = "publish"
      /\ \A q \in Processes \ {p} : pc'[q] \notin Locked
  BY <1>1, HolderLock
<1>3. Evidence' /\ Outputs' /\ N' = N
  BY <1>1, TablesKept
<1>4. Stages'
  BY <1>2, HolderStages
<1>5. N > 0 /\ Latest = approvals[N] /\ N \in Nat
  BY TableFacts DEF IInv, AdvanceApproved, AdvanceLimit
<1>6. Typed'
  BY <1>1, <1>2 DEF IInv, Typed, RunStatus, AdvanceApproved, AdvanceLimit
<1>7. RunRow' /\ GateAgrees'
  <2>1. CASE AdvanceApproved(p)
    BY <1>1, <1>3, <1>5, <2>1 DEF AdvanceApproved, RunRow, GateAgrees
  <2>2. CASE AdvanceLimit(p)
    <3>1. approvals[N].status = "rejected" /\ Rejected = N
      BY <1>5, <2>2, AllRejected DEF IInv, AdvanceLimit
    <3>2. N = MaxRevisions
      BY <2>2, <3>1, TableFacts DEF IInv, AdvanceLimit, OverBudget, Evidence
    <3>3. QED
      BY <1>1, <1>3, <2>2, <3>1, <3>2 DEF AdvanceLimit, RunRow, GateAgrees
  <2>3. QED
    BY <2>1, <2>2
<1>8. QED
  BY <1>2, <1>3, <1>4, <1>6, <1>7 DEF IInv

(* The task row of a revision of the latest version is replaced.            *)
LEMMA RevisionWritten ==
    ASSUME IInv, N \in Iterations, NEW a \in TaskRow,
           revisions' = [revisions EXCEPT ![N] = a], UNCHANGED approvals,
           Len(a.output) <= MaxRevisions,
           a.status = "succeeded" =>
              /\ approvals[N].status = "rejected"
              /\ a.output = Append(approvals[N].briefing, approvals[N].comment)
    PROVE  /\ revisions' \in [Iterations -> TaskRow] /\ revisions'[N] = a
           /\ Evidence' /\ Outputs' /\ N' = N
<1>1. /\ revisions' \in [Iterations -> TaskRow] /\ revisions'[N] = a
      /\ \A i \in Iterations : i # N => revisions'[i] = revisions[i]
  BY DEF IInv, Typed
<1>2. Evidence' /\ N' = N /\ N \in Nat
  BY TableFacts DEF IInv, Evidence, N
<1>3. ASSUME NEW i \in Iterations
      PROVE  /\ Len(revisions'[i].output) <= MaxRevisions
             /\ Saved(i)' => /\ i <= N' /\ approvals'[i].status = "rejected"
                             /\ revisions'[i].output
                                   = Append(approvals'[i].briefing, approvals'[i].comment)
  <2>1. CASE i = N
    BY <1>1, <1>2, <2>1 DEF Saved
  <2>2. CASE i # N
    BY <1>1, <1>2, <2>2 DEF IInv, Outputs, Saved
  <2>3. QED
    BY <2>1, <2>2
<1>4. QED
  BY <1>1, <1>2, <1>3 DEF Outputs

(* The revision of a rejected version is started, or found saved.           *)
LEMMA AdvanceRejectedInv ==
    ASSUME IInv, NEW p \in Processes, AdvanceRejected(p) PROVE IInv'
<1>1. /\ pc[p] \in Locked /\ {"request", "revising"} \subseteq Locked
      /\ UNCHANGED <<status, limit, briefed, approvals, gate, lock, seen, verdict, crashes>>
      /\ status = "RUNNING"
  BY DEF AdvanceRejected, Advancing, At, Locked
<1>2. N > 0 /\ approvals[N].status = "rejected" /\ N \in Nat /\ ~ OverBudget
  BY TableFacts DEF IInv, AdvanceRejected
<1>3. Revisable /\ N \in Iterations
  BY <1>1, <1>2, AllRejected, TableFacts DEF IInv, OverBudget, Revisable, Iterations
<1>4. CASE Saved(N)
  <2>1. Goto(p, "request") /\ UNCHANGED revisions
    BY <1>4 DEF AdvanceRejected, N
  <2>2. /\ LockHolder' /\ pc' \in [Processes -> Steps] /\ pc'[p] = "request"
        /\ \A q \in Processes \ {p} : pc'[q] \notin Locked
    BY <1>1, <2>1, HolderLock
  <2>3. Typed'
    BY <1>1, <2>1, <2>2 DEF IInv, Typed
  <2>4. Evidence' /\ Outputs' /\ RunRow' /\ GateAgrees' /\ Revisable' /\ Saved(N)'
    BY <1>1, <1>3, <1>4, <2>1, RowsKept DEF database, Saved
  <2>5. Stages'
    BY <2>2, <2>4, HolderStages
  <2>6. QED
    BY <2>2, <2>3, <2>4, <2>5 DEF IInv
<1>5. CASE ~ Saved(N)
  <2> DEFINE a == [revisions[N] EXCEPT !.status = "running"]
  <2>1. Goto(p, "revising") /\ revisions' = [revisions EXCEPT ![N] = a]
    BY <1>5 DEF AdvanceRejected, N
  <2>2. revisions[N] \in TaskRow /\ Len(revisions[N].output) <= MaxRevisions
    BY <1>3 DEF IInv, Typed, Outputs
  <2>3. a \in TaskRow /\ a.output = revisions[N].output /\ a.status = "running"
    BY <2>2 DEF TaskRow
  <2> HIDE DEF a
  <2>4. /\ revisions' \in [Iterations -> TaskRow] /\ Evidence' /\ Outputs' /\ N' = N
        /\ revisions'[N] = a
    BY <1>1, <1>3, <2>1, <2>2, <2>3, RevisionWritten
  <2>5. /\ LockHolder' /\ pc' \in [Processes -> Steps] /\ pc'[p] = "revising"
        /\ \A q \in Processes \ {p} : pc'[q] \notin Locked
    BY <1>1, <2>1, HolderLock
  <2>6. Typed'
    BY <1>1, <2>4, <2>5 DEF IInv, Typed
  <2>7. RunRow' /\ GateAgrees' /\ Revisable' /\ ~ Saved(N)'
    BY <1>1, <1>3, <2>3, <2>4 DEF IInv, RunRow, GateAgrees, Revisable, Saved
  <2>8. Stages'
    BY <2>5, <2>7, HolderStages
  <2>9. QED
    BY <2>4, <2>5, <2>6, <2>7, <2>8 DEF IInv
<1>6. QED
  BY <1>4, <1>5

(* The comment is worked into the version it rejects, or the task fails.    *)
LEMMA ReviseInv ==
    ASSUME IInv, NEW p \in Processes, Revise(p) \/ ReviseFail(p) PROVE IInv'
<1>1. /\ pc[p] \in Locked /\ {"request", "publish"} \subseteq Locked /\ pc[p] = "revising"
      /\ UNCHANGED <<limit, briefed, approvals, gate, lock, seen, verdict, crashes>>
  BY DEF Revise, ReviseFail, At, Locked
<1>2. Revisable /\ N \in Nat /\ N \in Iterations /\ N \in 1..N /\ Latest = approvals[N] /\ ~ limit
  BY <1>1, TableFacts DEF IInv, Stages, Revisable, Iterations, RunRow
<1>3. /\ approvals[N].briefing \in Seq(Comments) /\ approvals[N].comment \in Comments
      /\ Len(approvals[N].briefing) = N - 1 /\ approvals[N].status = "rejected"
      /\ status = "RUNNING" /\ N < MaxRevisions
  BY <1>2, TableFacts DEF IInv, Evidence, Row, Revisable
<1>4. CASE Revise(p)
  <2> DEFINE b == Append(approvals[N].briefing, approvals[N].comment)
             a == [status |-> "succeeded", output |-> b]
  <2>1. /\ Goto(p, "request") /\ revisions' = [revisions EXCEPT ![N] = a]
        /\ UNCHANGED status
    BY <1>2, <1>4 DEF Revise, N
  <2>2. b \in Seq(Comments) /\ Len(b) = N
    BY <1>2, <1>3, AppendProperties
  <2>3. a \in TaskRow /\ a.output = b /\ a.status = "succeeded"
    BY <2>2 DEF TaskRow
  <2>4. Len(a.output) <= MaxRevisions
    BY <1>3, <2>2, <2>3, TableFacts DEF IInv, Evidence
  <2> HIDE DEF a
  <2>5. /\ revisions' \in [Iterations -> TaskRow] /\ Evidence' /\ Outputs' /\ N' = N
        /\ revisions'[N] = a
    BY <1>1, <1>2, <1>3, <2>1, <2>3, <2>4, RevisionWritten
  <2>6. /\ LockHolder' /\ pc' \in [Processes -> Steps] /\ pc'[p] = "request"
        /\ \A q \in Processes \ {p} : pc'[q] \notin Locked
    BY <1>1, <2>1, HolderLock
  <2>7. Typed'
    BY <1>1, <2>1, <2>5, <2>6 DEF IInv, Typed
  <2>8. RunRow' /\ GateAgrees' /\ Revisable' /\ Saved(N)'
    BY <1>1, <1>2, <2>1, <2>3, <2>5 DEF IInv, RunRow, GateAgrees, Revisable, Saved
  <2>9. Stages'
    BY <2>6, <2>8, HolderStages
  <2>10. QED
    BY <2>5, <2>6, <2>7, <2>8, <2>9 DEF IInv
<1>5. CASE ReviseFail(p)
  <2> DEFINE a == [revisions[N] EXCEPT !.status = "failed"]
  <2>1. /\ Goto(p, "publish") /\ revisions' = [revisions EXCEPT ![N] = a]
        /\ status' = "FAILED"
    BY <1>5 DEF ReviseFail, N
  <2>2. revisions[N] \in TaskRow /\ Len(revisions[N].output) <= MaxRevisions
    BY <1>2 DEF IInv, Typed, Outputs
  <2>3. a \in TaskRow /\ a.output = revisions[N].output /\ a.status = "failed"
    BY <2>2 DEF TaskRow
  <2> HIDE DEF a
  <2>4. revisions' \in [Iterations -> TaskRow] /\ Evidence' /\ Outputs' /\ N' = N
    BY <1>1, <1>2, <2>1, <2>2, <2>3, RevisionWritten
  <2>5. /\ LockHolder' /\ pc' \in [Processes -> Steps] /\ pc'[p] = "publish"
        /\ \A q \in Processes \ {p} : pc'[q] \notin Locked
    BY <1>1, <2>1, HolderLock
  <2>6. Typed'
    BY <1>1, <2>1, <2>4, <2>5 DEF IInv, Typed, RunStatus
  <2>7. RunRow' /\ GateAgrees'
    BY <1>1, <1>2, <1>3, <2>1, <2>4 DEF IInv, RunRow, GateAgrees
  <2>8. Stages'
    BY <2>5, HolderStages
  <2>9. QED
    BY <2>4, <2>5, <2>6, <2>7, <2>8 DEF IInv
<1>6. QED
  BY <1>4, <1>5

(* Every step keeps the invariant.                                          *)
LEMMA NextInv == ASSUME IInv, [Next]_vars PROVE IInv'
<1>1. CASE UNCHANGED vars
  <2>1. UNCHANGED <<database, lock, pc, seen, verdict, crashes>>
    BY <1>1 DEF vars
  <2>2. Typed' /\ LockHolder' /\ Stages'
    BY <2>1 DEF IInv, database, Typed, LockHolder, Stages, Revisable, Saved, N
  <2>3. QED
    BY <2>1, <2>2, RowsKept DEF IInv
<1>2. ASSUME NEW p \in Processes, Step(p) PROVE IInv'
  BY <1>2, AcquireInv, DecideInv, EndInv, ResumeInv, WorkflowInv, TasksInv,
     AdvanceNothingInv, AdvanceFirstInv, AdvanceEndInv, AdvanceRejectedInv,
     ReviseInv, RequestNextInv DEF Step
<1>3. QED
  BY <1>1, <1>2, StartInv, CrashInv DEF Next

----------------------------------------------------------------------------
(* The inductive invariant holds in every reachable state, for any number   *)
(* of processes, comments, revisions and crashes (approvals.py).            *)
THEOREM Invariance == Spec => []IInv
<1>1. Init => IInv
  BY InitInv
<1>2. IInv /\ [Next]_vars => IInv'
  BY NextInv
<1>3. QED
  BY <1>1, <1>2, PTL DEF Spec

(* No briefing grows beyond the revisions it may take.                      *)
THEOREM TypeCorrect == Spec => []TypeOK
<1>1. IInv => TypeOK
  <2> SUFFICES ASSUME IInv PROVE TypeOK
    OBVIOUS
  <2>1. ASSUME NEW b \in Seq(Comments), Len(b) <= MaxRevisions PROVE b \in Briefings
    <3>1. Len(b) \in 0..MaxRevisions /\ b \in [1..Len(b) -> Comments]
      BY <2>1, LenProperties, TableFacts DEF IInv
    <3>2. QED
      BY <3>1 DEF Briefings
  <2>2. ASSUME NEW i \in 1..N PROVE approvals[i] \in Approval
    <3>1. approvals[i] \in Row /\ Len(approvals[i].briefing) = i - 1 /\ N <= MaxRevisions
      BY TableFacts DEF IInv, Evidence
    <3>2. approvals[i].briefing \in Seq(Comments) /\ Len(approvals[i].briefing) <= MaxRevisions
      BY <3>1, TableFacts DEF IInv, Row
    <3>3. approvals[i].briefing \in Briefings
      BY <2>1, <3>2
    <3>4. QED
      BY <3>1, <3>3 DEF Row, Approval
  <2>3. approvals \in Seq(Approval)
    <3>1. N \in Nat /\ approvals \in [1..N -> Row]
      BY LenProperties DEF IInv, Typed, N
    <3>2. approvals \in [1..N -> Approval]
      BY <2>2, <3>1
    <3>3. QED
      BY <3>1, <3>2, SeqDef
  <2>4. ASSUME NEW i \in Iterations PROVE revisions[i] \in Revision
    <3>1. revisions[i] \in TaskRow /\ Len(revisions[i].output) <= MaxRevisions
      BY DEF IInv, Typed, Outputs
    <3>2. revisions[i].output \in Briefings
      BY <2>1, <3>1 DEF TaskRow
    <3>3. QED
      BY <3>1, <3>2 DEF TaskRow, Revision
  <2>5. revisions \in [Iterations -> Revision]
    BY <2>4 DEF IInv, Typed
  <2>6. QED
    BY <2>3, <2>5 DEF IInv, Typed, TypeOK
<1>2. QED
  BY <1>1, Invariance, PTL

(* One command at a time is past the run's lock.                            *)
THEOREM LockExclusive == Spec => []LockHolder
<1>1. IInv => LockHolder
  BY DEF IInv
<1>2. QED
  BY <1>1, Invariance, PTL

(* Whatever crashed, the run waits exactly while its latest version waits.  *)
THEOREM WaitsForDecision == Spec => []WaitingIffPending
<1>1. IInv => WaitingIffPending
  <2> SUFFICES ASSUME IInv PROVE WaitingIffPending
    OBVIOUS
  <2>1. Pending = IF N > 0 /\ approvals[N].status = "pending" THEN {N} ELSE {}
    BY OnePending DEF IInv
  <2>2. status = "WAITING_FOR_APPROVAL" <=> N > 0 /\ approvals[N].status = "pending"
    BY DEF IInv, RunRow
  <2>3. QED
    BY <2>1, <2>2 DEF WaitingIffPending, N
<1>2. QED
  BY <1>1, Invariance, PTL

(* No run succeeds without the approval of a human.                         *)
THEOREM ApprovalRequired == Spec => []SuccessApproved
<1>1. IInv => SuccessApproved
  <2> SUFFICES ASSUME IInv PROVE SuccessApproved
    OBVIOUS
  <2>1. status = "SUCCEEDED" => approvals # << >> /\ Latest.status = "approved"
    BY TableFacts DEF IInv, RunRow
  <2>2. \A i \in DOMAIN approvals : i < Len(approvals) => approvals[i].status = "rejected"
    BY TableFacts DEF IInv, Evidence, N
  <2>3. QED
    BY <2>1, <2>2 DEF SuccessApproved
<1>2. QED
  BY <1>1, Invariance, PTL

(* No history of decisions, crashes and retries exceeds the revisions.      *)
THEOREM RevisionsBounded == Spec => []RevisionBudget
<1>1. IInv => RevisionBudget
  <2> SUFFICES ASSUME IInv PROVE RevisionBudget
    OBVIOUS
  <2>1. limit => status = "FAILED" /\ Rejected = MaxRevisions
    BY AllRejected, TableFacts DEF IInv, RunRow
  <2>2. QED
    BY <2>1 DEF IInv, Evidence, RevisionBudget, N
<1>2. QED
  BY <1>1, Invariance, PTL

(* Every version is the last one with its reviewer's comment.               *)
THEOREM VersionsChained == Spec => []VersionsChain
<1>1. IInv => VersionsChain
  <2> SUFFICES ASSUME IInv PROVE VersionsChain
    OBVIOUS
  <2>1. ASSUME NEW i \in 1..N
        PROVE  IF i = 1 THEN approvals[i].briefing = << >>
               ELSE approvals[i].briefing =
                       Append(approvals[i-1].briefing, approvals[i-1].comment)
    <3>1. approvals[i].briefing \in Seq(Comments) /\ Len(approvals[i].briefing) = i - 1
      BY TableFacts DEF IInv, Evidence, Row
    <3>2. CASE i = 1
      <4>1. Len(approvals[i].briefing) = 0
        BY <3>1, <3>2
      <4>2. QED
        BY <3>1, <3>2, <4>1, EmptySeq
    <3>3. CASE i # 1
      BY <3>3 DEF IInv, Evidence
    <3>4. QED
      BY <3>2, <3>3
  <2>2. QED
    BY <2>1, TableFacts DEF IInv, VersionsChain
<1>2. QED
  BY <1>1, Invariance, PTL

(* The gate's task row agrees with the run's.                               *)
THEOREM GateConsistent == Spec => []GateAgrees
<1>1. IInv => GateAgrees
  BY DEF IInv
<1>2. QED
  BY <1>1, Invariance, PTL

(* The run's row, its approvals and its gate agree in every state.          *)
THEOREM StatusesAlwaysAgree == Spec => []StatusesAgree
<1>1. WaitingIffPending /\ GateAgrees => StatusesAgree
  BY DEF StatusesAgree
<1>2. QED
  BY <1>1, WaitsForDecision, GateConsistent, PTL

----------------------------------------------------------------------------
(* How the table of approvals changes: not at all, by a decision on the     *)
(* pending version, or by a new version.                                    *)
LEMMA TableSteps ==
    ASSUME IInv, [Next]_vars
    PROVE  \/ UNCHANGED approvals
           \/ \E p \in Processes : Decide(p)
           \/ \E b \in Seq(Comments) : Request(b) /\ N < MaxRevisions /\ Len(b) = N
                                       /\ (N > 0 => /\ approvals[N].status = "rejected"
                                                    /\ b = Append(approvals[N].briefing,
                                                                  approvals[N].comment))
<1>1. ASSUME NEW p \in Processes, AdvanceFirst(p)
      PROVE  Request(<< >>) /\ << >> \in Seq(Comments) /\ Len(<< >>) = N /\ N = 0
             /\ N < MaxRevisions
  BY <1>1, TableFacts, EmptySeq DEF IInv, AdvanceFirst
<1>2. ASSUME NEW p \in Processes, RequestNext(p)
      PROVE  /\ Request(revisions[N].output) /\ revisions[N].output \in Seq(Comments)
             /\ N < MaxRevisions /\ Len(revisions[N].output) = N
             /\ approvals[N].status = "rejected"
             /\ revisions[N].output = Append(approvals[N].briefing, approvals[N].comment)
  <2>1. Revisable /\ Saved(N) /\ Request(revisions[N].output)
    BY <1>2 DEF IInv, RequestNext, At, Stages, N
  <2>2. N \in Nat /\ N \in 1..N /\ N \in Iterations
    BY <2>1, TableFacts DEF IInv, Revisable, Iterations
  <2>3. /\ revisions[N].output \in Seq(Comments)
        /\ revisions[N].output = Append(approvals[N].briefing, approvals[N].comment)
        /\ approvals[N].status = "rejected" /\ N < MaxRevisions
    BY <2>1, <2>2 DEF IInv, Typed, TaskRow, Outputs, Revisable
  <2>4. /\ approvals[N].briefing \in Seq(Comments) /\ approvals[N].comment \in Comments
        /\ Len(approvals[N].briefing) = N - 1
    BY <2>2, <2>3, TableFacts DEF IInv, Evidence, Row
  <2>5. QED
    BY <2>1, <2>2, <2>3, <2>4, AppendProperties
<1>3. ASSUME NEW p \in Processes, Step(p) \/ Start(p) \/ Crash(p)
      PROVE  UNCHANGED approvals \/ Decide(p) \/ AdvanceFirst(p) \/ RequestNext(p)
  BY <1>3 DEF Step, Start, Crash, Acquire, DecideRefused, Resume, Workflow, WorkflowRefused,
     Tasks, TasksFail, AdvanceNothing, AdvanceApproved, AdvanceLimit, AdvanceRejected,
     Revise, ReviseFail, Publish, DecideStart, ResumeStart, WorkflowStart, database
<1>4. CASE UNCHANGED vars
  BY <1>4 DEF vars, database
<1> DEFINE Requests(b) == /\ Request(b) /\ N < MaxRevisions /\ Len(b) = N
                          /\ N > 0 => /\ approvals[N].status = "rejected"
                                      /\ b = Append(approvals[N].briefing, approvals[N].comment)
<1>5. ASSUME NEW p \in Processes, AdvanceFirst(p) PROVE \E b \in Seq(Comments) : Requests(b)
  <2> DEFINE c == << >>
  <2>1. Request(c) /\ c \in Seq(Comments) /\ Len(c) = N /\ ~ (N > 0) /\ N < MaxRevisions
    BY <1>1, <1>5
  <2> HIDE DEF c
  <2>2. QED
    BY <2>1
<1>6. ASSUME NEW p \in Processes, RequestNext(p) PROVE \E b \in Seq(Comments) : Requests(b)
  BY <1>2, <1>6
<1>7. QED
  BY <1>3, <1>4, <1>5, <1>6 DEF Next

(* Decisions and versions are never taken back.                             *)
THEOREM HistoryNeverRewritten == Spec => HistoryRetained
<1>1. IInv /\ [Next]_vars
      => [/\ Len(approvals) <= Len(approvals')
          /\ \A i \in DOMAIN approvals :
                /\ approvals'[i].briefing = approvals[i].briefing
                /\ i \notin Pending => approvals'[i] = approvals[i]]_vars
  <2>1. SUFFICES ASSUME IInv, [Next]_vars
                 PROVE  /\ N <= N'
                        /\ \A i \in 1..N :
                              /\ approvals'[i].briefing = approvals[i].briefing
                              /\ i \notin Pending => approvals'[i] = approvals[i]
    BY TableFacts DEF N, IInv
  <2>2. N \in Nat /\ Pending = IF N > 0 /\ approvals[N].status = "pending" THEN {N} ELSE {}
    BY <2>1, TableFacts, OnePending DEF IInv
  <2>3. CASE UNCHANGED approvals
    BY <2>2, <2>3 DEF N
  <2>4. ASSUME NEW p \in Processes, Decide(p)
        PROVE  N <= N' /\ \A i \in 1..N : /\ approvals'[i].briefing = approvals[i].briefing
                                          /\ i \notin Pending => approvals'[i] = approvals[i]
    BY <2>1, <2>2, <2>4, DecideFacts
  <2>5. ASSUME NEW b \in Seq(Comments), Request(b), N < MaxRevisions, Len(b) = N,
               N > 0 => /\ approvals[N].status = "rejected"
                        /\ b = Append(approvals[N].briefing, approvals[N].comment)
        PROVE  N <= N' /\ \A i \in 1..N : approvals'[i] = approvals[i]
    BY <2>1, <2>2, <2>5, RequestFacts
  <2>6. QED
    BY <2>1, <2>3, <2>4, <2>5, TableSteps
<1>2. QED
  BY <1>1, Invariance, PTL DEF Spec, HistoryRetained

(* Only a command bound to a version before it took the lock decides it.    *)
THEOREM DecisionsBind == Spec => DecisionBinds
<1>1. IInv /\ [Next]_vars
      => [\A i \in Pending :
            approvals'[i].status # "pending"
            => \E p \in Processes : /\ pc[p] = "decide" /\ seen[p] = i
                                    /\ approvals'[i].status = verdict[p].decision]_vars
  <2>1. SUFFICES ASSUME IInv, [Next]_vars, NEW i \in Pending, approvals'[i].status # "pending"
                 PROVE  \E p \in Processes : /\ pc[p] = "decide" /\ seen[p] = i
                                             /\ approvals'[i].status = verdict[p].decision
    OBVIOUS
  <2>2. i = N /\ N \in 1..N /\ N \in Nat /\ approvals[i].status = "pending"
    BY <2>1, OnePending, TableFacts DEF IInv
  <2>3. \E p \in Processes : Decide(p)
    BY <2>1, <2>2, TableSteps
  <2>4. PICK p \in Processes : Decide(p)
    BY <2>3
  <2>5. /\ pc[p] = "decide" /\ seen[p] = i /\ approvals'[i].status = verdict[p].decision
    BY <2>1, <2>2, <2>4, DecideFacts DEF Decide, At
  <2>6. QED
    BY <2>5
<1>2. QED
  BY <1>1, Invariance, PTL DEF Spec, DecisionBinds

(* A saved revision is used again as it is.                                 *)
THEOREM RevisionsReused == Spec => RevisionReused
<1>1. IInv /\ [Next]_vars => [\A i \in Iterations : Saved(i) => revisions'[i] = revisions[i]]_vars
  <2>1. SUFFICES ASSUME IInv, Next, NEW i \in Iterations, Saved(i)
                 PROVE  revisions'[i] = revisions[i]
    OBVIOUS
  <2>2. revisions \in [Iterations -> TaskRow] /\ revisions[i] \in TaskRow
    BY <2>1 DEF IInv, Typed
  <2>3. CASE UNCHANGED revisions
    BY <2>3
  <2>4. ASSUME NEW p \in Processes, Workflow(p) PROVE revisions'[i] = revisions[i]
    <3>1. CASE Finished
      BY <2>4, <3>1 DEF Workflow, database
    <3>2. CASE ~ Finished
      <4>1. revisions'[i] = [revisions[i] EXCEPT !.status = ResetTask(revisions[i].status)]
        BY <2>4, <3>2 DEF Workflow
      <4>2. ResetTask(revisions[i].status) = revisions[i].status
        BY <2>1 DEF ResetTask, Saved
      <4>3. QED
        BY <2>2, <4>1, <4>2 DEF TaskRow
    <3>3. QED
      BY <3>1, <3>2
  <2>5. ASSUME NEW p \in Processes, AdvanceRejected(p) \/ Revise(p) \/ ReviseFail(p)
        PROVE  revisions'[i] = revisions[i]
    <3>1. CASE i # N
      BY <2>2, <2>5, <3>1 DEF AdvanceRejected, Revise, ReviseFail, N
    <3>2. CASE i = N
      <4>1. CASE AdvanceRejected(p)
        BY <2>1, <3>2, <4>1 DEF AdvanceRejected, N
      <4>2. CASE Revise(p) \/ ReviseFail(p)
        <5>1. pc[p] = "revising"
          BY <4>2 DEF Revise, ReviseFail, At
        <5>2. ~ Saved(N)
          BY <2>1, <5>1 DEF IInv, Stages
        <5>3. QED
          BY <2>1, <3>2, <5>2
      <4>3. QED
        BY <2>5, <4>1, <4>2
    <3>3. QED
      BY <3>1, <3>2
  <2>6. QED
    BY <2>1, <2>3, <2>4, <2>5 DEF Next, Step, Start, Crash, Acquire, Decide, DecideRefused,
       Resume, WorkflowRefused, Tasks, TasksFail, AdvanceNothing, AdvanceFirst, Request,
       AdvanceApproved, AdvanceLimit, RequestNext, Publish, DecideStart, ResumeStart,
       WorkflowStart, database
<1>2. QED
  BY <1>1, Invariance, PTL DEF Spec, RevisionReused

(* No step rewrites what was shown, decided or worked in.                   *)
THEOREM HistoryIsSound == Spec => HistorySound
  BY DecisionsBind, HistoryNeverRewritten, RevisionsReused DEF HistorySound


----------------------------------------------------------------------------
(* The run as the delivery of runs sees it.                                 *)
SeenRun == [status |-> status, limit |-> limit, asked |-> approvals # << >>]

(* The steps RunLifecycle allows are those of RunStates.                    *)
LEMMA SameSteps ==
    ASSUME SeenRun' \in Run, RunStep(SeenRun, SeenRun')
    PROVE  Lifecycle!Next
  BY DEF Lifecycle!Next, SeenRun, Run, RunStatus, RunStep, RunCreated, RunRestarted, RunFailed,
     RunPaused, RunDecidedOn, RunSucceeded, RunLimited, NoRun,
     Lifecycle!Run, Lifecycle!RunStatus, Lifecycle!RunStep, Lifecycle!RunCreated,
     Lifecycle!RunRestarted, Lifecycle!RunFailed, Lifecycle!RunPaused, Lifecycle!RunDecidedOn,
     Lifecycle!RunSucceeded, Lifecycle!RunLimited, Lifecycle!NoRun

(* What pausing at a gate and giving up the revisions make of a run.        *)
LEMMA PausedFields ==
    ASSUME NEW a, NEW b \in BOOLEAN, NEW c \in BOOLEAN,
           NEW r, r = [status |-> a, limit |-> b, asked |-> c],
           NEW s, s = [r EXCEPT !.status = "WAITING_FOR_APPROVAL", !.asked = TRUE]
    PROVE  s = [status |-> "WAITING_FOR_APPROVAL", limit |-> b, asked |-> TRUE]
  OBVIOUS

LEMMA LimitedFields ==
    ASSUME NEW a, NEW b \in BOOLEAN, NEW c \in BOOLEAN,
           NEW r, r = [status |-> a, limit |-> b, asked |-> c],
           NEW s, s = [r EXCEPT !.status = "FAILED", !.limit = TRUE]
    PROVE  s = [status |-> "FAILED", limit |-> TRUE, asked |-> c]
  OBVIOUS

(* A transaction that changes the run's row moves it as RunStates says.     *)
LEMMA RunMoves ==
    ASSUME IInv, NEW p \in Processes, Step(p) \/ Start(p) \/ Crash(p)
    PROVE  UNCHANGED SeenRun \/ RunStep(SeenRun, SeenRun')
<1> DEFINE asked == approvals # << >>
<1>1. /\ asked <=> N > 0
      /\ limit => status = "FAILED"
      /\ status = "NONE" => ~ asked
  BY TableFacts DEF IInv, RunRow
<1>2. SeenRun = [status |-> status, limit |-> limit, asked |-> asked]
  BY DEF SeenRun
<1>3. CASE Decide(p)
  <2>1. /\ status = "WAITING_FOR_APPROVAL" /\ status' = "RUNNING" /\ UNCHANGED limit
        /\ asked /\ asked'
    <3>1. IInv' /\ N > 0 /\ N' = N
      BY <1>3, DecideFacts, DecideInv
    <3>2. asked' <=> N' > 0
      <4>1. approvals' \in Seq(Row)
        BY <3>1 DEF IInv, Typed
      <4>2. QED
        BY <4>1, EmptySeq, LenProperties DEF N
    <3>3. QED
      BY <1>1, <1>3, <3>1, <3>2 DEF Decide
  <2>2. SeenRun' = [SeenRun EXCEPT !.status = "RUNNING"]
    BY <2>1 DEF SeenRun
  <2>3. QED
    BY <2>1, <2>2 DEF RunStep, RunDecidedOn, SeenRun
<1>4. CASE Resume(p)
  BY <1>4 DEF Resume, RunStep, RunRestarted, SeenRun
<1>5. CASE Workflow(p)
  <2>1. CASE Finished
    BY <1>5, <2>1 DEF Workflow, database, SeenRun
  <2>2. CASE ~ Finished
    <3>1. /\ status' = "RUNNING" /\ UNCHANGED <<limit, approvals>>
          /\ status \in {"NONE", "RUNNING", "FAILED"} /\ ~ limit
      BY <1>1, <1>5, <2>2 DEF Workflow, Finished, Checkpoints, IInv, Typed, RunStatus
    <3>2. SeenRun' = [SeenRun EXCEPT !.status = "RUNNING"]
      BY <3>1 DEF SeenRun
    <3>3. CASE status = "NONE"
      <4>1. limit = FALSE /\ asked = FALSE
        BY <1>1, <3>1, <3>3 DEF IInv, Typed
      <4>2. SeenRun = NoRun
        BY <1>2, <3>3, <4>1 DEF NoRun
      <4>3. QED
        BY <3>2, <4>2 DEF RunStep, RunCreated
    <3>4. CASE status = "RUNNING"
      BY <3>1, <3>4 DEF SeenRun
    <3>5. CASE status = "FAILED"
      BY <3>1, <3>2, <3>5 DEF SeenRun, RunStep, RunRestarted
    <3>6. QED
      BY <3>1, <3>3, <3>4, <3>5
  <2>3. QED
    BY <2>1, <2>2
<1>6. CASE TasksFail(p) \/ ReviseFail(p)
  <2>1. status = "RUNNING" /\ status' = "FAILED" /\ UNCHANGED <<limit, approvals>>
    BY <1>6 DEF IInv, Stages, Revisable, TasksFail, ReviseFail, At
  <2>2. QED
    BY <2>1 DEF SeenRun, RunStep, RunFailed
<1>7. CASE AdvanceFirst(p) \/ RequestNext(p)
  <2>1. /\ status = "RUNNING" /\ status' = "WAITING_FOR_APPROVAL" /\ UNCHANGED limit
        /\ approvals' # << >>
    <3>1. status = "RUNNING"
      BY <1>7 DEF IInv, AdvanceFirst, Advancing, RequestNext, At, Stages, Revisable
    <3>2. status' = "WAITING_FOR_APPROVAL" /\ UNCHANGED limit
      BY <1>7 DEF AdvanceFirst, RequestNext, Request
    <3>3. IInv'
      BY <1>7, AdvanceFirstInv, RequestNextInv
    <3>4. N' > 0
      BY <3>2, <3>3 DEF IInv, RunRow
    <3>5. approvals' \in Seq(Row)
      BY <3>3 DEF IInv, Typed
    <3>6. approvals' # << >>
      BY <3>4, EmptySeq DEF N
    <3>7. QED
      BY <3>1, <3>2, <3>6
  <2>2. SeenRun' = [SeenRun EXCEPT !.status = "WAITING_FOR_APPROVAL", !.asked = TRUE]
    <3>1. (approvals' # << >>) = TRUE
      BY <2>1
    <3>2. SeenRun' = [status |-> "WAITING_FOR_APPROVAL", limit |-> limit, asked |-> TRUE]
      BY <2>1, <3>1 DEF SeenRun
    <3> DEFINE s == [SeenRun EXCEPT !.status = "WAITING_FOR_APPROVAL", !.asked = TRUE]
    <3>4. s = [status |-> "WAITING_FOR_APPROVAL", limit |-> limit, asked |-> TRUE]
      <4>1. limit \in BOOLEAN /\ asked \in BOOLEAN
        BY DEF IInv, Typed
      <4> HIDE DEF asked
      <4>2. QED
        BY <1>2, <4>1, PausedFields
    <3>5. QED
      BY <3>2, <3>4
  <2>3. QED
    BY <2>1, <2>2 DEF SeenRun, RunStep, RunPaused
<1>8. CASE AdvanceApproved(p)
  <2>1. /\ status = "RUNNING" /\ status' = "SUCCEEDED" /\ UNCHANGED <<limit, approvals>>
        /\ approvals # << >>
    BY <1>8 DEF AdvanceApproved, Advancing
  <2>2. SeenRun' = [SeenRun EXCEPT !.status = "SUCCEEDED"]
    BY <2>1 DEF SeenRun
  <2>3. SeenRun.status = "RUNNING" /\ SeenRun.asked
    BY <1>2, <2>1
  <2>4. QED
    BY <2>2, <2>3 DEF RunStep, RunSucceeded
<1>9. CASE AdvanceLimit(p)
  <2>1. /\ status = "RUNNING" /\ status' = "FAILED" /\ limit' = TRUE /\ UNCHANGED approvals
        /\ approvals # << >>
    BY <1>9 DEF AdvanceLimit, Advancing
  <2>2. SeenRun' = [SeenRun EXCEPT !.status = "FAILED", !.limit = TRUE]
    <3>1. SeenRun' = [status |-> "FAILED", limit |-> TRUE, asked |-> asked]
      BY <2>1 DEF SeenRun
    <3> DEFINE s == [SeenRun EXCEPT !.status = "FAILED", !.limit = TRUE]
    <3>3. s = [status |-> "FAILED", limit |-> TRUE, asked |-> asked]
      <4>1. limit \in BOOLEAN /\ asked \in BOOLEAN
        BY DEF IInv, Typed
      <4> HIDE DEF asked
      <4>2. QED
        BY <1>2, <4>1, LimitedFields
    <3>4. QED
      BY <3>1, <3>3
  <2>3. SeenRun.status = "RUNNING" /\ SeenRun.asked
    BY <1>2, <2>1
  <2>4. QED
    BY <2>2, <2>3 DEF RunStep, RunLimited
<1>10. CASE UNCHANGED <<status, limit, approvals>>
  BY <1>10 DEF SeenRun
<1>11. QED
  BY <1>3, <1>4, <1>5, <1>6, <1>7, <1>8, <1>9, <1>10
     DEF Step, Start, Crash, Acquire, DecideRefused, WorkflowRefused, Tasks, AdvanceNothing,
     AdvanceRejected, Revise, Publish, DecideStart, ResumeStart, WorkflowStart, database

(* Queue, Ingestion and Delivery take RunLifecycle for the workflow: the    *)
(* human decision boundary implements it, whatever crashes and retries.     *)
THEOREM ApprovalsImplementLifecycle == Spec => ImplementsLifecycle
<1>1. Init => Lifecycle!Init
  BY DEF Init, Lifecycle!Init, Lifecycle!NoRun
<1>2. IInv /\ [Next]_vars => [Lifecycle!Next]_SeenRun
  <2>1. SUFFICES ASSUME IInv, [Next]_vars PROVE Lifecycle!Next \/ UNCHANGED SeenRun
    OBVIOUS
  <2>2. CASE UNCHANGED vars
    BY <2>2 DEF vars, database, SeenRun
  <2>3. SeenRun' \in Run
    <3>1. IInv'
      BY <2>1, NextInv
    <3>2. status' \in RunStatus /\ limit' \in BOOLEAN
      BY <3>1 DEF IInv, Typed
    <3>3. QED
      BY <3>2 DEF SeenRun, Run
  <2>4. QED
    BY <2>1, <2>2, <2>3, RunMoves, SameSteps DEF Next
<1>3. QED
  BY <1>1, <1>2, Invariance, PTL
     DEF Spec, ImplementsLifecycle, Lifecycle!Spec, SeenRun
============================================================================
