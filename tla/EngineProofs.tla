---------------------------- MODULE EngineProofs ----------------------------
(***************************************************************************)
(* What module Engine promises holds for any allowance of attempts, any    *)
(* tasks that may fail, and any number of crashes, failures and versions   *)
(* of the input files.                                                     *)
(***************************************************************************)
EXTENDS Engine, FiniteSetTheorems, TLAPS

(* an invocation has tasks to start or to wait for, and no verdict yet      *)
Working == {"schedule", "wait", "handle"}
Open == Working \cup {"final"}

(* The run's row and the control of the invocation.                         *)
RunRow ==
    /\ status # "SUCCEEDED"
    /\ status = "NONE" <=> fingerprint = 0
    /\ status = "NONE" => pc \in {"down", "begin"} /\ \A t \in Tasks : rows[t] = "none"
    /\ pc = "begin" => status \notin Checkpoints /\ observed # 0
    /\ pc \in Open => status = "RUNNING"
    /\ pc = "advance" => /\ status \in {"RUNNING", "FAILED"}
                         /\ status = "RUNNING" => Succeeded(Tasks)

(* A task that failed had its premises too.  Whatever is pending may still  *)
(* be attempted, and the loop ends when nothing runs or can start.          *)
TaskRows ==
    /\ \A t \in Tasks : rows[t] \in {"running", "succeeded", "failed"} => Succeeded(PLAN[t])
    /\ pc \in Open => \A t \in Tasks : /\ rows[t] \notin {"none", "blocked"}
                                       /\ rows[t] = "pending" => allowance[t] < MaxAttempts
    /\ pc = "final" => \A t \in Tasks : rows[t] # "running" /\ ~ Ready(t)

(* The running rows of an invocation at work are its futures.               *)
InFlight ==
    /\ \A t \in Tasks : thread[t] # "none" <=> pc \in Working /\ rows[t] = "running"
    /\ batch # {} => pc = "handle"
    /\ \A t \in batch : thread[t] \in Done

(* What the verifier's thread has established.  An output that it found     *)
(* equal to a recomputation has the version the files had then, and while   *)
(* the run's bytes were not put back that is the run's version if the files *)
(* still have it.                                                           *)
Confirmed(w) == ~ undone /\ input = fingerprint => output[w] = fingerprint

Verifying ==
    /\ thread["verifier"] \in {"requalified", "recomputed"} => Confirmed("quality_agent")
    /\ thread["verifier"] = "recomputed" => Confirmed("change_agent")
    /\ thread["verifier"] = "ok" /\ ~ undone => \A w \in Workers : output[w] = fingerprint

IInv == TypeOK /\ RunRow /\ TaskRows /\ InFlight /\ Verifying /\ FinalVerdict /\ VerifiedInputs

----------------------------------------------------------------------------
(* The graph of tasks *)

(* PLAN of workflow.py, one task at a time.                                 *)
LEMMA Plan ==
    /\ Tasks = {"planner", "quality_agent", "change_agent", "verifier", "briefing_agent"}
    /\ PLAN["planner"] = {}
    /\ PLAN["quality_agent"] = {"planner"} /\ PLAN["change_agent"] = {"planner"}
    /\ PLAN["verifier"] = Workers
    /\ PLAN["briefing_agent"] = {"verifier"}
  BY DEF Tasks, PLAN, Workers

(* No task is its own premise, and what the tasks may wait for is a task.   *)
LEMMA Premises ==
    /\ \A t \in Tasks : t \notin PLAN[t] /\ PLAN[t] \subseteq Tasks
    /\ Workers \subseteq Tasks /\ "verifier" \in Tasks /\ "verifier" \notin Workers
  BY Plan DEF Workers

(* Some task that is not done has all its premises done.                    *)
LEMMA FirstUndone ==
    ASSUME ~ Succeeded(Tasks)
    PROVE  \E t \in Tasks : rows[t] # "succeeded" /\ Succeeded(PLAN[t])
  BY Plan DEF Succeeded, Workers

(* The pool of two threads is never exceeded.                               *)
LEMMA TwoFutures ==
    ASSUME TaskRows, InFlight
    PROVE  Cardinality(Futures) <= 2
<1>1. \A t \in Futures : t \in Tasks /\ rows[t] = "running" /\ Succeeded(PLAN[t])
  BY DEF TaskRows, InFlight, Futures
<1>2. \E a, b \in Tasks : Futures \subseteq {a, b}
  <2>1. CASE \E t \in Futures : t \notin Workers
    <3>1. PICK t \in Futures : t \notin Workers
      BY <2>1
    <3>2. \A u \in Tasks : rows[u] = "succeeded" => Succeeded(PLAN[u])
      BY DEF TaskRows
    <3>3. \A u \in Futures : u = t
      BY <1>1, <3>1, <3>2, Plan DEF Succeeded, Workers
    <3>4. QED
      BY <1>1, <3>3
  <2>2. CASE \A t \in Futures : t \in Workers
    BY <2>2, Plan DEF Workers
  <2>3. QED
    BY <2>1, <2>2
<1>3. PICK a, b \in Tasks : Futures \subseteq {a, b}
  BY <1>2
<1>4. IsFiniteSet({a, b}) /\ Cardinality({a, b}) <= 2
  <2>1. IsFiniteSet({a}) /\ Cardinality({a}) = 1
    BY FS_Singleton
  <2>2. {a, b} = {a} \cup {b}
    OBVIOUS
  <2>3. QED
    BY <2>1, <2>2, FS_AddElement
<1>5. Cardinality(Futures) <= Cardinality({a, b}) /\ Cardinality(Futures) \in Nat
      /\ Cardinality({a, b}) \in Nat
  BY <1>3, <1>4, FS_Subset, FS_CardinalityType
<1>6. QED
  BY <1>4, <1>5

----------------------------------------------------------------------------
(* Every step keeps the types. An attempt is counted only while the         *)
(* allowance lasts.                                                         *)
LEMMA TypesKept ==
    ASSUME IInv, [Next]_vars
    PROVE  TypeOK'
<1>1. TypeOK /\ TaskRows /\ RunRow
  BY DEF IInv
<1> USE <1>1 DEF TypeOK
<1>2. CASE UNCHANGED vars
  BY <1>2 DEF vars, saved, memory, files
<1>3. CASE Fingerprint \/ BeginRefused \/ Scheduled \/ Handled
  BY <1>3 DEF Fingerprint, BeginRefused, Scheduled, Handled, saved, files, Versions
<1>4. CASE Edit
  BY <1>4 DEF Edit, saved, memory
<1>5. CASE Begin
  <2>1. rows' \in [Tasks -> RowStatus]
    BY <1>5 DEF Begin, RowStatus
  <2>2. output' \in [Workers -> 0..MaxVersions]
    BY <1>5, EngineConstants, Premises DEF Begin
  <2>3. QED
    BY <1>5, <2>1, <2>2, EngineConstants DEF Begin, RunStatus, files
<1>6. ASSUME NEW t \in Tasks, Start(t) PROVE TypeOK'
  <2>1. allowance[t] + 1 \in 0..MaxAttempts
    BY <1>6, EngineConstants DEF Start, Ready, TaskRows, Open, Working
  <2>2. QED
    BY <1>6, <2>1 DEF Start, RowStatus, files
<1>7. ASSUME NEW t \in Tasks, Handle(t) PROVE TypeOK'
  <2>1. output' \in [Workers -> 0..MaxVersions]
    BY <1>7 DEF Handle
  <2>2. QED
    BY <1>7, <2>1 DEF Handle, RowStatus, files
<1>8. CASE Wait
  BY <1>8 DEF Wait, Futures, saved, files
<1>9. CASE Final \/ Advance
  <2>1. Blocked \in [Tasks -> RowStatus]
    BY DEF Blocked, RowStatus
  <2>2. QED
    BY <1>9, <2>1 DEF Final, Advance, RunStatus, files
<1>10. CASE Crash
  BY <1>10, EngineConstants DEF Crash, saved, files
<1>11. ASSUME NEW t \in Tasks, Thread(t) PROVE TypeOK'
  <2>1. CASE Execute(t)
    BY <1>11, <2>1 DEF Execute, Becomes, ThreadOnly, Done, saved, Versions
  <2>2. CASE ExecuteFail(t)
    BY <1>11, <2>2, EngineConstants DEF ExecuteFail, Becomes, ThreadOnly, Done, saved
  <2>3. QED
    BY <1>11, <2>1, <2>2 DEF Thread
<1>12. CASE Verify
  <2>1. /\ \E s \in {"same", "requalified", "recomputed"} \cup Done : Becomes("verifier", s)
        /\ ThreadOnly /\ UNCHANGED <<read, failures>> /\ undone' \in BOOLEAN
    BY <1>12 DEF Verify, CompareFirst, Recompute, CompareAgain, Recomputing, Done
  <2>2. QED
    BY <2>1 DEF Becomes, ThreadOnly, Recomputing, saved
<1>13. QED
  BY <1>2, <1>3, <1>5, <1>6, <1>7, <1>8, <1>9, <1>10, <1>11, <1>12, <1>4
     DEF Next, Orchestrate

----------------------------------------------------------------------------
(* The orchestrator's steps                                                 *)

(* Steps that save nothing leave what is said of the saved rows alone,      *)
(* unless they judge the files anew for a verifier that is done.            *)
LEMMA SavedKept ==
    ASSUME FinalVerdict, VerifiedInputs, UNCHANGED saved,
           rows["verifier"] = "succeeded" /\ ~ undone' => ~ undone
    PROVE  FinalVerdict' /\ VerifiedInputs'
  BY DEF FinalVerdict, VerifiedInputs, Succeeded, saved

(* The loop goes on, waits or ends, or the invocation ends or dies.         *)
LEMMA LoopKept ==
    ASSUME IInv, Fingerprint \/ BeginRefused \/ Scheduled \/ Wait \/ Handled \/ Crash
    PROVE  (RunRow /\ TaskRows /\ InFlight /\ Verifying)'
<1>1. TypeOK /\ RunRow /\ TaskRows /\ InFlight /\ Verifying /\ UNCHANGED saved /\ UNCHANGED files
  BY DEF IInv, Fingerprint, BeginRefused, Scheduled, Wait, Handled, Crash
<1>2. RunRow'
  BY <1>1 DEF TypeOK, RunRow, Fingerprint, BeginRefused, Scheduled, Wait, Handled, Crash,
              Versions, Working, Open, Succeeded, saved
<1>3. TaskRows'
  <2>1. CASE Scheduled
    <3>1. \A t \in Tasks : ~ Ready(t)
      BY <2>1 DEF Scheduled
    <3>2. pc' = "final" => \A t \in Tasks : rows[t] # "running"
      BY <1>1, <2>1 DEF Scheduled, Futures, InFlight, Working
    <3>3. QED
      BY <1>1, <2>1, <3>1, <3>2 DEF Scheduled, TaskRows, Open, Working, Ready, Succeeded, saved
  <2>2. CASE ~ Scheduled
    BY <1>1, <2>2 DEF TaskRows, Fingerprint, BeginRefused, Wait, Handled, Crash, Open, Working,
                      Ready, Succeeded, saved
  <2>3. QED
    BY <2>1, <2>2
<1>4. InFlight'
  BY <1>1 DEF TypeOK, InFlight, Fingerprint, BeginRefused, Scheduled, Wait, Handled, Crash,
              Working, Futures, saved
<1>5. Verifying'
  BY <1>1, Premises DEF Verifying, Confirmed, Fingerprint, BeginRefused, Scheduled, Wait, Handled,
                        Crash, saved, files
<1>6. QED
  BY <1>2, <1>3, <1>4, <1>5

(* A new invocation forgets all but the successes, and nothing runs.        *)
LEMMA BeginKept ==
    ASSUME IInv, Begin
    PROVE  (RunRow /\ TaskRows /\ InFlight /\ Verifying /\ FinalVerdict /\ VerifiedInputs)'
<1>1. TypeOK /\ RunRow /\ TaskRows /\ InFlight /\ VerifiedInputs
  BY DEF IInv
<1>2. /\ \A t \in Tasks : rows'[t] = IF rows[t] = "succeeded" THEN "succeeded" ELSE "pending"
      /\ \A t \in Workers : rows[t] = "succeeded" => output'[t] = output[t]
      /\ status' = "RUNNING" /\ fingerprint' = observed /\ observed \in Versions
      /\ pc' = "schedule"
      /\ status # "NONE" => fingerprint' = fingerprint
      /\ \A t \in Tasks : thread'[t] = "none" /\ allowance'[t] = 0
      /\ batch' = {} /\ undone' = undone
  BY <1>1 DEF Begin, TypeOK, RunRow, InFlight, Working, Versions, files
<1>3. RunRow' /\ FinalVerdict' /\ InFlight' /\ Verifying'
  BY <1>2, Premises DEF RunRow, FinalVerdict, InFlight, Verifying, Open, Working, Versions, Begin
<1>4. TaskRows'
  <2>1. \A t \in Tasks : rows'[t] \in {"running", "succeeded", "failed"} => Succeeded(PLAN[t])'
    BY <1>1, <1>2, Premises DEF TaskRows, Succeeded
  <2>2. QED
    BY <1>2, <2>1, EngineConstants DEF TaskRows, Begin
<1>5. VerifiedInputs'
  <2>1. SUFFICES ASSUME rows["verifier"] = "succeeded", ~ undone
                 PROVE  \A t \in Workers : output'[t] = fingerprint'
    BY <1>2, Premises DEF VerifiedInputs
  <2>2. Succeeded(Workers) /\ status # "NONE"
    BY <1>1, <2>1, Plan, Premises DEF TaskRows, RunRow
  <2>3. QED
    BY <1>1, <1>2, <2>1, <2>2 DEF VerifiedInputs, Succeeded
<1>6. QED
  BY <1>3, <1>4, <1>5

(* A task is started when its premises are done, and theirs stay done.      *)
LEMMA StartKept ==
    ASSUME IInv, NEW t \in Tasks, Start(t)
    PROVE  (RunRow /\ TaskRows /\ InFlight /\ Verifying /\ FinalVerdict /\ VerifiedInputs)'
<1>1. TypeOK /\ RunRow /\ TaskRows /\ InFlight /\ Verifying /\ VerifiedInputs
  BY DEF IInv
<1>2. /\ pc = "schedule" /\ pc' = pc /\ status = "RUNNING" /\ status' = status
      /\ fingerprint' = fingerprint /\ output' = output /\ UNCHANGED files /\ batch' = batch
      /\ rows[t] = "pending" /\ Succeeded(PLAN[t])
      /\ \A u \in Tasks : /\ rows'[u] = IF u = t THEN "running" ELSE rows[u]
                          /\ thread'[u] = IF u = t THEN "running" ELSE thread[u]
                          /\ u # t => allowance'[u] = allowance[u]
  BY <1>1 DEF Start, TypeOK, RunRow, Open, Working, Ready, files
<1>3. RunRow' /\ FinalVerdict'
  BY <1>1, <1>2 DEF RunRow, FinalVerdict, Open, Working
<1>4. TaskRows'
  <2>1. \A u \in Tasks : Succeeded(PLAN[u]) => Succeeded(PLAN[u])'
    BY <1>2, Premises DEF Succeeded
  <2>2. QED
    BY <1>1, <1>2, <2>1 DEF TaskRows, Open, Working
<1>5. InFlight'
  BY <1>1, <1>2 DEF InFlight, Working
<1>6. Verifying' /\ VerifiedInputs'
  BY <1>1, <1>2, Premises DEF Verifying, Confirmed, VerifiedInputs, files
<1>7. QED
  BY <1>3, <1>4, <1>5, <1>6

(* A result is saved while its task runs; nobody who needs it has started.  *)
LEMMA HandleKept ==
    ASSUME IInv, NEW t \in Tasks, Handle(t)
    PROVE  (RunRow /\ TaskRows /\ InFlight /\ Verifying /\ FinalVerdict /\ VerifiedInputs)'
<1>1. TypeOK /\ RunRow /\ TaskRows /\ InFlight /\ Verifying /\ VerifiedInputs
  BY DEF IInv
<1>2. /\ pc = "handle" /\ pc' = pc /\ status = "RUNNING" /\ status' = status
      /\ fingerprint' = fingerprint /\ UNCHANGED files /\ allowance' = allowance
      /\ t \in batch /\ batch' = batch \ {t} /\ rows[t] = "running" /\ thread[t] \in Done
      /\ \A u \in Tasks \ {t} : rows'[u] = rows[u] /\ thread'[u] = thread[u]
      /\ rows'[t] \in {"succeeded", "pending", "failed"} /\ thread'[t] = "none"
      /\ rows'[t] = "pending" => allowance[t] < MaxAttempts
      /\ rows'[t] = "succeeded" => thread[t] = "ok"
      /\ \A w \in Workers \ {t} : output'[w] = output[w]
  BY <1>1 DEF Handle, TypeOK, RunRow, InFlight, Open, Working, Retries, Done, files
<1>3. RunRow' /\ FinalVerdict'
  BY <1>1, <1>2 DEF RunRow, FinalVerdict, Open, Working
<1>4. \A u \in Tasks : Succeeded(PLAN[u]) => t \notin PLAN[u] /\ Succeeded(PLAN[u])'
  BY <1>2, Premises DEF Succeeded
<1>5. TaskRows'
  BY <1>1, <1>2, <1>4 DEF TaskRows, Open, Working
<1>6. InFlight'
  BY <1>1, <1>2 DEF InFlight, Working, TypeOK
<1>7. \/ t = "verifier" /\ UNCHANGED output
      \/ /\ t # "verifier" /\ rows'["verifier"] = rows["verifier"]
         /\ thread'["verifier"] = thread["verifier"]
         /\ thread["verifier"] # "none" \/ rows["verifier"] = "succeeded" => UNCHANGED output
  <2>1. CASE t \notin Workers
    BY <1>2, <2>1, Premises DEF Handle
  <2>2. CASE t \in Workers
    <3>1. ~ Succeeded(PLAN["verifier"])
      BY <1>2, <2>2, Plan DEF Succeeded
    <3>2. QED
      BY <1>1, <1>2, <2>2, <3>1, Premises DEF TaskRows, InFlight
  <2>3. QED
    BY <2>1, <2>2
<1>8. Verifying' /\ VerifiedInputs'
  <2>1. \A w \in Workers : thread'["verifier"] # "none" \/ rows["verifier"] = "succeeded"
                           => output'[w] = output[w]
    BY <1>2, <1>7
  <2>2. Verifying'
    BY <1>1, <1>2, <1>7, <2>1 DEF Verifying, Confirmed, Workers, files
  <2>3. VerifiedInputs'
    BY <1>1, <1>2, <1>7 DEF Verifying, VerifiedInputs, files
  <2>4. QED
    BY <2>2, <2>3
<1>9. QED
  BY <1>3, <1>5, <1>6, <1>8

(* At the end of the loop a task that is not done has failed, or lacks a    *)
(* premise.                                                                 *)
LEMMA FinalKept ==
    ASSUME IInv, Final
    PROVE  (RunRow /\ TaskRows /\ InFlight /\ Verifying /\ FinalVerdict /\ VerifiedInputs)'
<1>1. TypeOK /\ RunRow /\ TaskRows /\ InFlight /\ Verifying /\ VerifiedInputs
  BY DEF IInv
<1>2. /\ pc = "final" /\ pc' = "advance" /\ status = "RUNNING"
      /\ status' = IF Succeeded(Tasks) THEN "RUNNING" ELSE "FAILED"
      /\ \A t \in Tasks : rows'[t] = IF rows[t] = "pending" THEN "blocked" ELSE rows[t]
      /\ UNCHANGED <<fingerprint, output, thread, batch, files>>
  BY <1>1 DEF Final, Blocked, RunRow, Open
<1>3. \A t \in Tasks : /\ rows[t] \in {"pending", "succeeded", "failed"}
                       /\ rows[t] = "pending" <=> ~ Succeeded(PLAN[t])
  BY <1>1, <1>2 DEF TypeOK, RowStatus, TaskRows, Open, Ready
<1>4. \A ts \in SUBSET Tasks : Succeeded(ts)' <=> Succeeded(ts)
  BY <1>2 DEF Succeeded
<1>5. RunRow'
  BY <1>1, <1>2, <1>4 DEF RunRow, Open, Working
<1>6. TaskRows'
  BY <1>2, <1>3, <1>4, Premises DEF TaskRows, Open, Working
<1>7. InFlight' /\ Verifying' /\ VerifiedInputs'
  BY <1>1, <1>2, Premises DEF InFlight, Verifying, Confirmed, VerifiedInputs, Working, files
<1>8. FinalVerdict'
  <2>1. SUFFICES ASSUME ~ Succeeded(Tasks)
                 PROVE  /\ \E t \in Tasks : rows'[t] = "failed"
                        /\ \A t \in Tasks : /\ rows'[t] \in {"succeeded", "failed", "blocked"}
                                            /\ rows'[t] = "blocked" <=> ~ Succeeded(PLAN[t])'
    BY <1>2, <1>4 DEF FinalVerdict
  <2>2. \E t \in Tasks : rows'[t] = "failed"
    BY <1>2, <1>3, <2>1, FirstUndone
  <2>3. QED
    BY <1>2, <1>3, <1>4, <2>2, Premises
<1>9. QED
  BY <1>5, <1>6, <1>7, <1>8

(* A run that is still running has its briefing.                            *)
LEMMA AdvanceKept ==
    ASSUME IInv, Advance
    PROVE  (RunRow /\ TaskRows /\ InFlight /\ Verifying /\ FinalVerdict /\ VerifiedInputs)'
<1>1. RunRow /\ TaskRows /\ InFlight /\ Verifying /\ FinalVerdict /\ VerifiedInputs
  BY DEF IInv
<1>2. /\ pc = "advance" /\ pc' = "down" /\ status \in {"RUNNING", "FAILED"}
      /\ status' = IF status = "RUNNING" THEN "WAITING_FOR_APPROVAL" ELSE status
      /\ UNCHANGED <<fingerprint, rows, output, thread, batch, files>>
  BY <1>1 DEF Advance, RunRow
<1>3. RunRow' /\ FinalVerdict'
  BY <1>1, <1>2 DEF RunRow, FinalVerdict, Open, Working, Succeeded
<1>4. TaskRows' /\ InFlight'
  BY <1>1, <1>2 DEF TaskRows, InFlight, Open, Working, Succeeded
<1>5. Verifying' /\ VerifiedInputs'
  BY <1>1, <1>2, Premises DEF Verifying, Confirmed, VerifiedInputs, files
<1>6. QED
  BY <1>3, <1>4, <1>5

----------------------------------------------------------------------------
(* The files and the threads *)

(* Files that become the run's again under the verifier are noted as such.  *)
LEMMA FilesKept ==
    ASSUME IInv, Edit
    PROVE  (RunRow /\ TaskRows /\ InFlight /\ Verifying)'
<1>1. TypeOK /\ RunRow /\ TaskRows /\ InFlight /\ Verifying /\ UNCHANGED <<saved, memory>>
  BY DEF IInv, Edit
<1>2. RunRow' /\ TaskRows' /\ InFlight'
  BY <1>1 DEF RunRow, TaskRows, InFlight, Succeeded, Ready, saved, memory
<1>3. /\ undone => undone'
      /\ thread["verifier"] \in Recomputing /\ input' = fingerprint => undone'
  BY DEF Edit
<1>4. Verifying'
  BY <1>1, <1>3 DEF Verifying, Confirmed, Recomputing, saved, memory
<1>5. QED
  BY <1>2, <1>4

(* A thread changes its own future only.                                    *)
LEMMA ThreadKept ==
    ASSUME IInv, NEW t \in Tasks, NEW s, thread[t] # "none", thread[t] \notin Done, s # "none",
           Becomes(t, s), ThreadOnly
    PROVE  (RunRow /\ TaskRows /\ InFlight)'
<1>1. RunRow /\ TaskRows /\ InFlight
  BY DEF IInv
<1>2. RunRow' /\ TaskRows'
  BY <1>1 DEF RunRow, TaskRows, ThreadOnly, Succeeded, Ready, saved
<1>3. InFlight'
  BY <1>1 DEF IInv, TypeOK, InFlight, Becomes, ThreadOnly, saved
<1>4. QED
  BY <1>2, <1>3

(* A worker thread that runs a task's handler keeps the invariant's parts.  *)
LEMMA TaskThreadKept ==
    ASSUME IInv, NEW t \in Tasks, Thread(t)
    PROVE  (RunRow /\ TaskRows /\ InFlight /\ Verifying)'
<1>1. /\ thread[t] = "running" /\ ThreadOnly
      /\ \E s \in Done : Becomes(t, s) /\ (t = "verifier" => s # "ok")
      /\ undone' = undone
  BY DEF Thread, Execute, ExecuteFail, Done, ThreadOnly
<1>2. RunRow' /\ TaskRows' /\ InFlight'
  BY <1>1, ThreadKept DEF Done
<1>3. Verifying'
  BY <1>1 DEF IInv, TypeOK, Verifying, Confirmed, Becomes, ThreadOnly, Done, saved
<1>4. QED
  BY <1>2, <1>3

(* Between the two equal fingerprints of the verifier no file was changed,  *)
(* or it was changed back.                                                  *)
LEMMA VerifyKept ==
    ASSUME IInv, Verify
    PROVE  (RunRow /\ TaskRows /\ InFlight /\ Verifying)'
<1>1. TypeOK /\ Verifying /\ ThreadOnly
  BY DEF IInv, Verify, CompareFirst, Recompute, CompareAgain
<1>2. PICK s \in {"same", "requalified", "recomputed"} \cup Done : Becomes("verifier", s)
  BY DEF Verify, CompareFirst, Recompute, CompareAgain, Done
<1>3. thread["verifier"] # "none" /\ thread["verifier"] \notin Done /\ s # "none"
  BY DEF Verify, CompareFirst, Recompute, CompareAgain, Done
<1>4. RunRow' /\ TaskRows' /\ InFlight'
  BY <1>1, <1>2, <1>3, Premises, ThreadKept
<1>5. /\ thread'["verifier"] = s
      /\ UNCHANGED <<fingerprint, output, input>>
      /\ thread["verifier"] # "running" => undone' = undone
  BY <1>1, <1>2, Premises DEF TypeOK, Becomes, ThreadOnly, saved,
                             Verify, CompareFirst, Recompute, CompareAgain
<1>6. Verifying'
  <2>1. CASE CompareFirst
    <3>1. s = (IF input = fingerprint THEN "same" ELSE "fatal")
      BY <1>1, <1>5, <2>1, Premises DEF CompareFirst, Becomes, Unchanged, TypeOK
    <3>2. QED
      BY <1>5, <3>1 DEF Verifying
  <2>2. CASE Recompute("quality_agent", "same", "requalified")
    <3>1. /\ thread["verifier"] = "same"
          /\ s = (IF output["quality_agent"] = input THEN "requalified" ELSE "fatal")
      BY <1>1, <1>5, <2>2, Premises DEF Recompute, Becomes, TypeOK
    <3>2. QED
      BY <1>1, <1>5, <3>1 DEF Verifying, Confirmed, Workers
  <2>3. CASE Recompute("change_agent", "requalified", "recomputed")
    <3>1. /\ thread["verifier"] = "requalified"
          /\ s = (IF output["change_agent"] = input THEN "recomputed" ELSE "fatal")
      BY <1>1, <1>5, <2>3, Premises DEF Recompute, Becomes, TypeOK
    <3>2. QED
      BY <1>1, <1>5, <3>1 DEF Verifying, Confirmed, Workers
  <2>4. CASE CompareAgain
    <3>1. /\ thread["verifier"] = "recomputed"
          /\ s = (IF input = fingerprint THEN "ok" ELSE "fatal")
      BY <1>1, <1>5, <2>4, Premises DEF CompareAgain, Becomes, Unchanged, TypeOK
    <3>2. QED
      BY <1>1, <1>5, <3>1 DEF Verifying, Confirmed, Workers
  <2>5. QED
    BY <2>1, <2>2, <2>3, <2>4 DEF Verify
<1>7. QED
  BY <1>4, <1>6

----------------------------------------------------------------------------
(* The invariant *)

(* The invariant holds before the first invocation.                         *)
LEMMA InitKept == Init => IInv
<1>1. SUFFICES ASSUME Init PROVE IInv
  OBVIOUS
<1>2. TypeOK
  <2>1. undone \in BOOLEAN
    BY <1>1 DEF Init
  <2>2. QED
    BY <1>1, <2>1, EngineConstants DEF Init, TypeOK, RunStatus, RowStatus, Versions
<1>3. RunRow /\ TaskRows /\ InFlight
  BY <1>1 DEF Init, RunRow, TaskRows, InFlight, Open, Working
<1>4. Verifying /\ FinalVerdict /\ VerifiedInputs
  BY <1>1, Premises DEF Init, Verifying, FinalVerdict, VerifiedInputs
<1>5. QED
  BY <1>2, <1>3, <1>4 DEF IInv

(* Every step of run_workflow, of its threads and of the files keeps it.    *)
LEMMA NextKept ==
    ASSUME IInv, [Next]_vars
    PROVE  IInv'
<1>1. TypeOK'
  BY TypesKept
<1>2. FinalVerdict /\ VerifiedInputs
  BY DEF IInv
<1>3. CASE UNCHANGED vars
  BY <1>3, SavedKept, <1>1
     DEF IInv, RunRow, TaskRows, InFlight, Verifying, Confirmed, Succeeded, Ready, vars, saved, memory, files
<1>4. CASE Fingerprint \/ BeginRefused \/ Scheduled \/ Wait \/ Handled \/ Crash \/ Edit
  <2>1. UNCHANGED saved
    BY <1>4 DEF Fingerprint, BeginRefused, Scheduled, Wait, Handled, Crash, Edit
  <2>2. ~ undone' => ~ undone
    BY <1>4 DEF Fingerprint, BeginRefused, Scheduled, Wait, Handled, Crash, Edit, files
  <2>3. QED
    BY <1>1, <1>2, <1>4, <2>1, <2>2, SavedKept, LoopKept, FilesKept DEF IInv
<1>5. CASE Begin \/ (\E t \in Tasks : Start(t) \/ Handle(t)) \/ Final \/ Advance
  BY <1>1, <1>5, BeginKept, StartKept, HandleKept, FinalKept, AdvanceKept DEF IInv
<1>6. CASE (\E t \in Tasks : Thread(t)) \/ Verify
  <2>1. UNCHANGED saved
    BY <1>6 DEF Thread, Execute, ExecuteFail, Verify, CompareFirst, Recompute, CompareAgain, ThreadOnly
  <2>2. UNCHANGED undone \/ rows["verifier"] = "running"
    BY <1>6, Premises DEF IInv, InFlight, Thread, Execute, ExecuteFail,
                          Verify, CompareFirst, Recompute, CompareAgain
  <2>3. QED
    BY <1>1, <1>2, <1>6, <2>1, <2>2, SavedKept, TaskThreadKept, VerifyKept DEF IInv
<1>7. QED
  BY <1>3, <1>4, <1>5, <1>6 DEF Next, Orchestrate

(* In every reachable state of the engine its rows, futures and threads,    *)
(* the run's row and the versions that the outputs came from fit together.  *)
THEOREM Invariance == Spec => []IInv
  BY InitKept, NextKept, PTL DEF Spec

(* The rows, the futures and the threads of _run_tasks fit each other and   *)
(* the graph of tasks, whatever failed, was retried or was left by a crash: *)
(* nothing runs without its premises, and the pool of two is enough.        *)
THEOREM ScheduleAlwaysSound == Spec => []ScheduleSound
<1>1. ASSUME IInv PROVE ScheduleSound
  <2>1. TypeOK /\ TaskRows /\ InFlight
    BY <1>1 DEF IInv
  <2>2. DependenciesFirst
    BY <2>1 DEF DependenciesFirst, TaskRows, InFlight
  <2>3. FuturesTracked
    BY <2>1, TwoFutures DEF FuturesTracked, InFlight, Futures, Working
  <2>4. QED
    BY <2>1, <2>2, <2>3 DEF ScheduleSound
<1>2. QED
  BY <1>1, Invariance, PTL

(* A run asks for approval only with all its tasks done, and one that       *)
(* failed has a task that failed and blocks exactly what lacks a premise.   *)
THEOREM VerdictFinal == Spec => []FinalVerdict
<1>1. IInv => FinalVerdict
  BY DEF IInv
<1>2. QED
  BY <1>1, Invariance, PTL

(* Verified results come from the bytes the run was created from, whoever   *)
(* edits the files whenever, and puts them back before the verifier took    *)
(* its first fingerprint or after its second.  Of files that were other     *)
(* than the run's, and the run's again, in between, _verify promises        *)
(* nothing, and neither does this.                                          *)
THEOREM InputsVerified == Spec => []VerifiedInputs
<1>1. IInv => VerifiedInputs
  BY DEF IInv
<1>2. QED
  BY <1>1, Invariance, PTL

(* No retry, failure, crash or later invocation does a task again that has  *)
(* succeeded, or changes what it put out.                                   *)
THEOREM SuccessAlwaysKept == Spec => SuccessKept
<1>1. ASSUME IInv, [Next]_vars, NEW t \in Tasks, rows[t] = "succeeded"
      PROVE  rows'[t] = "succeeded" /\ (t \in Workers => output'[t] = output[t])
  <2>1. TypeOK /\ InFlight
    BY <1>1 DEF IInv
  <2>2. CASE Begin
    BY <1>1, <2>2 DEF Begin
  <2>3. ASSUME NEW u \in Tasks, Start(u) PROVE rows'[t] = rows[t] /\ UNCHANGED output
    BY <1>1, <2>1, <2>3 DEF Start, Ready, TypeOK
  <2>4. ASSUME NEW u \in Tasks, Handle(u)
        PROVE  rows'[t] = rows[t] /\ (t \in Workers => output'[t] = output[t])
    <3>1. u # t
      BY <1>1, <2>1, <2>4 DEF Handle, InFlight, Done
    <3>2. QED
      BY <2>1, <2>4, <3>1 DEF Handle, TypeOK
  <2>5. CASE Final
    BY <1>1, <2>5 DEF Final, Blocked
  <2>6. CASE \/ UNCHANGED vars \/ Fingerprint \/ BeginRefused \/ Scheduled \/ Wait \/ Handled
             \/ Advance \/ Crash \/ Edit \/ Verify \/ \E u \in Tasks : Thread(u)
    <3>1. UNCHANGED rows /\ UNCHANGED output
      BY <2>6 DEF vars, saved, Fingerprint, BeginRefused, Scheduled, Wait, Handled, Advance, Crash,
                  Edit, Verify, CompareFirst, Recompute, CompareAgain, Thread, Execute,
                  ExecuteFail, ThreadOnly
    <3>2. QED
      BY <1>1, <3>1
  <2>7. QED
    BY <1>1, <2>2, <2>3, <2>4, <2>5, <2>6 DEF Next, Orchestrate
<1>2. IInv /\ [Next]_vars
      => [\A t \in Tasks : rows[t] = "succeeded" =>
            /\ rows'[t] = "succeeded"
            /\ t \in Workers => output'[t] = output[t]]_vars
  BY <1>1
<1>3. QED
  BY <1>2, Invariance, PTL DEF Spec, SuccessKept

----------------------------------------------------------------------------
(* The lifecycle of the run *)

SeenRun == [status |-> status, limit |-> FALSE, asked |-> status = "WAITING_FOR_APPROVAL"]

(* What a step of the engine does to the run's row.                         *)
LEMMA RowMoves ==
    ASSUME IInv, [Next]_vars
    PROVE  \/ UNCHANGED status
           \/ status \in {"NONE", "FAILED"} /\ status' = "RUNNING"
           \/ status = "RUNNING" /\ status' \in {"FAILED", "WAITING_FOR_APPROVAL"}
<1>1. RunRow /\ TypeOK
  BY DEF IInv
<1>2. CASE Begin
  BY <1>1, <1>2 DEF Begin, RunRow, TypeOK, RunStatus, Checkpoints
<1>3. CASE Final \/ Advance
  BY <1>1, <1>3 DEF Final, Advance, RunRow, Open
<1>4. CASE ~ (Begin \/ Final \/ Advance)
  BY <1>4 DEF Next, Orchestrate, vars, saved, Fingerprint, BeginRefused, Start, Handle, Scheduled, Wait,
              Handled, Crash, Edit, Verify, CompareFirst, Recompute, CompareAgain,
              Thread, Execute, ExecuteFail, ThreadOnly
<1>5. QED
  BY <1>2, <1>3, <1>4

(* What asking for approval makes of a run.                                 *)
LEMMA PausedFields ==
    ASSUME NEW a, NEW b \in BOOLEAN, NEW c \in BOOLEAN,
           NEW r, r = [status |-> a, limit |-> b, asked |-> c],
           NEW s, s = [r EXCEPT !.status = "WAITING_FOR_APPROVAL", !.asked = TRUE]
    PROVE  s = [status |-> "WAITING_FOR_APPROVAL", limit |-> b, asked |-> TRUE]
  OBVIOUS

(* One invocation of run_workflow after another moves its run by the steps  *)
(* that Queue, Ingestion and Delivery expect of a workflow.                 *)
THEOREM EngineImplementsLifecycle == Spec => ImplementsLifecycle
<1>1. Init => Lifecycle!Init
  BY DEF Init, Lifecycle!Init, Lifecycle!NoRun
<1>2. IInv /\ [Next]_vars => [Lifecycle!Next]_SeenRun
  <2>1. SUFFICES ASSUME IInv, [Next]_vars, ~ UNCHANGED status PROVE Lifecycle!Next
    BY DEF SeenRun
  <2>2. SeenRun' \in Lifecycle!Run
    BY <2>1, RowMoves DEF SeenRun, Lifecycle!Run, Lifecycle!RunStatus
  <2>3. Lifecycle!RunStep(SeenRun, SeenRun')
    <3> DEFINE no  == FALSE
               was == status = "WAITING_FOR_APPROVAL"
               is  == status' = "WAITING_FOR_APPROVAL"
    <3>1. /\ SeenRun = [status |-> status, limit |-> no, asked |-> was]
          /\ SeenRun' = [status |-> status', limit |-> no, asked |-> is]
      BY DEF SeenRun
    <3>2. /\ no \in BOOLEAN /\ was \in BOOLEAN /\ is \in BOOLEAN /\ ~ no
          /\ status # "WAITING_FOR_APPROVAL" => was = FALSE
          /\ status' # "WAITING_FOR_APPROVAL" => is = FALSE
          /\ status' = "WAITING_FOR_APPROVAL" => is = TRUE
      OBVIOUS
    <3> HIDE DEF no, was, is
    <3>3. CASE status = "NONE" /\ status' = "RUNNING"
      <4>1. was = is
        BY <3>3, <3>2
      <4>2. SeenRun' = [SeenRun EXCEPT !.status = "RUNNING"]
            /\ SeenRun.status = "NONE" /\ SeenRun.limit = no
        BY <3>3, <3>1, <3>2, <4>1
      <4>3. SeenRun = Lifecycle!NoRun
        BY <3>3 DEF SeenRun, Lifecycle!NoRun
      <4>4. QED
        BY <3>2, <4>2, <4>3 DEF Lifecycle!RunStep, Lifecycle!RunCreated
    <3>4. CASE status = "FAILED" /\ status' = "RUNNING"
      <4>1. was = is
        BY <3>4, <3>2
      <4>2. SeenRun' = [SeenRun EXCEPT !.status = "RUNNING"]
            /\ SeenRun.status = "FAILED" /\ SeenRun.limit = no
        BY <3>4, <3>1, <3>2, <4>1
      <4>3. QED
        BY <3>2, <4>2 DEF Lifecycle!RunStep, Lifecycle!RunRestarted
    <3>5. CASE status = "RUNNING" /\ status' = "FAILED"
      <4>1. was = is
        BY <3>5, <3>2
      <4>2. SeenRun' = [SeenRun EXCEPT !.status = "FAILED"]
            /\ SeenRun.status = "RUNNING" /\ SeenRun.limit = no
        BY <3>5, <3>1, <3>2, <4>1
      <4>3. QED
        BY <3>2, <4>2 DEF Lifecycle!RunStep, Lifecycle!RunFailed
    <3>6. CASE status = "RUNNING" /\ status' = "WAITING_FOR_APPROVAL"
      <4>1. is = TRUE
        BY <3>6, <3>2
      <4>2. SeenRun' = [SeenRun EXCEPT !.status = "WAITING_FOR_APPROVAL", !.asked = TRUE]
            /\ SeenRun.status = "RUNNING" /\ SeenRun.limit = no
        BY <3>6, <3>1, <3>2, <4>1, PausedFields
      <4>3. QED
        BY <3>2, <4>2 DEF Lifecycle!RunStep, Lifecycle!RunPaused
    <3>7. QED
      BY <2>1, <3>3, <3>4, <3>5, <3>6, RowMoves
  <2>4. QED
    BY <2>2, <2>3 DEF Lifecycle!Next, SeenRun
<1>3. QED
  BY <1>1, <1>2, Invariance, PTL
     DEF Spec, ImplementsLifecycle, Lifecycle!Spec, SeenRun
============================================================================
