------------------------------- MODULE Reports -------------------------------
(***************************************************************************)
(* The report files of one run: write_workflow_reports and _atomic_write   *)
(* of opscheck/artifacts.py, called by _publish_result of workflow.py from *)
(* everything that holds the run lock, and by _refresh_report of worker.py *)
(* once a worker has settled its delivery.                                 *)
(*                                                                         *)
(* The content of a file is the version of the run and of the job's queue  *)
(* row it tells of.  What a run's later versions show only grows.          *)
(***************************************************************************)
EXTENDS Naturals, Sequences, FiniteSets

CONSTANTS
    Clients,        \* flow, decide and resume: processes that execute the run
    Workers,        \* processes that settle a delivery and refresh the reports
    Files,          \* the report files in the order they are written
    Shows,          \* the files each version of the run has content for
    MaxVersion,     \* bound: versions of the run
    MaxSettled,     \* bound: changes of the queue row
    NoOne

Processes == Clients \cup Workers
FileSet == {Files[i] : i \in 1..Len(Files)}
Versions == 1..MaxVersion

ASSUME ReportsConstants ==
    /\ Clients \cap Workers = {} /\ NoOne \notin Processes
    /\ Files \in Seq(FileSet) /\ Len(Files) > 0
    /\ \A i, j \in 1..Len(Files) : Files[i] = Files[j] => i = j
    /\ Shows \in [Versions -> SUBSET FileSet]
    /\ MaxVersion \in Nat \ {0} /\ \A v \in Versions : Files[1] \in Shows[v]
    /\ \A v, w \in Versions : v <= w => Shows[v] \subseteq Shows[w]
    /\ MaxSettled \in Nat

Absent == [run |-> 0, queue |-> 0]
Contents == [run : 0..MaxVersion, queue : 0..MaxSettled]

VARIABLES
    run,            \* committed version of the run
    queued,         \* committed version of the job's row
    file,           \* what each report file tells
    blocked,        \* destinations that are a directory or an alias of an input
    lock,           \* the holder of the run lock
    pc,
    shown,          \* the result a process is writing
    at,             \* the place of the next file to write
    temps,          \* processes whose temporary file exists
    failed,         \* the latest publication did not end
    skipped,        \* a settlement is not told yet, and nobody is about to
    crashed         \* some process was killed

vars == <<run, queued, file, blocked, lock, pc, shown, at, temps, failed, skipped, crashed>>

Stages == {"idle", "settled", "locked", "reading", "prepared", "writing", "replacing"}

TypeOK ==
    /\ run \in Versions /\ queued \in 0..MaxSettled
    /\ file \in [FileSet -> Contents]
    /\ blocked \subseteq FileSet
    /\ lock \in Processes \cup {NoOne}
    /\ pc \in [Processes -> Stages]
    /\ shown \in [Processes -> Contents]
    /\ at \in [Processes -> 1..(Len(Files) + 1)]
    /\ temps \subseteq Processes
    /\ {failed, skipped, crashed} \subseteq BOOLEAN

Init ==
    /\ run = 1 /\ queued = 0
    /\ file = [f \in FileSet |-> Absent]
    /\ blocked \in SUBSET FileSet
    /\ lock = NoOne
    /\ pc = [p \in Processes |-> "idle"]
    /\ shown = [p \in Processes |-> Absent]
    /\ at = [p \in Processes |-> 1]
    /\ temps = {} /\ failed = TRUE /\ skipped = FALSE /\ crashed = FALSE

Goto(p, stage) == pc' = [pc EXCEPT ![p] = stage]

(* the end of the with block of _run_lock, whether by a return or not       *)
Leave(p) ==
    /\ Goto(p, "idle")
    /\ lock' = IF lock = p THEN NoOne ELSE lock
    /\ shown' = [shown EXCEPT ![p] = Absent]
    /\ at' = [at EXCEPT ![p] = 1]

----------------------------------------------------------------------------
(* faulty: the lock file is only looked at                                  *)
AlwaysFree(p) == TRUE

(* _run_lock does not wait                                                  *)
Free(p) == lock = NoOne

(* a client that finds the run busy raises RunBusyError and has done nothing *)
Lock(p) ==
    /\ pc[p] = IF p \in Clients THEN "idle" ELSE "settled"
    /\ Free(p)
    /\ lock' = p
    /\ Goto(p, IF p \in Clients THEN "locked" ELSE "reading")
    /\ UNCHANGED <<run, queued, file, blocked, shown, at, temps, failed, skipped, crashed>>

(* tasks, a decision or a revision are committed                            *)
Change(p) ==
    /\ pc[p] = "locked" /\ run < MaxVersion
    /\ run' = run + 1
    /\ failed' = TRUE
    /\ UNCHANGED <<queued, file, blocked, lock, pc, shown, at, temps, skipped, crashed>>

(* a decision is refused, or the work ends with an error                    *)
GiveUp(p) ==
    /\ pc[p] = "locked"
    /\ Leave(p)
    /\ UNCHANGED <<run, queued, file, blocked, temps, failed, skipped, crashed>>

(* _result: the run's rows; nobody else changes them under the lock         *)
ReadRun(p) ==
    /\ pc[p] \in {"locked", "reading"}
    /\ shown' = [shown EXCEPT ![p] = [run |-> run, queue |-> 0]]
    /\ Goto(p, "prepared")
    /\ UNCHANGED <<run, queued, file, blocked, lock, at, temps, failed, skipped, crashed>>

(* faulty: only the first destination is checked                            *)
FirstAllowed(p) == Files[1] \notin blocked

(* _protect_inputs, for every destination                                   *)
Allowed(p) == Shows[shown[p].run] \cap blocked = {}

(* the job's row is read, and the destinations are checked before a write   *)
Prepare(p) ==
    /\ pc[p] = "prepared"
    /\ IF Allowed(p)
       THEN /\ shown' = [shown EXCEPT ![p] = [run |-> shown[p].run, queue |-> queued]]
            /\ Goto(p, "writing")
            /\ UNCHANGED <<lock, at, failed>>
       ELSE Leave(p) /\ failed' = TRUE
    /\ UNCHANGED <<run, queued, file, blocked, temps, skipped, crashed>>

Following(p) == at[p] + 1

(* the next file has no content yet                                         *)
PassOver(p) ==
    /\ pc[p] = "writing" /\ at[p] <= Len(Files)
    /\ Files[at[p]] \notin Shows[shown[p].run]
    /\ at' = [at EXCEPT ![p] = Following(p)]
    /\ UNCHANGED <<run, queued, file, blocked, lock, pc, shown, temps, failed, skipped, crashed>>

WriteTemp(p) ==
    /\ pc[p] = "writing" /\ at[p] <= Len(Files)
    /\ Files[at[p]] \in Shows[shown[p].run]
    /\ temps' = temps \cup {p}
    /\ Goto(p, "replacing")
    /\ UNCHANGED <<run, queued, file, blocked, lock, shown, at, failed, skipped, crashed>>

Replace(p) ==
    /\ pc[p] = "replacing"
    /\ file' = [file EXCEPT ![Files[at[p]]] = shown[p]]
    /\ temps' = temps \ {p}
    /\ at' = [at EXCEPT ![p] = Following(p)]
    /\ Goto(p, "writing")
    /\ UNCHANGED <<run, queued, blocked, lock, shown, failed, skipped, crashed>>

(* the finally of _atomic_write                                             *)
Unlinked(p) == temps \ {p}

(* a write or a replacement raises OSError                                  *)
Fail(p) ==
    /\ pc[p] \in {"writing", "replacing"}
    /\ temps' = Unlinked(p)
    /\ Leave(p) /\ failed' = TRUE
    /\ UNCHANGED <<run, queued, file, blocked, skipped, crashed>>

Published(p) ==
    /\ pc[p] = "writing" /\ at[p] > Len(Files)
    /\ failed' = FALSE
    /\ skipped' = (skipped /\ shown[p].queue # queued)
    /\ Leave(p)
    /\ UNCHANGED <<run, queued, file, blocked, temps, crashed>>

(* the process is killed: its lock goes, its temporary file stays           *)
Crash(p) ==
    /\ pc[p] # "idle"
    /\ crashed' = TRUE
    /\ skipped' = (skipped \/ p \in Workers)
    /\ failed' = (failed \/ pc[p] \in {"writing", "replacing"})
    /\ Leave(p)
    /\ UNCHANGED <<run, queued, file, blocked, temps>>

----------------------------------------------------------------------------
(* faulty: only the first delivery is refreshed                             *)
RefreshedOnce(p) == queued < 1

(* a delivery that came to its end is refreshed, as far as the worker lives  *)
Refreshed(p) == TRUE

(* queue.finish commits without the run lock                                *)
Settle(p) ==
    /\ p \in Workers /\ pc[p] = "idle" /\ queued < MaxSettled
    /\ queued' = queued + 1
    /\ Goto(p, IF Refreshed(p) THEN "settled" ELSE "idle")
    /\ UNCHANGED <<run, file, blocked, lock, shown, at, temps, failed, skipped, crashed>>

(* a delivery deferred because its run is busy, or handed back on Ctrl+C,   *)
(* is settled as well, and process leaves the reports as they are           *)
SettleUntold(p) ==
    /\ p \in Workers /\ pc[p] = "idle" /\ queued < MaxSettled
    /\ queued' = queued + 1
    /\ skipped' = TRUE
    /\ UNCHANGED <<run, file, blocked, lock, pc, shown, at, temps, failed, crashed>>

(* process passes over a RunBusyError of the refresh                        *)
Skip(p) ==
    /\ pc[p] = "settled" /\ p \in Workers /\ ~ Free(p)
    /\ Goto(p, "idle")
    /\ skipped' = TRUE
    /\ UNCHANGED <<run, queued, file, blocked, lock, shown, at, temps, failed, crashed>>

(* the operator clears a destination                                        *)
Unblock(f) ==
    /\ f \in blocked
    /\ blocked' = blocked \ {f}
    /\ UNCHANGED <<run, queued, file, lock, pc, shown, at, temps, failed, skipped, crashed>>

Step(p) ==
    \/ Lock(p) \/ Change(p) \/ GiveUp(p) \/ ReadRun(p) \/ Prepare(p)
    \/ PassOver(p) \/ WriteTemp(p) \/ Replace(p) \/ Published(p)
    \/ Fail(p) \/ Crash(p) \/ Settle(p) \/ SettleUntold(p) \/ Skip(p)

Next == (\E p \in Processes : Step(p)) \/ (\E f \in FileSet : Unblock(f))

Spec == Init /\ [][Next]_vars

----------------------------------------------------------------------------
AtRest == \A p \in Processes : pc[p] = "idle"

(* A report never goes back to an earlier state of the run, whoever writes  *)
(* it and however publications fail: writers hold the run lock.             *)
NeverBack == [][\A f \in FileSet : file'[f].run >= file[f].run]_vars

(* A publication that fails in the middle leaves report.json, the first to  *)
(* be written, at least as new as every other report.                       *)
FirstIsNewest == \A f \in FileSet : file[Files[1]].run >= file[f].run

(* Unless the latest publication failed or was cut short, the reports at    *)
(* rest all tell the committed state of the run, from one snapshot.         *)
AgreeAtRest ==
    AtRest /\ ~ failed =>
        \A f \in Shows[run] : file[f].run = run /\ file[f] = file[Files[1]]

(* The reports at rest tell the settled delivery, unless the refresh found  *)
(* the run busy or its worker died before it, or there was none to be: the  *)
(* delivery was deferred (worker.py 104) or interrupted by Ctrl+C (89-94).  *)
SettlementShown ==
    AtRest /\ ~ failed /\ ~ skipped => \A f \in Shows[run] : file[f].queue = queued

(* A destination that is not free of directories and aliases of inputs      *)
(* refuses the whole publication before its first file.                     *)
AllOrNothing == [][file' # file => Shows[run] \cap blocked = {}]_vars

(* Only a killed process leaves a temporary file.                           *)
NoLitter == AtRest /\ ~ crashed => temps = {}

(* What the reports tell fits together, whichever publication failed.       *)
ReportsConsistent == FirstIsNewest /\ AgreeAtRest /\ SettlementShown /\ NoLitter

(* A publication only brings the reports forward, and begins only if it may *)
(* write them all.                                                          *)
PublicationSafe == NeverBack /\ AllOrNothing
=============================================================================
