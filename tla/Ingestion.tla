------------------------------ MODULE Ingestion -----------------------------
(***************************************************************************)
(* The identity of events (opscheck/ingestion.py, opscheck/manifests.py):  *)
(* what makes two submissions the same work, and how receipt, enqueue and  *)
(* ingestion, in any number of processes that may die at any step, reserve *)
(* one workflow run for it.                                                *)
(*                                                                         *)
(* A manifest names an external event id (or none) and a folder with the   *)
(* four source files; their bytes and the processing key are one value,    *)
(* the content.  The path-independent event fingerprint is the content;    *)
(* the expected workflow fingerprint binds the content to the folder.      *)
(* Events and runs are numbered as they are inserted and reserved.         *)
(***************************************************************************)
EXTENDS EventStore, Naturals, Sequences, FiniteSets

CONSTANTS
    Processes,
    Contents,       \* contents of the source files, with the processing key
    Ids,            \* external event ids
    Folders,
    MaxEdits,       \* bound: edits of the source files
    MaxCrashes,     \* bound: processes that die
    MaxFailures,    \* bound: executions that fail with intact files
    Moving,         \* bound: the reserved runs that are moved on once created
    MaxClaims       \* bound: claim_attempts is counted up to this

None == "none"      \* no id; no content: the manifest or a source is not valid

ASSUME IngestionConstants ==
    /\ None \notin Contents /\ None \notin Ids /\ Folders # {}
    /\ {MaxEdits, MaxCrashes, MaxFailures} \subseteq Nat
    /\ Moving \subseteq Nat
    /\ MaxClaims \in Nat \ {0}

VARIABLES
    files,          \* files[f]: the content of folder f now
    events,         \* the table ingestion_events, with each event's job
    aliases,        \* aliases[x]: the row of external_event_ids
    runs,           \* the reserved runs
    pc,             \* where process p is
    doc,            \* doc[p]: the manifest p read and hashed
    target,         \* target[p]: the event p works on
    row,            \* row[p]: what p read of it before its claim
    edits, crashes, failures

database == <<events, aliases, runs>>
locals == <<doc, target, row>>
counters == <<edits, crashes, failures>>
vars == <<files, database, pc, locals, counters>>

Document == [id : Ids \cup {None}, folder : Folders, content : Contents \cup {None}]

(* run and job: the run reserved for the event and for its job, 0 for none  *)
EventRow == [status : EventStatus \cup {"INVALID"}, retryable : BOOLEAN,
             doc : Document, run : Nat, job : Nat, claims : 0..MaxClaims]

Alias == [event : Nat, content : Contents \cup {None}]

Unbound == [event |-> 0, content |-> None]

(* content: runs.fingerprint, None until the run is created                 *)
Reserved == [run : Run, content : Contents \cup {None}]

Holding == {"claiming", "executing", "running", "closing"}

TypeOK ==
    /\ files \in [Folders -> Contents \cup {None}]
    /\ events \in Seq(EventRow)
    /\ aliases \in [Ids -> Alias]
    /\ runs \in Seq(Reserved)
    /\ pc \in [Processes -> {"idle", "hashed", "enqueue", "process"} \cup Holding]
    /\ doc \in [Processes -> Document]
    /\ target \in [Processes -> Nat]
    /\ row \in [Processes -> EventRow]
    /\ edits \in 0..MaxEdits /\ crashes \in 0..MaxCrashes /\ failures \in 0..MaxFailures

NewRow(d, status) ==
    [status |-> status, retryable |-> FALSE, doc |-> d, run |-> 0, job |-> 0, claims |-> 0]

(* what a process that is idle remembers                                    *)
NoDoc == [id |-> None, folder |-> CHOOSE f \in Folders : TRUE, content |-> None]
NoRow == NewRow(NoDoc, "INVALID")

Init ==
    /\ files \in [Folders -> Contents]
    /\ events = << >> /\ runs = << >>
    /\ aliases = [x \in Ids |-> Unbound]
    /\ pc = [p \in Processes |-> "idle"]
    /\ doc = [p \in Processes |-> NoDoc]
    /\ target = [p \in Processes |-> 0]
    /\ row = [p \in Processes |-> NoRow]
    /\ edits = 0 /\ crashes = 0 /\ failures = 0

----------------------------------------------------------------------------
(* Control *)

At(p, step) == pc[p] = step
Goto(p, step) == pc' = [pc EXCEPT ![p] = step]

Forget(p) ==
    /\ doc' = [doc EXCEPT ![p] = NoDoc]
    /\ target' = [target EXCEPT ![p] = 0]
    /\ row' = [row EXCEPT ![p] = NoRow]

Leave(p) == Goto(p, "idle") /\ Forget(p)

(* A process that dies gives back the event lock it may hold.               *)
Crash(p) ==
    /\ ~ At(p, "idle") /\ crashes < MaxCrashes
    /\ crashes' = crashes + 1
    /\ Leave(p)
    /\ UNCHANGED <<files, database, edits, failures>>

Edit(f, c) ==
    /\ edits < MaxEdits /\ files[f] # c
    /\ edits' = edits + 1
    /\ files' = [files EXCEPT ![f] = c]
    /\ UNCHANGED <<database, pc, locals, crashes, failures>>

----------------------------------------------------------------------------
(* receive *)

(* The manifest is parsed and the sources are hashed outside transactions.  *)
Hash(p, x, f) ==
    /\ At(p, "idle")
    /\ doc' = [doc EXCEPT ![p] = [id |-> x, folder |-> f, content |-> files[f]]]
    /\ Goto(p, "hashed")
    /\ UNCHANGED <<files, database, target, row, counters>>

Valid(n) == events[n].status # "INVALID"

(* the events with the identity key of document d                           *)
Invalids(d) == {n \in DOMAIN events : ~ Valid(n) /\ events[n].doc = d}

Canonical(d) == {n \in DOMAIN events : Valid(n) /\ events[n].doc.content = d.content}

Conflicting(d) ==
    d.id # None /\ aliases[d.id] # Unbound /\ aliases[d.id].content # d.content

(* _invalid: a diagnostic without a run, once per identity; receive, or     *)
(* enqueue and ingest after it, end here                                    *)
Reject(p) ==
    /\ At(p, "hashed")
    /\ doc[p].content = None \/ Conflicting(doc[p])
    /\ events' = IF Invalids(doc[p]) # {} THEN events
                 ELSE Append(events, NewRow(doc[p], "INVALID"))
    /\ Leave(p)
    /\ UNCHANGED <<files, aliases, runs, counters>>

(* INSERT OR IGNORE: an id that is bound stays bound                        *)
Bind(d, n) ==
    IF d.id = None \/ aliases[d.id] # Unbound THEN aliases
    ELSE [aliases EXCEPT ![d.id] = [event |-> n, content |-> d.content]]

(* _persist; a duplicate is only counted and logged                         *)
Persist(p) ==
    /\ At(p, "hashed") /\ doc[p].content # None /\ ~ Conflicting(doc[p])
    /\ \E n \in DOMAIN events \cup {Len(events) + 1} :
          /\ IF Canonical(doc[p]) # {}
             THEN n \in Canonical(doc[p]) /\ UNCHANGED events
             ELSE n = Len(events) + 1 /\ events' = Append(events, NewRow(doc[p], "VALIDATED"))
          /\ aliases' = Bind(doc[p], n)
          /\ target' = [target EXCEPT ![p] = n]
    /\ \E next \in {"enqueue", "process"} : Goto(p, next)
    /\ UNCHANGED <<files, runs, doc, row, counters>>

----------------------------------------------------------------------------
(* Reservation and synchronization *)

Unused == [run |-> NoRun, content |-> None]

RunOf(e) == IF e.run = 0 THEN Unused ELSE runs[e.run]

(* faulty: the reservation is made anew                                     *)
ReserveAfresh(e) ==
    [row |-> [e EXCEPT !.run = Len(runs) + 1], runs |-> Append(runs, Unused)]

(* reserve, in the transaction of its caller                                *)
Reserve(e) ==
    IF e.run # 0 THEN [row |-> e, runs |-> runs]
    ELSE [row |-> [e EXCEPT !.run = Len(runs) + 1], runs |-> Append(runs, Unused)]

(* event_store.synchronize                                                  *)
Synchronized(e) ==
    LET s == SyncEvent([status |-> e.status, retryable |-> e.retryable], RunOf(e).run)
    IN  [e EXCEPT !.status = s.status, !.retryable = s.retryable]

(* inspect_event, list_events, and every other command's synchronization    *)
Observe ==
    /\ events' = [n \in DOMAIN events |-> Synchronized(events[n])]
    /\ UNCHANGED <<files, aliases, runs, pc, locals, counters>>

(* The transaction of queue.enqueue: the reservation and the one job of the *)
(* event are made together; to synchronize with a run just reserved changes *)
(* nothing.                                                                 *)
Enqueue(p) ==
    /\ At(p, "enqueue")
    /\ LET reserved == Reserve(Synchronized(events[target[p]]))
           e        == reserved.row
       IN  /\ events' = [events EXCEPT ![target[p]] =
                            [e EXCEPT !.job = IF @ = 0 THEN e.run ELSE @]]
           /\ runs' = reserved.runs
    /\ Leave(p)
    /\ UNCHANGED <<files, aliases, counters>>

----------------------------------------------------------------------------
(* _process: ingest (without retry) goes on with the event it received;     *)
(* retry-event and a delivery take any event with retry                     *)

Free(n) == \A q \in Processes : target[q] = n => pc[q] \notin Holding

(* faulty: a claimed event is left to whoever claimed it                    *)
RefusedClaimed(e, retry) ==
    \/ e.status \in {"INVALID", "CLAIMED", "WAITING_FOR_APPROVAL", "COMPLETED"}
    \/ e.status = "FAILED" /\ ~ (retry /\ e.retryable)

(* nothing to do, or not without an explicit retry                          *)
Refused(e, retry) ==
    \/ e.status \in {"INVALID", "WAITING_FOR_APPROVAL", "COMPLETED"}
    \/ e.status = "FAILED" /\ ~ (retry /\ e.retryable)

(* The event's lock is taken, all events are synchronized and the event is  *)
(* read, before the claim's transaction.                                    *)
Process(p, n, retry) ==
    /\ IF retry THEN At(p, "idle") ELSE At(p, "process") /\ n = target[p]
    /\ IF Free(n)
       THEN /\ events' = [k \in DOMAIN events |-> Synchronized(events[k])]
            /\ IF Refused(events'[n], retry)
               THEN Leave(p)
               ELSE /\ Goto(p, "claiming")
                    /\ target' = [target EXCEPT ![p] = n]
                    /\ row' = [row EXCEPT ![p] = events'[n]]
                    /\ doc' = [doc EXCEPT ![p] = NoDoc]
       ELSE Leave(p) /\ UNCHANGED events
    /\ UNCHANGED <<files, aliases, runs, counters>>

Claimed(e) ==
    [e EXCEPT !.status = "CLAIMED", !.retryable = FALSE,
              !.claims = IF @ < MaxClaims THEN @ + 1 ELSE @]

Unmoved(p) ==
    LET e == events[target[p]] IN e.status = row[p].status /\ e.claims = row[p].claims

(* faulty: the reservation read before the transaction is completed         *)
ClaimAsRead(p) ==
    /\ At(p, "claiming") /\ Unmoved(p)
    /\ LET reserved == Reserve(row[p])
       IN  /\ events' = [events EXCEPT ![target[p]] =
                            [Claimed(@) EXCEPT !.run = reserved.row.run]]
           /\ runs' = reserved.runs
    /\ Goto(p, "executing")
    /\ UNCHANGED <<files, aliases, locals, counters>>

(* faulty: the claim does not compare                                       *)
ClaimUncompared(p) ==
    /\ At(p, "claiming")
    /\ LET reserved == Reserve(Claimed(events[target[p]]))
       IN  /\ events' = [events EXCEPT ![target[p]] = reserved.row]
           /\ runs' = reserved.runs
    /\ Goto(p, "executing")
    /\ UNCHANGED <<files, aliases, locals, counters>>

Claim(p) ==
    /\ At(p, "claiming") /\ Unmoved(p)
    /\ LET reserved == Reserve(Claimed(events[target[p]]))
       IN  /\ events' = [events EXCEPT ![target[p]] = reserved.row]
           /\ runs' = reserved.runs
    /\ Goto(p, "executing")
    /\ UNCHANGED <<files, aliases, locals, counters>>

ClaimRefused(p) ==
    /\ At(p, "claiming") /\ ~ Unmoved(p)
    /\ Leave(p)
    /\ UNCHANGED <<files, database, counters>>

Intact(e) == files[e.doc.folder] = e.doc.content

(* faulty: the run is created from the bytes found                          *)
ExecuteFound(p) ==
    /\ At(p, "executing")
    /\ LET e == events[target[p]]
       IN  runs' = IF RunOf(e).run # NoRun THEN runs
                   ELSE [runs EXCEPT ![e.run] = [run |-> [NoRun EXCEPT !.status = "RUNNING"],
                                                 content |-> files[e.doc.folder]]]
    /\ Goto(p, "running")
    /\ UNCHANGED <<files, events, aliases, locals, counters>>

(* _execute: a briefed run is resumed from what it saved; otherwise the     *)
(* files must be those received, and the reserved run is created if it does *)
(* not exist.  A run briefed but not yet asked about, resumed without its   *)
(* files, leaves events and runs as ExecuteBusy does.                       *)
Execute(p) ==
    /\ At(p, "executing")
    /\ LET e == events[target[p]]
       IN  /\ RunOf(e).run.asked \/ Intact(e)
           /\ runs' = IF RunOf(e).run # NoRun THEN runs
                       ELSE [runs EXCEPT ![e.run] = [run |-> [NoRun EXCEPT !.status = "RUNNING"],
                                                     content |-> e.doc.content]]
    /\ Goto(p, "running")
    /\ UNCHANGED <<files, events, aliases, locals, counters>>

(* faulty: a failure of the execution is final                              *)
ExecuteFailForGood(p) ==
    /\ pc[p] \in {"executing", "running"}
    /\ IF Intact(events[target[p]])
       THEN failures < MaxFailures /\ failures' = failures + 1
       ELSE UNCHANGED failures
    /\ events' = [events EXCEPT ![target[p]].status = "FAILED"]
    /\ Goto(p, "closing")
    /\ UNCHANGED <<files, aliases, runs, locals, edits, crashes>>

(* changed files, or any other failure of the execution                     *)
ExecuteFail(p) ==
    /\ pc[p] \in {"executing", "running"}
    /\ IF Intact(events[target[p]])
       THEN failures < MaxFailures /\ failures' = failures + 1
       ELSE UNCHANGED failures
    /\ events' = [events EXCEPT ![target[p]].status = "FAILED", ![target[p]].retryable = TRUE]
    /\ Goto(p, "closing")
    /\ UNCHANGED <<files, aliases, runs, locals, edits, crashes>>

(* the run's lock is held by a workflow or human command: ingest and retry  *)
(* synchronize, a delivery passes it on                                     *)
ExecuteBusy(p) ==
    /\ At(p, "executing") /\ RunOf(events[target[p]]).run # NoRun
    /\ (Goto(p, "closing") /\ UNCHANGED locals) \/ Leave(p)
    /\ UNCHANGED <<files, database, counters>>

ExecuteEnd(p) ==
    /\ At(p, "running")
    /\ Goto(p, "closing")
    /\ UNCHANGED <<files, database, locals, counters>>

Close(p) ==
    /\ At(p, "closing")
    /\ events' = [events EXCEPT ![target[p]] = Synchronized(@)]
    /\ Leave(p)
    /\ UNCHANGED <<files, aliases, runs, counters>>

(* a committed transaction of the workflow or of a human decision           *)
Work(n) ==
    /\ n \in Moving /\ runs[n].run # NoRun
    /\ \E r \in Run : RunStep(runs[n].run, r) /\ runs' = [runs EXCEPT ![n].run = r]
    /\ UNCHANGED <<files, events, aliases, pc, locals, counters>>

----------------------------------------------------------------------------
Step(p) ==
    \/ Reject(p) \/ Persist(p) \/ Enqueue(p)
    \/ \E n \in DOMAIN events : Process(p, n, FALSE)
    \/ Claim(p) \/ ClaimRefused(p)
    \/ Execute(p) \/ ExecuteFail(p) \/ ExecuteBusy(p) \/ ExecuteEnd(p)
    \/ Close(p)

Retry(p, n) == Process(p, n, TRUE)

Next ==
    \/ \E p \in Processes :
        \/ Step(p) \/ Crash(p)
        \/ \E x \in Ids \cup {None}, f \in Folders : Hash(p, x, f)
        \/ \E n \in DOMAIN events : Retry(p, n)
    \/ \E f \in Folders, c \in Contents \cup {None} : Edit(f, c)
    \/ Observe
    \/ \E n \in DOMAIN runs : Work(n)

Spec == Init /\ [][Next]_vars

----------------------------------------------------------------------------
(* Invariants *)

(* At most one canonical event, one reserved run and one job per content,   *)
(* whoever received, enqueued and claimed it in whatever order              *)
(* (docs/INTERVIEW_GUIDE.md 17); a diagnostic never has a run.              *)
OneRunPerContent ==
    /\ \A m, n \in DOMAIN events :
          Valid(m) /\ Valid(n) /\ events[m].doc.content = events[n].doc.content => m = n
    /\ \A i \in DOMAIN runs : Cardinality({n \in DOMAIN events : events[n].run = i}) = 1
    /\ \A n \in DOMAIN events :
          /\ ~ Valid(n) => events[n].run = 0
          /\ events[n].job \in {0, events[n].run}

(* A submission that is accepted under an external id is accepted for the   *)
(* content this id is bound to, the content of its event.                   *)
AcceptedAsBound ==
    \A p \in Processes :
        pc[p] \in {"enqueue", "process"} =>
            /\ events[target[p]].doc.content = doc[p].content
            /\ doc[p].id # None => aliases[doc[p].id].content = doc[p].content

(* A reserved run is created from the bytes that were received, although    *)
(* the files may change between receipt and execution.                      *)
CreatedAsReceived ==
    \A n \in DOMAIN events :
        RunOf(events[n]).run # NoRun => RunOf(events[n]).content = events[n].doc.content

(* Contents, events, runs, jobs and external ids stay one to one, and every *)
(* row keeps its type, whoever submits what at the same time.               *)
IdentityHolds == TypeOK /\ OneRunPerContent /\ AcceptedAsBound

(* As long as an event has no run, an explicit retry is accepted whenever   *)
(* nobody holds its lock: no crash or failure leaves a status that only the *)
(* process that wrote it could have moved on.                               *)
NeverStranded ==
    \A n \in DOMAIN events :
        Valid(n) /\ Free(n) /\ RunOf(events[n]).run = NoRun
        => ~ Refused(events[n], TRUE)

----------------------------------------------------------------------------
(* Action properties *)

(* What an external id is bound to, and the run reserved for an event, stay *)
(* (docs/CLI_GUIDE.md 171: "permanently bound").                            *)
BindingsKept ==
    [][/\ \A x \in Ids : aliases[x] # Unbound => aliases'[x] = aliases[x]
       /\ \A n \in DOMAIN events :
             /\ n \in DOMAIN events' /\ events'[n].doc = events[n].doc
             /\ events[n].run # 0 => events'[n].run = events[n].run
             /\ events[n].job # 0 => events'[n].job = events[n].job]_vars

(* An event that is seen waiting or completed is not claimed by a process   *)
(* that read it before (the compare-and-set of _claim).                     *)
FinishedNotReclaimed ==
    [][\A n \in DOMAIN events :
          events[n].status \in {"WAITING_FOR_APPROVAL", "COMPLETED", "INVALID"}
          => events'[n].status # "CLAIMED"]_vars

----------------------------------------------------------------------------
(* Liveness *)

(* Processes that are not killed go on, and somebody retries each event     *)
(* while nobody holds its lock, again and again.                            *)
FairSpec ==
    /\ Spec
    /\ \A p \in Processes : WF_vars(Step(p))
    /\ \A n \in 1..Cardinality(Contents) :
          SF_vars(\E p \in Processes : n \in DOMAIN events /\ Free(n) /\ Retry(p, n))

(* An event whose original bytes are in place again gets its run, whatever  *)
(* failed or crashed before: receipts, claims and failures before creation  *)
(* are all recoverable (docs/ARCHITECTURE.md 213).                          *)
RestoredEventRuns ==
    \A n \in 1..Cardinality(Contents) :
        <>[](n \in DOMAIN events /\ Valid(n) /\ Intact(events[n]))
        => <>(n \in DOMAIN events /\ RunOf(events[n]).run # NoRun)
=============================================================================
