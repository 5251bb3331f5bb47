--------------------------- MODULE IngestionProofs --------------------------
(***************************************************************************)
(* What module Ingestion promises holds for any number of processes,       *)
(* contents, external ids and folders, and any bounds: events, runs and    *)
(* jobs stay one to one, a run is created from the bytes received, and an  *)
(* event without a run stays within reach of a retry.                      *)
(***************************************************************************)
EXTENDS Ingestion, FiniteSetTheorems, SequenceTheorems, TLAPS

(* Every reserved run belongs to one event, which is no diagnostic.         *)
Reservations ==
    /\ \A n \in DOMAIN events : /\ events[n].run \in 0..Len(runs)
                                /\ events[n].job \in {0, events[n].run}
                                /\ ~ Valid(n) => events[n].run = 0
    /\ \A m, n \in DOMAIN events :
          events[m].run = events[n].run /\ events[n].run # 0 => m = n
    /\ \A i \in DOMAIN runs : \E n \in DOMAIN events : events[n].run = i

Canonicals ==
    \A m, n \in DOMAIN events :
        Valid(m) /\ Valid(n) /\ events[m].doc.content = events[n].doc.content => m = n

(* A run without a status has no past either, and is never again without.   *)
Creations ==
    /\ \A i \in DOMAIN runs : runs[i].run.status = "NONE" => runs[i].run = NoRun
    /\ CreatedAsReceived

(* Before the run is created, only receipt, a claim and a failure have      *)
(* written the status, and the failure can be retried.                      *)
Recoverable ==
    \A n \in DOMAIN events :
        Valid(n) /\ RunOf(events[n]).run = NoRun =>
            \/ events[n].status \in {"VALIDATED", "CLAIMED"}
            \/ events[n].status = "FAILED" /\ events[n].retryable

Tables == Reservations /\ Canonicals /\ Creations /\ Recoverable

(* Whoever works on an event received a valid one, read it in a status that *)
(* can be claimed, and has reserved its run once it has claimed it.         *)
Targets ==
    \A p \in Processes :
        /\ pc[p] \in {"enqueue", "process"} \cup Holding =>
              target[p] \in DOMAIN events /\ Valid(target[p])
        /\ pc[p] \in {"enqueue", "process"} => doc[p].content # None
        /\ pc[p] = "claiming" =>
              row[p].status \notin {"INVALID", "WAITING_FOR_APPROVAL", "COMPLETED"}
        /\ pc[p] \in Holding \ {"claiming"} => events[target[p]].run # 0

IInv == TypeOK /\ Tables /\ Targets /\ AcceptedAsBound

----------------------------------------------------------------------------
(* Rows and tables *)

(* The numbers of runs in use stay in use.                                  *)
LEMMA Ranges ==
    \A k, m \in Nat : /\ k <= m => 0..k \subseteq 0..m
                      /\ \A i \in 0..k : i # 0 => i \in 1..k
  OBVIOUS

(* What the two tables hold.                                                *)
LEMMA TableTypes ==
    ASSUME TypeOK
    PROVE  /\ Len(events) \in Nat /\ DOMAIN events = 1..Len(events)
           /\ Len(runs) \in Nat /\ DOMAIN runs = 1..Len(runs)
           /\ \A n \in DOMAIN events : events[n] \in EventRow
           /\ \A i \in DOMAIN runs : runs[i] \in Reserved
<1>1. events \in Seq(EventRow) /\ runs \in Seq(Reserved)
  BY DEF TypeOK
<1>2. QED
  BY <1>1, LenProperties, ElementOfSeq

(* What an idle process remembers has the type of what it will read.        *)
LEMMA Blank ==
    /\ NoDoc \in Document /\ NoRow \in EventRow
    /\ \A d \in Document, s \in {"INVALID", "VALIDATED"} : NewRow(d, s) \in EventRow
<1>1. NoDoc \in Document
  BY IngestionConstants DEF NoDoc, Document
<1>2. \A d \in Document, s \in {"INVALID", "VALIDATED"} : NewRow(d, s) \in EventRow
  BY IngestionConstants DEF NewRow, EventRow, EventStatus
<1>3. QED
  BY <1>1, <1>2 DEF NoRow

(* What an event with run i sees of it.                                     *)
LEMMA RunSeen ==
    ASSUME TypeOK, Reservations, Creations, NEW n \in DOMAIN events
    PROVE  /\ RunOf(events[n]) \in Reserved
           /\ RunOf(events[n]).run.status = "NONE" => RunOf(events[n]).run = NoRun
           /\ events[n].run # 0 => /\ events[n].run \in DOMAIN runs
                                   /\ RunOf(events[n]) = runs[events[n].run]
<1>1. events[n].run \in 0..Len(runs)
  BY DEF Reservations
<1>2. events[n].run # 0 => events[n].run \in DOMAIN runs
  BY <1>1, TableTypes
<1>3. Unused \in Reserved
  BY DEF Unused, Reserved, NoRun, Run, RunStatus
<1>4. QED
  BY <1>2, <1>3, TableTypes DEF RunOf, Creations, Unused

(* Synchronization changes no more than the status and whether it can be    *)
(* retried, and only of an event whose run was created.                     *)
LEMMA SynchronizedRow ==
    ASSUME TypeOK, Reservations, Creations, NEW n \in DOMAIN events
    PROVE  LET e == events[n]
               s == Synchronized(e)
           IN  /\ s \in EventRow
               /\ s.doc = e.doc /\ s.run = e.run /\ s.job = e.job /\ s.claims = e.claims
               /\ s.status = "INVALID" <=> e.status = "INVALID"
               /\ s.status = "CLAIMED" => e.status = "CLAIMED"
               /\ RunOf(e).run = NoRun => s = e
<1> DEFINE e == events[n]
           r == RunOf(e).run
           f == SyncEvent([status |-> e.status, retryable |-> e.retryable], r)
<1>1. e \in EventRow /\ r \in Run /\ (r.status = "NONE" => r = NoRun)
  BY TableTypes, RunSeen DEF Reserved
<1>2. Synchronized(e) = [e EXCEPT !.status = f.status, !.retryable = f.retryable]
  BY DEF Synchronized
<1>3. CASE r.status = "NONE"
  <2>1. f.status = e.status /\ f.retryable = e.retryable
    BY <1>3 DEF SyncEvent
  <2>2. QED
    BY <1>1, <1>2, <2>1 DEF EventRow
<1>4. CASE r.status # "NONE"
  <2>1. /\ f.status \in {"WORKFLOW_CREATED", "WAITING_FOR_APPROVAL", "COMPLETED", "FAILED"}
        /\ f.retryable \in BOOLEAN
    BY <1>1, <1>4 DEF SyncEvent, StatusFor, Run, RunStatus
  <2>2. e.status # "INVALID" /\ r # NoRun
    <3>1. r # NoRun
      BY <1>4 DEF NoRun
    <3>2. e.run # 0
      BY <3>1 DEF RunOf, Unused
    <3>3. QED
      BY <3>1, <3>2 DEF Reservations, Valid
  <2>3. QED
    BY <1>1, <1>2, <2>1, <2>2 DEF EventRow, EventStatus
<1>5. QED
  BY <1>3, <1>4

(* What a step may do to a row: its document, its validity, its run and its *)
(* job stay.                                                                *)
Follows(f, e) ==
    /\ f.doc = e.doc
    /\ f.status = "INVALID" <=> e.status = "INVALID"
    /\ e.run # 0 => f.run = e.run
    /\ e.job # 0 => f.job = e.job

Grows ==
    /\ Len(events) <= Len(events')
    /\ \A n \in DOMAIN events : n \in DOMAIN events' /\ Follows(events'[n], events[n])

(* A step that changes nothing but what each row says of its run's progress *)
(* keeps the tables.                                                        *)
LEMMA RowsMove ==
    ASSUME TypeOK, Tables, UNCHANGED runs,
           events' \in Seq(EventRow), DOMAIN events' = DOMAIN events,
           \A n \in DOMAIN events :
              /\ Follows(events'[n], events[n])
              /\ events'[n].run = events[n].run /\ events'[n].job = events[n].job
              /\ RunOf(events[n]).run = NoRun =>
                    \/ /\ events'[n].status = events[n].status
                       /\ events'[n].retryable = events[n].retryable
                    \/ events'[n].status = "FAILED" /\ events'[n].retryable
    PROVE  Tables' /\ Grows
<1>1. /\ \A n \in DOMAIN events : RunOf(events[n])' = RunOf(events[n])
      /\ \A n \in DOMAIN events : Valid(n)' <=> Valid(n)
  BY DEF RunOf, Valid, Follows
<1>2. Len(events') = Len(events)
  BY TableTypes, LenProperties
<1>3. Reservations'
  BY <1>1 DEF Tables, Reservations
<1>4. Canonicals'
  BY <1>1 DEF Tables, Canonicals, Follows
<1>5. Creations'
  BY <1>1 DEF Tables, Creations, CreatedAsReceived, Follows
<1>6. Recoverable'
  BY <1>1 DEF Tables, Recoverable
<1>7. QED
  BY <1>2, <1>3, <1>4, <1>5, <1>6, TableTypes DEF Tables, Grows

(* To synchronize all events is such a step.                                *)
LEMMA AllSynchronized ==
    ASSUME TypeOK, Tables, UNCHANGED runs,
           events' = [n \in DOMAIN events |-> Synchronized(events[n])]
    PROVE  /\ events' \in Seq(EventRow) /\ DOMAIN events' = DOMAIN events
           /\ Tables' /\ Grows
<1>1. \A n \in DOMAIN events : events'[n] = Synchronized(events[n])
  OBVIOUS
<1>2. \A n \in DOMAIN events : events'[n] \in EventRow
  BY <1>1, SynchronizedRow DEF Tables
<1>3. events' \in [1..Len(events) -> EventRow] /\ Len(events) \in Nat
  BY <1>2, TableTypes
<1>4. events' \in Seq(EventRow)
  BY <1>3, SeqDef
<1>5. \A n \in DOMAIN events :
         /\ Follows(events'[n], events[n])
         /\ events'[n].run = events[n].run /\ events'[n].job = events[n].job
         /\ RunOf(events[n]).run = NoRun => /\ events'[n].status = events[n].status
                                            /\ events'[n].retryable = events[n].retryable
  BY <1>1, SynchronizedRow DEF Tables, Follows
<1>6. QED
  BY <1>4, <1>5, RowsMove

(* Replacing the row of one event.                                          *)
LEMMA RowReplaced ==
    ASSUME TypeOK, NEW t \in DOMAIN events, NEW e \in EventRow,
           events' = [events EXCEPT ![t] = e]
    PROVE  /\ events' \in Seq(EventRow) /\ DOMAIN events' = DOMAIN events
           /\ Len(events') = Len(events)
           /\ events'[t] = e
           /\ \A n \in DOMAIN events \ {t} : events'[n] = events[n]
<1>1. events \in Seq(EventRow) /\ t \in 1..Len(events)
  BY TableTypes DEF TypeOK
<1>2. QED
  BY <1>1, ExceptSeq, TableTypes

(* Reserving a run for an event that has none, and moving its status to one *)
(* from which it can be retried, keeps the tables.                          *)
LEMMA RowReserved ==
    ASSUME TypeOK, Tables, NEW t \in DOMAIN events, Valid(t),
           NEW e \in EventRow, events' = [events EXCEPT ![t] = e],
           Follows(e, events[t]), e.job \in {0, e.run},
           \/ e.run = events[t].run /\ e.run # 0 /\ UNCHANGED runs
           \/ events[t].run = 0 /\ e.run = Len(runs) + 1 /\ runs' = Append(runs, Unused),
           RunOf(events[t]).run = NoRun =>
              \/ e.status = events[t].status /\ e.retryable = events[t].retryable
              \/ e.status = "CLAIMED"
    PROVE  runs' \in Seq(Reserved) /\ Tables' /\ Grows /\ events'[t].run # 0
<1>1. /\ DOMAIN events' = DOMAIN events /\ Len(events') = Len(events) /\ events'[t] = e
      /\ \A n \in DOMAIN events \ {t} : events'[n] = events[n]
  BY RowReplaced
<1>2. \A n \in DOMAIN events : Follows(events'[n], events[n])
  BY <1>1 DEF Follows
<1>3. \A n \in DOMAIN events : Valid(n)' <=> Valid(n)
  BY <1>2 DEF Valid, Follows
<1>4. Grows
  BY <1>1, <1>2, TableTypes DEF Grows
<1>5. Unused \in Reserved /\ Unused.run = NoRun
  BY DEF Unused, Reserved, NoRun, Run, RunStatus
<1>6. /\ runs' \in Seq(Reserved) /\ Len(runs') \in Nat /\ Len(runs) <= Len(runs')
      /\ DOMAIN runs' = 1..Len(runs')
      /\ \A i \in DOMAIN runs : i \in DOMAIN runs' /\ runs'[i] = runs[i]
      /\ \A i \in DOMAIN runs' \ DOMAIN runs :
            i = Len(runs) + 1 /\ i = e.run /\ runs'[i] = Unused /\ events[t].run = 0
  <2>1. CASE UNCHANGED runs
    BY <2>1, TableTypes DEF TypeOK
  <2>2. CASE events[t].run = 0 /\ e.run = Len(runs) + 1 /\ runs' = Append(runs, Unused)
    <3>1. runs \in Seq(Reserved)
      BY DEF TypeOK
    <3>2. /\ runs' \in Seq(Reserved) /\ Len(runs') = Len(runs) + 1
          /\ \A i \in 1..Len(runs) : runs'[i] = runs[i]
          /\ runs'[Len(runs) + 1] = Unused
      BY <2>2, <3>1, <1>5, AppendProperties
    <3>3. QED
      BY <2>2, <3>1, <3>2, TableTypes, LenProperties
  <2>3. QED
    BY <2>1, <2>2
<1>7. /\ e.run # 0 /\ e.run \in 1..Len(runs')
      /\ RunOf(e)' = RunOf(events[t])
  <2>1. events[t].run \in 0..Len(runs)
    BY DEF Tables, Reservations
  <2>2. CASE e.run = events[t].run /\ e.run # 0 /\ UNCHANGED runs
    <3>1. e.run \in 0..Len(runs) /\ Len(runs) \in Nat
      BY <2>1, <2>2, TableTypes, Zenon
    <3>2. e.run \in 1..Len(runs)
      BY <2>2, <3>1, Ranges, Zenon
    <3>3. QED
      BY <2>2, <3>2 DEF RunOf
  <2>3. CASE events[t].run = 0 /\ e.run = Len(runs) + 1 /\ runs' = Append(runs, Unused)
    BY <2>3, <1>6, TableTypes, LenProperties DEF RunOf, TypeOK
  <2>4. QED
    BY <2>2, <2>3
<1>8. \A n \in DOMAIN events : RunOf(events[n])' = RunOf(events[n])
  <2>1. ASSUME NEW n \in DOMAIN events \ {t}
        PROVE  RunOf(events[n])' = RunOf(events[n])
    BY <1>1, <1>6, RunSeen DEF Tables, RunOf
  <2>2. QED
    BY <1>1, <1>7, <2>1
<1>9. Reservations'
  <2>1. ASSUME NEW n \in DOMAIN events \ {t}
        PROVE  events[n].run \in 0..Len(runs')
    <3>1. events[n].run \in 0..Len(runs) /\ Len(runs) \in Nat
      BY TableTypes DEF Tables, Reservations
    <3>2. QED
      BY <1>6, <3>1, Ranges, Zenon
  <2>2. \A n \in DOMAIN events' : /\ events'[n].run \in 0..Len(runs')
                                  /\ events'[n].job \in {0, events'[n].run}
                                  /\ ~ Valid(n)' => events'[n].run = 0
    BY <1>1, <1>3, <1>7, <2>1 DEF Tables, Reservations
  <2>3. ASSUME NEW m \in DOMAIN events', NEW n \in DOMAIN events',
               events'[m].run = events'[n].run, events'[n].run # 0
        PROVE  m = n
    <3>1. CASE m # t /\ n # t
      BY <1>1, <2>3, <3>1 DEF Tables, Reservations
    <3>2. \A k \in DOMAIN events \ {t} : events[k].run # e.run
      <4>1. CASE e.run = events[t].run
        BY <1>7, <4>1 DEF Tables, Reservations
      <4>2. CASE e.run = Len(runs) + 1
        BY <4>2, TableTypes DEF Tables, Reservations
      <4>3. QED
        BY <4>1, <4>2
    <3>3. QED
      BY <1>1, <2>3, <3>1, <3>2
  <2>4. ASSUME NEW i \in DOMAIN runs'
        PROVE  \E n \in DOMAIN events' : events'[n].run = i
    <3>1. CASE i \in DOMAIN runs
      <4>1. PICK n \in DOMAIN events : events[n].run = i
        BY <3>1 DEF Tables, Reservations
      <4>2. i # 0
        BY <3>1, TableTypes
      <4>3. events'[n].run = i
        BY <1>2, <4>1, <4>2 DEF Follows
      <4>4. QED
        BY <1>1, <4>3
    <3>2. CASE i \notin DOMAIN runs
      BY <1>1, <1>6, <3>2
    <3>3. QED
      BY <3>1, <3>2
  <2>5. QED
    BY <2>2, <2>3, <2>4 DEF Reservations
<1>10. Canonicals'
  BY <1>1, <1>2, <1>3 DEF Tables, Canonicals, Follows
<1>11. Creations'
  <2>1. CreatedAsReceived'
    BY <1>1, <1>2, <1>8 DEF Tables, Creations, CreatedAsReceived, Follows
  <2>2. \A i \in DOMAIN runs' : runs'[i].run.status = "NONE" => runs'[i].run = NoRun
    BY <1>5, <1>6 DEF Tables, Creations
  <2>3. QED
    BY <2>1, <2>2 DEF Creations
<1>12. Recoverable'
  BY <1>1, <1>3, <1>8 DEF Tables, Recoverable
<1>13. QED
  BY <1>1, <1>4, <1>6, <1>7, <1>9, <1>10, <1>11, <1>12 DEF Tables

(* The events that reserved run i, and only one has, were received with c.  *)
OwnersReceived(i, c) == \A n \in DOMAIN events : events[n].run = i => events[n].doc.content = c

(* A run that is created for its event, or goes on, keeps the tables.       *)
LEMMA RunMoves ==
    ASSUME TypeOK, Tables, UNCHANGED events,
           NEW i \in DOMAIN runs, NEW r \in Reserved, r.run.status # "NONE",
           OwnersReceived(i, r.content),
           runs' = [runs EXCEPT ![i] = r]
    PROVE  runs' \in Seq(Reserved) /\ Tables' /\ Grows
<1>1. runs \in Seq(Reserved) /\ i \in 1..Len(runs)
  BY TableTypes DEF TypeOK
<1>2. /\ runs' \in Seq(Reserved) /\ Len(runs') = Len(runs) /\ DOMAIN runs' = DOMAIN runs
      /\ \A k \in DOMAIN runs : runs'[k] = IF k = i THEN r ELSE runs[k]
  BY <1>1, ExceptSeq, TableTypes
<1>3. r.run # NoRun
  BY DEF NoRun
<1>4. ASSUME NEW n \in DOMAIN events
      PROVE  RunOf(events[n])' = IF events[n].run = i THEN r ELSE RunOf(events[n])
  <2>1. CASE events[n].run = 0
    <3>1. i # 0
      BY <1>1
    <3>2. QED
      BY <2>1, <3>1 DEF RunOf, Unused
  <2>2. CASE events[n].run # 0
    BY <1>2, <2>2, RunSeen DEF Tables, RunOf
  <2>3. QED
    BY <2>1, <2>2
<1>5. Reservations'
  BY <1>2 DEF Tables, Reservations, Valid
<1>6. Canonicals'
  BY DEF Tables, Canonicals, Valid
<1>7. Creations'
  BY <1>2, <1>4 DEF Tables, Creations, CreatedAsReceived, OwnersReceived
<1>8. Recoverable'
  BY <1>3, <1>4 DEF Tables, Recoverable, Valid
<1>9. QED
  BY <1>2, <1>5, <1>6, <1>7, <1>8, TableTypes DEF Tables, Grows, Follows

(* A diagnostic, or the first valid event of its content, is appended.      *)
LEMMA RowReceived ==
    ASSUME TypeOK, Tables, UNCHANGED runs,
           NEW d \in Document, NEW s \in {"INVALID", "VALIDATED"},
           s = "VALIDATED" => Canonical(d) = {},
           events' = Append(events, NewRow(d, s))
    PROVE  /\ events' \in Seq(EventRow) /\ Tables' /\ Grows
           /\ Len(events) + 1 \in DOMAIN events'
           /\ events'[Len(events) + 1] = NewRow(d, s)
<1>0. PICK last : last = Len(events) + 1
  OBVIOUS
<1>1. events \in Seq(EventRow) /\ NewRow(d, s) \in EventRow
  BY Blank DEF TypeOK
<1>2. /\ events' \in Seq(EventRow) /\ Len(events') = last
      /\ \A n \in 1..Len(events) : events'[n] = events[n]
      /\ events'[last] = NewRow(d, s)
  BY <1>0, <1>1, AppendProperties
<1>3. /\ Len(events) \in Nat /\ DOMAIN events = 1..Len(events)
      /\ DOMAIN events' = 1..Len(events')
  BY <1>2, TableTypes, LenProperties
<1>4. /\ DOMAIN events' = DOMAIN events \cup {last} /\ last \notin DOMAIN events
      /\ \A n \in DOMAIN events : events'[n] = events[n]
  BY <1>0, <1>2, <1>3
<1>5. /\ \A n \in DOMAIN events : Valid(n)' <=> Valid(n)
      /\ Valid(last)' <=> s = "VALIDATED"
      /\ \A n \in DOMAIN events : RunOf(events[n])' = RunOf(events[n])
  BY <1>2, <1>4 DEF Valid, NewRow, RunOf, Unused
<1>6. /\ events'[last].run = 0 /\ events'[last].job = 0 /\ events'[last].doc = d
      /\ events'[last].status = s
      /\ RunOf(events[last])' = Unused
  BY <1>2 DEF NewRow, RunOf, Unused
<1>7. Reservations'
  <2>1. 0 \in 0..Len(runs)
    BY TableTypes
  <2>2. \A n \in DOMAIN events' : /\ events'[n].run \in 0..Len(runs)
                                  /\ events'[n].job \in {0, events'[n].run}
                                  /\ ~ Valid(n)' => events'[n].run = 0
    BY <1>4, <1>5, <1>6, <2>1 DEF Tables, Reservations
  <2>3. \A m, n \in DOMAIN events' :
           events'[m].run = events'[n].run /\ events'[n].run # 0 => m = n
    BY <1>4, <1>6 DEF Tables, Reservations
  <2>4. \A i \in DOMAIN runs : \E n \in DOMAIN events' : events'[n].run = i
    BY <1>4 DEF Tables, Reservations
  <2>5. QED
    BY <2>2, <2>3, <2>4 DEF Reservations
<1>8. Canonicals'
  <2>1. ASSUME NEW n \in DOMAIN events, s = "VALIDATED", Valid(n)
        PROVE  events[n].doc.content # d.content
    BY <2>1 DEF Canonical
  <2>2. QED
    BY <1>4, <1>5, <1>6, <2>1 DEF Tables, Canonicals
<1>9. Creations'
  BY <1>4, <1>5, <1>6 DEF Tables, Creations, CreatedAsReceived, Unused
<1>10. Recoverable'
  BY <1>4, <1>5, <1>6 DEF Tables, Recoverable
<1>11. Grows
  BY <1>0, <1>2, <1>3, <1>4 DEF Grows, Follows
<1>12. QED
  BY <1>0, <1>2, <1>4, <1>7, <1>8, <1>9, <1>10, <1>11 DEF Tables

(* The tables, and what follows from them, while neither of them changes.   *)
LEMMA TablesStay ==
    ASSUME TypeOK, Tables, UNCHANGED <<events, runs>>
    PROVE  Tables' /\ Grows
<1>1. Tables'
  BY DEF Tables, Reservations, Canonicals, Creations, CreatedAsReceived, Recoverable,
         Valid, RunOf, Unused
<1>2. Grows
  BY TableTypes DEF Grows, Follows
<1>3. QED
  BY <1>1, <1>2

----------------------------------------------------------------------------
(* Processes *)

(* the part of the invariant that is about process p                        *)
Sound(p) ==
    /\ pc[p] \in {"enqueue", "process"} \cup Holding =>
          target[p] \in DOMAIN events /\ Valid(target[p])
    /\ pc[p] \in {"enqueue", "process"} =>
          /\ doc[p].content # None
          /\ events[target[p]].doc.content = doc[p].content
          /\ doc[p].id # None => aliases[doc[p].id].content = doc[p].content
    /\ pc[p] = "claiming" =>
          row[p].status \notin {"INVALID", "WAITING_FOR_APPROVAL", "COMPLETED"}
    /\ pc[p] \in Holding \ {"claiming"} => events[target[p]].run # 0

(* Targets and AcceptedAsBound, process by process.                         *)
LEMMA ProcessesSound ==
    /\ (\A p \in Processes : Sound(p)) <=> Targets /\ AcceptedAsBound
    /\ (\A p \in Processes : Sound(p)') <=> Targets' /\ AcceptedAsBound'
  BY DEF Sound, Targets, AcceptedAsBound

(* what is no business of the others                                        *)
Alone(p) ==
    \A q \in Processes \ {p} :
        pc'[q] = pc[q] /\ doc'[q] = doc[q] /\ target'[q] = target[q] /\ row'[q] = row[q]

AliasesStay == \A x \in Ids : aliases[x] # Unbound => aliases'[x] = aliases[x]

LocalTypes ==
    /\ pc \in [Processes -> {"idle", "hashed", "enqueue", "process"} \cup Holding]
    /\ doc \in [Processes -> Document]
    /\ target \in [Processes -> Nat]
    /\ row \in [Processes -> EventRow]

(* A step of p that only lets the tables grow leaves the others sound.      *)
LEMMA OthersStaySound ==
    ASSUME IInv, Grows, AliasesStay, NEW p, Alone(p)
    PROVE  \A q \in Processes \ {p} : Sound(q)'
<1> SUFFICES ASSUME NEW q \in Processes \ {p}
             PROVE  Sound(q)'
  OBVIOUS
<1>1. Sound(q)
  BY ProcessesSound DEF IInv
<1>2. pc'[q] = pc[q] /\ doc'[q] = doc[q] /\ target'[q] = target[q] /\ row'[q] = row[q]
  BY DEF Alone
<1>3. target[q] \in DOMAIN events =>
         /\ target[q] \in DOMAIN events'
         /\ events'[target[q]].doc = events[target[q]].doc
         /\ events'[target[q]].status # "INVALID" <=> Valid(target[q])
         /\ events[target[q]].run # 0 => events'[target[q]].run # 0
  BY DEF Grows, Follows, Valid
<1>4. \A x \in Ids : aliases[x].content # None => aliases'[x] = aliases[x]
  BY DEF AliasesStay, Unbound
<1>5. doc[q].id # None => doc[q].id \in Ids
  BY DEF IInv, TypeOK, Document
<1>6. pc[q] \in {"enqueue", "process"} \cup Holding =>
         target'[q] \in DOMAIN events' /\ events'[target'[q]].status # "INVALID"
  BY <1>1, <1>2, <1>3 DEF Sound, Valid
<1>7. pc[q] \in {"enqueue", "process"} =>
          /\ doc[q].content # None
          /\ events'[target'[q]].doc.content = doc[q].content
          /\ doc[q].id # None => aliases'[doc[q].id].content = doc[q].content
  BY <1>1, <1>2, <1>3, <1>4, <1>5 DEF Sound
<1>8. pc[q] \in Holding \ {"claiming"} => events'[target'[q]].run # 0
  BY <1>1, <1>2, <1>3 DEF Sound, Holding
<1>9. QED
  BY <1>1, <1>2, <1>6, <1>7, <1>8 DEF Sound, Valid

(* A process that leaves has nothing left to be sound about.                *)
LEMMA LeaveSound ==
    ASSUME TypeOK, NEW p \in Processes, Leave(p)
    PROVE  LocalTypes' /\ Alone(p) /\ Sound(p)'
<1>1. LocalTypes' /\ Alone(p)
  BY Blank DEF TypeOK, LocalTypes, Leave, Goto, Forget, Alone
<1>2. pc'[p] = "idle"
  BY DEF TypeOK, Leave, Goto
<1>3. QED
  BY <1>1, <1>2 DEF Sound, Holding

(* A process that goes on with what it remembers.                           *)
LEMMA GotoAlone ==
    ASSUME TypeOK, NEW p \in Processes, NEW s, Goto(p, s), UNCHANGED locals,
           s \in {"idle", "hashed", "enqueue", "process"} \cup Holding
    PROVE  LocalTypes' /\ Alone(p) /\ pc'[p] = s
  BY DEF TypeOK, LocalTypes, Goto, Alone, locals

(* What is left to show of a step, once its process and its tables are.     *)
LEMMA StepKeeps ==
    ASSUME IInv, NEW p, Alone(p), Grows, AliasesStay, LocalTypes', Tables',
           p \in Processes => Sound(p)',
           files' \in [Folders -> Contents \cup {None}],
           events' \in Seq(EventRow), runs' \in Seq(Reserved),
           aliases' \in [Ids -> Alias],
           edits' \in 0..MaxEdits, crashes' \in 0..MaxCrashes, failures' \in 0..MaxFailures
    PROVE  IInv'
<1>1. \A q \in Processes : Sound(q)'
  BY OthersStaySound
<1>2. Targets' /\ AcceptedAsBound'
  BY <1>1, ProcessesSound
<1>3. TypeOK'
  BY DEF TypeOK, LocalTypes
<1>4. QED
  BY <1>2, <1>3 DEF IInv

----------------------------------------------------------------------------
(* Steps *)

NotReclaimed ==
    \A n \in DOMAIN events :
        events[n].status \in {"WAITING_FOR_APPROVAL", "COMPLETED", "INVALID"}
        => events'[n].status # "CLAIMED"

(* what every step keeps: the action properties                             *)
Kept == Grows /\ AliasesStay /\ NotReclaimed

(* The invariant holds of an empty store.                                   *)
LEMMA InitSound == Init => IInv
<1> SUFFICES ASSUME Init
             PROVE  IInv
  OBVIOUS
<1>1. TypeOK
  <2>1. events \in Seq(EventRow) /\ runs \in Seq(Reserved)
    BY EmptySeq DEF Init
  <2>2. aliases \in [Ids -> Alias]
    BY DEF Init, Alias, Unbound
  <2>3. files \in [Folders -> Contents \cup {None}]
    BY DEF Init
  <2>4. edits \in 0..MaxEdits /\ crashes \in 0..MaxCrashes /\ failures \in 0..MaxFailures
    BY IngestionConstants DEF Init
  <2>5. QED
    BY <2>1, <2>2, <2>3, <2>4, Blank DEF Init, TypeOK
<1>2. DOMAIN events = {} /\ DOMAIN runs = {}
  <2>1. Len(events) = 0 /\ Len(runs) = 0
    BY EmptySeq DEF Init
  <2>2. QED
    BY <1>1, <2>1, TableTypes
<1>3. Tables
  BY <1>2 DEF Tables, Reservations, Canonicals, Creations, CreatedAsReceived, Recoverable
<1>4. Targets /\ AcceptedAsBound
  BY DEF Init, Targets, AcceptedAsBound, Holding
<1>5. QED
  BY <1>1, <1>3, <1>4 DEF IInv

(* A step that leaves the tables alone.                                     *)
LEMMA StayKeeps ==
    ASSUME IInv, NEW p, Alone(p), LocalTypes', UNCHANGED database,
           p \in Processes => Sound(p)',
           files' \in [Folders -> Contents \cup {None}],
           edits' \in 0..MaxEdits, crashes' \in 0..MaxCrashes, failures' \in 0..MaxFailures
    PROVE  IInv' /\ Kept
<1>1. UNCHANGED <<events, runs>> /\ UNCHANGED aliases
  BY DEF database
<1>2. Tables' /\ Grows
  BY <1>1, TablesStay DEF IInv
<1>3. AliasesStay /\ NotReclaimed
  BY <1>1 DEF AliasesStay, NotReclaimed
<1>4. events' \in Seq(EventRow) /\ runs' \in Seq(Reserved) /\ aliases' \in [Ids -> Alias]
  BY <1>1 DEF IInv, TypeOK
<1>5. QED
  BY <1>2, <1>3, <1>4, StepKeeps DEF Kept

(* Steps that only move one process.                                        *)
LEMMA MoveKeeps ==
    ASSUME IInv, NEW p \in Processes,
           \/ Crash(p) \/ ClaimRefused(p) \/ ExecuteBusy(p) \/ ExecuteEnd(p)
           \/ \E x \in Ids \cup {None}, f \in Folders : Hash(p, x, f)
    PROVE  IInv' /\ Kept
<1> USE DEF IInv
<1>1. CASE Crash(p)
  <2>1. /\ UNCHANGED database /\ files' \in [Folders -> Contents \cup {None}]
        /\ edits' \in 0..MaxEdits /\ failures' \in 0..MaxFailures
    BY <1>1 DEF Crash, TypeOK
  <2>2. crashes' \in 0..MaxCrashes
    BY <1>1, IngestionConstants DEF Crash, TypeOK
  <2>3. QED
    BY <1>1, <2>1, <2>2, LeaveSound, StayKeeps DEF Crash
<1>2. CASE ClaimRefused(p)
  BY <1>2, LeaveSound, StayKeeps DEF ClaimRefused, TypeOK, counters
<1>3. ASSUME pc[p] \in {"executing", "running"}, Goto(p, "closing"), UNCHANGED locals
      PROVE  LocalTypes' /\ Alone(p) /\ (UNCHANGED database => Sound(p)')
  <2>1. LocalTypes' /\ Alone(p) /\ pc'[p] = "closing"
    BY <1>3, GotoAlone DEF Holding
  <2>2. Sound(p)
    BY ProcessesSound
  <2>3. QED
    BY <1>3, <2>1, <2>2 DEF Sound, Holding, database, locals, Valid
<1>4. CASE ExecuteBusy(p)
  <2>1. /\ UNCHANGED database /\ files' \in [Folders -> Contents \cup {None}]
        /\ edits' \in 0..MaxEdits /\ crashes' \in 0..MaxCrashes
        /\ failures' \in 0..MaxFailures
    BY <1>4 DEF ExecuteBusy, TypeOK, counters
  <2>2. LocalTypes' /\ Alone(p) /\ Sound(p)'
    BY <1>3, <1>4, <2>1, LeaveSound DEF ExecuteBusy, At
  <2>3. QED
    BY <2>1, <2>2, StayKeeps
<1>5. CASE ExecuteEnd(p)
  <2>1. /\ UNCHANGED database /\ files' \in [Folders -> Contents \cup {None}]
        /\ edits' \in 0..MaxEdits /\ crashes' \in 0..MaxCrashes
        /\ failures' \in 0..MaxFailures
    BY <1>5 DEF ExecuteEnd, TypeOK, counters
  <2>2. LocalTypes' /\ Alone(p) /\ Sound(p)'
    BY <1>3, <1>5, <2>1 DEF ExecuteEnd, At
  <2>3. QED
    BY <2>1, <2>2, StayKeeps
<1>6. ASSUME NEW x \in Ids \cup {None}, NEW f \in Folders, Hash(p, x, f)
      PROVE  IInv' /\ Kept
  <2>1. /\ UNCHANGED database /\ files' \in [Folders -> Contents \cup {None}]
        /\ edits' \in 0..MaxEdits /\ crashes' \in 0..MaxCrashes
        /\ failures' \in 0..MaxFailures
    BY <1>6 DEF Hash, TypeOK, counters
  <2>2. [id |-> x, folder |-> f, content |-> files[f]] \in Document
    BY DEF TypeOK, Document
  <2>3. LocalTypes' /\ Alone(p) /\ pc'[p] = "hashed"
    BY <1>6, <2>2 DEF Hash, Goto, TypeOK, LocalTypes, Alone
  <2>4. Sound(p)'
    BY <2>3 DEF Sound, Holding
  <2>5. QED
    BY <2>1, <2>3, <2>4, StayKeeps
<1>7. QED
  BY <1>1, <1>2, <1>4, <1>5, <1>6

(* No process is concerned when only files, events or runs change.          *)
LEMMA NobodyMoves ==
    ASSUME TypeOK, UNCHANGED <<pc, locals>>, NEW p
    PROVE  LocalTypes' /\ Alone(p)
  BY DEF TypeOK, LocalTypes, Alone, locals

(* Changing a submission's files touches neither tables nor processes.      *)
LEMMA EditKeeps ==
    ASSUME IInv, NEW f \in Folders, NEW c \in Contents \cup {None}, Edit(f, c)
    PROVE  IInv' /\ Kept
<1>1. /\ UNCHANGED database /\ files' \in [Folders -> Contents \cup {None}]
      /\ crashes' \in 0..MaxCrashes /\ failures' \in 0..MaxFailures
  BY DEF Edit, IInv, TypeOK
<1>2. edits' \in 0..MaxEdits
  BY IngestionConstants DEF Edit, IInv, TypeOK
<1>3. PICK p : p \notin Processes
  BY NoSetContainsEverything
<1>4. LocalTypes' /\ Alone(p)
  BY NobodyMoves DEF Edit, IInv
<1>5. QED
  BY <1>1, <1>2, <1>3, <1>4, StayKeeps

(* What is synchronized is neither claimed nor moved elsewhere.             *)
LEMMA SynchronizedKept ==
    ASSUME IInv, UNCHANGED <<runs, aliases>>,
           events' = [n \in DOMAIN events |-> Synchronized(events[n])]
    PROVE  Tables' /\ Kept /\ events' \in Seq(EventRow) /\ DOMAIN events' = DOMAIN events
<1>1. /\ events' \in Seq(EventRow) /\ DOMAIN events' = DOMAIN events
      /\ Tables' /\ Grows
  BY AllSynchronized DEF IInv
<1>2. \A n \in DOMAIN events : events'[n].status = "CLAIMED" => events[n].status = "CLAIMED"
  BY SynchronizedRow DEF IInv, Tables
<1>3. NotReclaimed /\ AliasesStay
  BY <1>2 DEF NotReclaimed, AliasesStay
<1>4. QED
  BY <1>1, <1>3 DEF Kept

(* Inspection synchronizes and moves no process.                            *)
LEMMA ObserveKeeps ==
    ASSUME IInv, Observe
    PROVE  IInv' /\ Kept
<1>1. Tables' /\ Kept /\ events' \in Seq(EventRow)
  BY SynchronizedKept DEF Observe
<1>2. PICK p : p \notin Processes
  BY NoSetContainsEverything
<1>3. LocalTypes' /\ Alone(p)
  BY NobodyMoves DEF Observe, IInv
<1>4. /\ files' \in [Folders -> Contents \cup {None}]
      /\ runs' \in Seq(Reserved) /\ aliases' \in [Ids -> Alias]
      /\ edits' \in 0..MaxEdits /\ crashes' \in 0..MaxCrashes /\ failures' \in 0..MaxFailures
  BY DEF Observe, IInv, TypeOK, counters
<1>5. QED
  BY <1>1, <1>2, <1>3, <1>4, StepKeeps DEF Kept

(* An invalid submission is recorded with nothing to bind or to run.        *)
LEMMA RejectKeeps ==
    ASSUME IInv, NEW p \in Processes, Reject(p)
    PROVE  IInv' /\ Kept
<1>1. doc[p] \in Document
  BY DEF IInv, TypeOK
<1>2. Tables' /\ Grows /\ events' \in Seq(EventRow)
  <2>1. CASE Invalids(doc[p]) # {}
    BY <2>1, TablesStay DEF Reject, IInv, TypeOK
  <2>2. CASE Invalids(doc[p]) = {}
    BY <1>1, <2>2, RowReceived DEF Reject, IInv
  <2>3. QED
    BY <2>1, <2>2
<1>3. NotReclaimed
  <2>1. CASE Invalids(doc[p]) # {}
    BY <2>1 DEF Reject, NotReclaimed
  <2>2. CASE Invalids(doc[p]) = {}
    <3>1. \A n \in DOMAIN events : events'[n] = events[n]
      BY <1>1, <2>2, Blank, TableTypes, AppendProperties DEF Reject, IInv, TypeOK
    <3>2. QED
      BY <3>1 DEF NotReclaimed
  <2>3. QED
    BY <2>1, <2>2
<1>4. LocalTypes' /\ Alone(p) /\ Sound(p)'
  BY LeaveSound DEF Reject, IInv
<1>5. /\ files' \in [Folders -> Contents \cup {None}] /\ AliasesStay
      /\ runs' \in Seq(Reserved) /\ aliases' \in [Ids -> Alias]
      /\ edits' \in 0..MaxEdits /\ crashes' \in 0..MaxCrashes /\ failures' \in 0..MaxFailures
  BY DEF Reject, IInv, TypeOK, counters, AliasesStay
<1>6. QED
  BY <1>2, <1>3, <1>4, <1>5, StepKeeps DEF Kept

(* An id is bound to what is received under it, unless it was bound before, *)
(* and then to the same content.                                            *)
LEMMA BindKeeps ==
    ASSUME TypeOK, NEW d \in Document, NEW n \in Nat, d.content # None,
           ~ Conflicting(d), aliases' = Bind(d, n)
    PROVE  /\ aliases' \in [Ids -> Alias] /\ AliasesStay
           /\ d.id # None => aliases'[d.id].content = d.content
<1>1. [event |-> n, content |-> d.content] \in Alias
  BY DEF Alias, Document
<1>2. d.id # None => d.id \in Ids
  BY DEF Document
<1>3. QED
  BY <1>1, <1>2 DEF TypeOK, Bind, Conflicting, AliasesStay

(* A valid submission finds its event or becomes one, and binds its id.     *)
LEMMA PersistKeeps ==
    ASSUME IInv, NEW p \in Processes, Persist(p)
    PROVE  IInv' /\ Kept
<1> DEFINE d == doc[p]
<1>1. d \in Document /\ d.content # None /\ ~ Conflicting(d)
  BY DEF Persist, IInv, TypeOK
<1>2. PICK n \in DOMAIN events \cup {Len(events) + 1} :
         /\ \/ n \in Canonical(d) /\ UNCHANGED events
            \/ /\ Canonical(d) = {} /\ n = Len(events) + 1
               /\ events' = Append(events, NewRow(d, "VALIDATED"))
         /\ aliases' = Bind(d, n)
         /\ target' = [target EXCEPT ![p] = n]
  BY DEF Persist
<1>3. PICK s \in {"enqueue", "process"} : Goto(p, s)
  BY DEF Persist
<1>4. UNCHANGED <<files, runs, doc, row, counters>>
  BY DEF Persist
<1>5. n \in Nat
  BY TableTypes DEF IInv
<1>6. /\ Tables' /\ Grows /\ NotReclaimed /\ events' \in Seq(EventRow)
      /\ n \in DOMAIN events' /\ events'[n].status # "INVALID"
      /\ events'[n].doc.content = d.content
  <2>1. CASE n \in Canonical(d) /\ UNCHANGED events
    BY <1>4, <2>1, TablesStay DEF IInv, TypeOK, NotReclaimed, Canonical, Valid
  <2>2. CASE /\ Canonical(d) = {} /\ n = Len(events) + 1
             /\ events' = Append(events, NewRow(d, "VALIDATED"))
    <3>1. /\ events' \in Seq(EventRow) /\ Tables' /\ Grows
          /\ n \in DOMAIN events' /\ events'[n] = NewRow(d, "VALIDATED")
      BY <1>1, <1>4, <2>2, RowReceived DEF IInv
    <3>2. \A k \in DOMAIN events : events'[k] = events[k]
      BY <1>1, <2>2, Blank, TableTypes, AppendProperties DEF IInv, TypeOK
    <3>3. NotReclaimed
      BY <3>2 DEF NotReclaimed
    <3>4. QED
      BY <3>1, <3>3 DEF NewRow
  <2>3. QED
    BY <1>2, <2>1, <2>2
<1>7. /\ aliases' \in [Ids -> Alias] /\ AliasesStay
      /\ d.id # None => aliases'[d.id].content = d.content
  BY <1>1, <1>2, <1>5, BindKeeps DEF IInv
<1>8. /\ LocalTypes' /\ Alone(p)
      /\ pc'[p] = s /\ target'[p] = n /\ doc'[p] = d
  BY <1>2, <1>3, <1>4, <1>5 DEF IInv, TypeOK, LocalTypes, Goto, Alone
<1>9. Sound(p)'
  BY <1>1, <1>3, <1>6, <1>7, <1>8 DEF Sound, Holding, Valid
<1>10. /\ files' \in [Folders -> Contents \cup {None}] /\ runs' \in Seq(Reserved)
       /\ edits' \in 0..MaxEdits /\ crashes' \in 0..MaxCrashes /\ failures' \in 0..MaxFailures
  BY <1>4 DEF IInv, TypeOK, counters
<1>11. QED
  BY <1>6, <1>7, <1>8, <1>9, <1>10, StepKeeps DEF Kept

(* The synchronized row of a valid event and the reservation of its run.    *)
LEMMA EnqueueKeeps ==
    ASSUME IInv, NEW p \in Processes, Enqueue(p)
    PROVE  IInv' /\ Kept
<1> DEFINE t == target[p]
           s == Synchronized(events[t])
           e == [Reserve(s).row EXCEPT !.job = IF @ = 0 THEN Reserve(s).row.run ELSE @]
<1>1. t \in DOMAIN events /\ Valid(t)
  BY ProcessesSound DEF IInv, Sound, Enqueue, At
<1>2. /\ s \in EventRow
      /\ s.doc = events[t].doc /\ s.run = events[t].run /\ s.job = events[t].job
      /\ s.status = "INVALID" <=> events[t].status = "INVALID"
      /\ s.status = "CLAIMED" => events[t].status = "CLAIMED"
      /\ RunOf(events[t]).run = NoRun => s = events[t]
  BY <1>1, SynchronizedRow DEF IInv, Tables
<1>3. events' = [events EXCEPT ![t] = e] /\ runs' = Reserve(s).runs
  BY DEF Enqueue
<1>4. events[t].run \in 0..Len(runs) /\ events[t].job \in {0, events[t].run}
  BY <1>1 DEF IInv, Tables, Reservations
<1> HIDE DEF s
<1>5. /\ e \in EventRow /\ e.doc = s.doc /\ e.status = s.status /\ e.retryable = s.retryable
      /\ e.run = IF s.run = 0 THEN Len(runs) + 1 ELSE s.run
      /\ e.job = IF s.job = 0 THEN e.run ELSE s.job
      /\ runs' = IF s.run = 0 THEN Append(runs, Unused) ELSE runs
  <2>1. CASE s.run # 0
    BY <1>2, <1>3, <2>1 DEF Reserve, EventRow
  <2>2. CASE s.run = 0
    <3>1. Len(runs) + 1 \in Nat
      BY TableTypes DEF IInv
    <3>2. QED
      BY <1>2, <1>3, <2>2, <3>1 DEF Reserve, EventRow
  <2>3. QED
    BY <2>1, <2>2
<1> HIDE DEF e
<1>6. Follows(e, events[t]) /\ e.job \in {0, e.run}
  BY <1>2, <1>4, <1>5 DEF Follows
<1>7. \/ e.run = events[t].run /\ e.run # 0 /\ UNCHANGED runs
      \/ events[t].run = 0 /\ e.run = Len(runs) + 1 /\ runs' = Append(runs, Unused)
  BY <1>2, <1>5
<1>8. RunOf(events[t]).run = NoRun =>
         e.status = events[t].status /\ e.retryable = events[t].retryable
  BY <1>2, <1>5
<1>9. runs' \in Seq(Reserved) /\ Tables' /\ Grows
  BY <1>1, <1>3, <1>5, <1>6, <1>7, <1>8, RowReserved DEF IInv
<1>10. /\ events' \in Seq(EventRow) /\ events'[t] = e
       /\ \A n \in DOMAIN events \ {t} : events'[n] = events[n]
  BY <1>1, <1>3, <1>5, RowReplaced DEF IInv
<1>11. NotReclaimed
  BY <1>2, <1>5, <1>10 DEF NotReclaimed
<1>12. LocalTypes' /\ Alone(p) /\ Sound(p)'
  BY LeaveSound DEF Enqueue, IInv
<1>13. /\ files' \in [Folders -> Contents \cup {None}] /\ AliasesStay
       /\ aliases' \in [Ids -> Alias]
       /\ edits' \in 0..MaxEdits /\ crashes' \in 0..MaxCrashes /\ failures' \in 0..MaxFailures
  BY DEF Enqueue, IInv, TypeOK, counters, AliasesStay
<1>14. QED
  BY <1>9, <1>10, <1>11, <1>12, <1>13, StepKeeps DEF Kept

(* Taking the event's lock: what was read there is what may be claimed.     *)
LEMMA ProcessKeeps ==
    ASSUME IInv, NEW p \in Processes, NEW n \in DOMAIN events, NEW retry \in BOOLEAN,
           Process(p, n, retry)
    PROVE  IInv' /\ Kept
<1>1. /\ files' \in [Folders -> Contents \cup {None}] /\ AliasesStay
      /\ runs' \in Seq(Reserved) /\ aliases' \in [Ids -> Alias]
      /\ edits' \in 0..MaxEdits /\ crashes' \in 0..MaxCrashes /\ failures' \in 0..MaxFailures
      /\ UNCHANGED <<runs, aliases>>
  BY DEF Process, IInv, TypeOK, counters, AliasesStay
<1>2. CASE ~ Free(n)
  <2>1. UNCHANGED events /\ Leave(p)
    BY <1>2 DEF Process
  <2>2. UNCHANGED database
    BY <1>1, <2>1 DEF database
  <2>3. QED
    BY <1>1, <2>1, <2>2, LeaveSound, StayKeeps DEF IInv
<1>3. CASE Free(n)
  <2>1. events' = [k \in DOMAIN events |-> Synchronized(events[k])]
    BY <1>3 DEF Process
  <2>2. Tables' /\ Kept /\ events' \in Seq(EventRow) /\ DOMAIN events' = DOMAIN events
    BY <1>1, <2>1, SynchronizedKept
  <2>3. CASE Leave(p)
    BY <1>1, <2>2, <2>3, LeaveSound, StepKeeps DEF IInv, Kept
  <2>4. CASE /\ ~ Refused(events'[n], retry) /\ Goto(p, "claiming")
             /\ target' = [target EXCEPT ![p] = n]
             /\ row' = [row EXCEPT ![p] = events'[n]]
             /\ doc' = [doc EXCEPT ![p] = NoDoc]
    <3>1. n \in Nat
      BY TableTypes DEF IInv
    <3>2. events'[n] \in EventRow
      BY <2>2, LenProperties, ElementOfSeq
    <3>3. /\ LocalTypes' /\ Alone(p)
          /\ pc'[p] = "claiming" /\ target'[p] = n /\ row'[p] = events'[n]
      BY <2>4, <3>1, <3>2, Blank DEF IInv, TypeOK, LocalTypes, Goto, Alone, Holding
    <3>4. events'[n].status \notin {"INVALID", "WAITING_FOR_APPROVAL", "COMPLETED"}
      BY <2>4 DEF Refused
    <3>5. Sound(p)'
      BY <2>2, <3>3, <3>4 DEF Sound, Valid, Holding
    <3>6. QED
      BY <1>1, <2>2, <3>3, <3>5, StepKeeps DEF Kept
  <2>5. QED
    BY <1>3, <2>3, <2>4 DEF Process
<1>4. QED
  BY <1>2, <1>3

(* What a claim writes: the row it finds, CLAIMED, with a run reserved.     *)
LEMMA ClaimKeeps ==
    ASSUME IInv, NEW p \in Processes, Claim(p)
    PROVE  IInv' /\ Kept
<1> DEFINE t == target[p]
           c == Claimed(events[t])
           e == Reserve(c).row
<1>1. t \in DOMAIN events /\ Valid(t) /\ events[t] \in EventRow
      /\ events[t].status \notin {"INVALID", "WAITING_FOR_APPROVAL", "COMPLETED"}
  BY ProcessesSound, TableTypes DEF IInv, Sound, Claim, Unmoved, At, Holding
<1>2. events' = [events EXCEPT ![t] = e] /\ runs' = Reserve(c).runs
  BY DEF Claim
<1>3. /\ c \in EventRow /\ c.status = "CLAIMED"
      /\ c.doc = events[t].doc /\ c.run = events[t].run /\ c.job = events[t].job
  <2> DEFINE k == IF events[t].claims < MaxClaims THEN events[t].claims + 1
                  ELSE events[t].claims
  <2>1. events[t].claims \in 0..MaxClaims
    BY <1>1 DEF EventRow
  <2>2. k \in 0..MaxClaims
    BY <2>1, IngestionConstants
  <2>3. c = [events[t] EXCEPT !.status = "CLAIMED", !.retryable = FALSE, !.claims = k]
    BY DEF Claimed
  <2> HIDE DEF k
  <2>4. QED
    BY <1>1, <2>2, <2>3 DEF EventRow, EventStatus
<1>4. events[t].run \in 0..Len(runs) /\ events[t].job \in {0, events[t].run}
  BY <1>1 DEF IInv, Tables, Reservations
<1> HIDE DEF c
<1>5. /\ e \in EventRow /\ e.doc = c.doc /\ e.status = "CLAIMED" /\ e.job = c.job
      /\ e.run = IF c.run = 0 THEN Len(runs) + 1 ELSE c.run
      /\ runs' = IF c.run = 0 THEN Append(runs, Unused) ELSE runs
  <2>1. CASE c.run # 0
    BY <1>2, <1>3, <2>1 DEF Reserve, EventRow
  <2>2. CASE c.run = 0
    <3>1. Len(runs) + 1 \in Nat
      BY TableTypes DEF IInv
    <3>2. QED
      BY <1>2, <1>3, <2>2, <3>1 DEF Reserve, EventRow
  <2>3. QED
    BY <2>1, <2>2
<1> HIDE DEF e
<1>6. Follows(e, events[t]) /\ e.job \in {0, e.run}
  BY <1>1, <1>3, <1>4, <1>5 DEF Follows
<1>7. \/ e.run = events[t].run /\ e.run # 0 /\ UNCHANGED runs
      \/ events[t].run = 0 /\ e.run = Len(runs) + 1 /\ runs' = Append(runs, Unused)
  BY <1>3, <1>5
<1>8. runs' \in Seq(Reserved) /\ Tables' /\ Grows /\ events'[t].run # 0
  BY <1>1, <1>2, <1>5, <1>6, <1>7, RowReserved DEF IInv
<1>9. /\ events' \in Seq(EventRow) /\ events'[t] = e /\ DOMAIN events' = DOMAIN events
      /\ \A n \in DOMAIN events \ {t} : events'[n] = events[n]
  BY <1>1, <1>2, <1>5, RowReplaced DEF IInv
<1>10. NotReclaimed
  BY <1>1, <1>9 DEF NotReclaimed
<1>11. UNCHANGED <<files, aliases, locals, counters>> /\ Goto(p, "executing")
  BY DEF Claim
<1>12. LocalTypes' /\ Alone(p) /\ pc'[p] = "executing"
  BY <1>11, GotoAlone DEF IInv, Holding
<1>13. Sound(p)'
  BY <1>1, <1>5, <1>8, <1>9, <1>11, <1>12 DEF Sound, Valid, Holding, locals
<1>14. /\ files' \in [Folders -> Contents \cup {None}] /\ AliasesStay
       /\ aliases' \in [Ids -> Alias]
       /\ edits' \in 0..MaxEdits /\ crashes' \in 0..MaxCrashes /\ failures' \in 0..MaxFailures
  BY <1>11 DEF IInv, TypeOK, counters, AliasesStay
<1>15. QED
  BY <1>8, <1>9, <1>10, <1>12, <1>13, <1>14, StepKeeps DEF Kept

(* The event somebody executes, and its run.                                *)
LEMMA Executed ==
    ASSUME IInv, NEW p \in Processes, pc[p] \in Holding \ {"claiming"}
    PROVE  /\ target[p] \in DOMAIN events /\ Valid(target[p])
           /\ events[target[p]] \in EventRow
           /\ events[target[p]].run # 0 /\ events[target[p]].run \in DOMAIN runs
<1>1. target[p] \in DOMAIN events /\ Valid(target[p]) /\ events[target[p]].run # 0
  BY ProcessesSound DEF IInv, Sound, Holding
<1>2. QED
  BY <1>1, RunSeen, TableTypes DEF IInv, Tables

(* The run of no other event is created in passing.                         *)
LEMMA ExecuteKeeps ==
    ASSUME IInv, NEW p \in Processes, Execute(p)
    PROVE  IInv' /\ Kept
<1> DEFINE t == target[p]
           i == events[t].run
           r == [run |-> [NoRun EXCEPT !.status = "RUNNING"],
                 content |-> events[t].doc.content]
<1>1. t \in DOMAIN events /\ Valid(t) /\ events[t] \in EventRow /\ i # 0 /\ i \in DOMAIN runs
  BY Executed DEF Execute, At, Holding
<1>2. UNCHANGED <<files, events, aliases, locals, counters>> /\ Goto(p, "running")
  BY DEF Execute
<1>3. Tables' /\ Grows /\ runs' \in Seq(Reserved)
  <2>1. CASE UNCHANGED runs
    BY <1>2, <2>1, TablesStay DEF IInv, TypeOK
  <2>2. CASE runs' = [runs EXCEPT ![i] = r]
    <3>1. r \in Reserved /\ r.run.status # "NONE"
      BY <1>1 DEF Reserved, NoRun, Run, RunStatus, EventRow, Document
    <3>2. \A n \in DOMAIN events : events[n].run = i => n = t
      BY <1>1 DEF IInv, Tables, Reservations
    <3>3. OwnersReceived(i, r.content)
      BY <3>2 DEF OwnersReceived
    <3> HIDE DEF r, i
    <3>4. UNCHANGED events /\ TypeOK /\ Tables
      BY <1>2 DEF IInv
    <3>5. QED
      BY <1>1, <2>2, <3>1, <3>3, <3>4, RunMoves
  <2>3. QED
    BY <2>1, <2>2 DEF Execute
<1>4. LocalTypes' /\ Alone(p) /\ pc'[p] = "running"
  BY <1>2, GotoAlone DEF IInv, Holding
<1>5. Sound(p)'
  BY <1>1, <1>2, <1>4 DEF Sound, Valid, Holding, locals
<1>6. /\ files' \in [Folders -> Contents \cup {None}] /\ AliasesStay /\ NotReclaimed
      /\ aliases' \in [Ids -> Alias] /\ events' \in Seq(EventRow)
      /\ edits' \in 0..MaxEdits /\ crashes' \in 0..MaxCrashes /\ failures' \in 0..MaxFailures
  BY <1>2 DEF IInv, TypeOK, counters, AliasesStay, NotReclaimed
<1>7. QED
  BY <1>3, <1>4, <1>5, <1>6, StepKeeps DEF Kept

(* Replacing the row of an event by one that says something else about the  *)
(* progress of its run.                                                     *)
LEMMA RowMoved ==
    ASSUME IInv, UNCHANGED <<runs, aliases>>, NEW t \in DOMAIN events, NEW e \in EventRow,
           events' = [events EXCEPT ![t] = e], Follows(e, events[t]),
           e.run = events[t].run, e.job = events[t].job,
           e.status = "CLAIMED" => events[t].status = "CLAIMED",
           RunOf(events[t]).run = NoRun =>
              \/ e.status = events[t].status /\ e.retryable = events[t].retryable
              \/ e.status = "FAILED" /\ e.retryable
    PROVE  Tables' /\ Kept /\ events' \in Seq(EventRow) /\ DOMAIN events' = DOMAIN events
<1>1. /\ events' \in Seq(EventRow) /\ DOMAIN events' = DOMAIN events /\ events'[t] = e
      /\ \A n \in DOMAIN events \ {t} : events'[n] = events[n]
  BY RowReplaced DEF IInv
<1>2. \A n \in DOMAIN events :
         /\ Follows(events'[n], events[n])
         /\ events'[n].run = events[n].run /\ events'[n].job = events[n].job
         /\ RunOf(events[n]).run = NoRun =>
               \/ /\ events'[n].status = events[n].status
                  /\ events'[n].retryable = events[n].retryable
               \/ events'[n].status = "FAILED" /\ events'[n].retryable
  BY <1>1 DEF Follows
<1>3. Tables' /\ Grows
  BY <1>1, <1>2, RowsMove DEF IInv
<1>4. NotReclaimed /\ AliasesStay
  BY <1>1 DEF NotReclaimed, AliasesStay
<1>5. QED
  BY <1>1, <1>3, <1>4 DEF Kept

(* An execution that fails leaves the event open to a retry.                *)
LEMMA ExecuteFailKeeps ==
    ASSUME IInv, NEW p \in Processes, ExecuteFail(p)
    PROVE  IInv' /\ Kept
<1> DEFINE t == target[p]
           e == [events[t] EXCEPT !.status = "FAILED", !.retryable = TRUE]
<1>1. t \in DOMAIN events /\ Valid(t) /\ events[t] \in EventRow /\ events[t].run # 0
  BY Executed DEF ExecuteFail, Holding
<1>2. /\ UNCHANGED <<files, aliases, runs, locals, edits, crashes>> /\ Goto(p, "closing")
      /\ failures' \in 0..MaxFailures
  BY IngestionConstants DEF ExecuteFail, IInv, TypeOK
<1>3. events' = [events EXCEPT ![t] = e]
  BY <1>1 DEF ExecuteFail
<1>4. /\ e \in EventRow /\ Follows(e, events[t]) /\ e.status = "FAILED" /\ e.retryable
      /\ e.run = events[t].run /\ e.job = events[t].job
  BY <1>1 DEF EventRow, EventStatus, Follows, Valid
<1> HIDE DEF e
<1>5. Tables' /\ Kept /\ events' \in Seq(EventRow) /\ DOMAIN events' = DOMAIN events
  BY <1>1, <1>2, <1>3, <1>4, RowMoved
<1>6. LocalTypes' /\ Alone(p) /\ pc'[p] = "closing"
  BY <1>2, GotoAlone DEF IInv, Holding
<1>7. events'[t].status # "INVALID" /\ events'[t].run # 0
  BY <1>1, <1>5 DEF Kept, Grows, Follows, Valid
<1>8. Sound(p)'
  BY <1>1, <1>2, <1>5, <1>6, <1>7 DEF Sound, Valid, Holding, locals
<1>9. /\ files' \in [Folders -> Contents \cup {None}] /\ runs' \in Seq(Reserved)
      /\ aliases' \in [Ids -> Alias] /\ edits' \in 0..MaxEdits /\ crashes' \in 0..MaxCrashes
  BY <1>2 DEF IInv, TypeOK
<1>10. QED
  BY <1>2, <1>5, <1>6, <1>8, <1>9, StepKeeps DEF Kept

(* The last synchronization, and the release of the event's lock.           *)
LEMMA CloseKeeps ==
    ASSUME IInv, NEW p \in Processes, Close(p)
    PROVE  IInv' /\ Kept
<1> DEFINE t == target[p]
           e == Synchronized(events[t])
<1>1. t \in DOMAIN events
  BY Executed DEF Close, At, Holding
<1>2. events' = [events EXCEPT ![t] = e]
  BY DEF Close
<1>3. /\ e \in EventRow /\ Follows(e, events[t])
      /\ e.run = events[t].run /\ e.job = events[t].job
      /\ e.status = "CLAIMED" => events[t].status = "CLAIMED"
      /\ RunOf(events[t]).run = NoRun => e = events[t]
  BY <1>1, SynchronizedRow DEF IInv, Tables, Follows
<1> HIDE DEF e
<1>4. Tables' /\ Kept /\ events' \in Seq(EventRow)
  BY <1>1, <1>2, <1>3, RowMoved DEF Close
<1>5. LocalTypes' /\ Alone(p) /\ Sound(p)'
  BY LeaveSound DEF Close, IInv
<1>6. /\ files' \in [Folders -> Contents \cup {None}]
      /\ runs' \in Seq(Reserved) /\ aliases' \in [Ids -> Alias]
      /\ edits' \in 0..MaxEdits /\ crashes' \in 0..MaxCrashes /\ failures' \in 0..MaxFailures
  BY DEF Close, IInv, TypeOK, counters
<1>7. QED
  BY <1>4, <1>5, <1>6, StepKeeps DEF Kept

(* The workflow or a human decision moves a run on.                         *)
LEMMA WorkKeeps ==
    ASSUME IInv, NEW i \in DOMAIN runs, Work(i)
    PROVE  IInv' /\ Kept
<1>1. PICK s \in Run : RunStep(runs[i].run, s) /\ runs' = [runs EXCEPT ![i].run = s]
  BY DEF Work
<1> DEFINE r == [runs[i] EXCEPT !.run = s]
<1>2. runs[i] \in Reserved /\ runs[i].run # NoRun
  BY TableTypes DEF Work, IInv
<1>3. /\ r \in Reserved /\ r.run = s /\ r.content = runs[i].content
      /\ runs' = [runs EXCEPT ![i] = r]
  BY <1>1, <1>2 DEF Reserved
<1>4. r.run.status # "NONE"
  <2>1. runs[i].run.status # "NONE" /\ runs[i].run \in Run
    BY <1>2 DEF IInv, Tables, Creations, Reserved
  <2>2. QED
    BY <1>1, <1>2, <1>3, <2>1 DEF RunStep, RunCreated, RunRestarted, RunFailed, RunPaused,
       RunDecidedOn, RunSucceeded, RunLimited, Run
<1>5. OwnersReceived(i, r.content)
  <2>1. ASSUME NEW n \in DOMAIN events, events[n].run = i
        PROVE  r.content = events[n].doc.content
    <3>1. i # 0
      BY TableTypes DEF IInv
    <3>2. RunOf(events[n]) = runs[i]
      BY <2>1, <3>1 DEF RunOf
    <3>3. QED
      BY <1>2, <1>3, <3>2 DEF IInv, Tables, Creations, CreatedAsReceived
  <2>2. QED
    BY <2>1 DEF OwnersReceived
<1> HIDE DEF r
<1>6. UNCHANGED <<files, events, aliases, pc, locals, counters>>
  BY DEF Work
<1>7. Tables' /\ Grows /\ runs' \in Seq(Reserved)
  <2>1. UNCHANGED events /\ TypeOK /\ Tables
    BY <1>6 DEF IInv
  <2>2. QED
    BY <1>3, <1>4, <1>5, <2>1, RunMoves
<1>8. PICK p : p \notin Processes
  BY NoSetContainsEverything
<1>9. LocalTypes' /\ Alone(p)
  BY <1>6, NobodyMoves DEF IInv
<1>10. /\ files' \in [Folders -> Contents \cup {None}] /\ AliasesStay /\ NotReclaimed
       /\ aliases' \in [Ids -> Alias] /\ events' \in Seq(EventRow)
       /\ edits' \in 0..MaxEdits /\ crashes' \in 0..MaxCrashes /\ failures' \in 0..MaxFailures
  BY <1>6 DEF IInv, TypeOK, counters, AliasesStay, NotReclaimed
<1>11. QED
  BY <1>7, <1>8, <1>9, <1>10, StepKeeps DEF Kept

(* Every step of the specification keeps the invariant, and what the action *)
(* properties say.                                                          *)
LEMMA NextKeeps == IInv /\ [Next]_vars => IInv' /\ Kept
<1> SUFFICES ASSUME IInv, [Next]_vars
             PROVE  IInv' /\ Kept
  OBVIOUS
<1>1. ASSUME NEW p \in Processes, Step(p)
      PROVE  IInv' /\ Kept
  <2>1. ASSUME NEW n \in DOMAIN events, Process(p, n, FALSE)
        PROVE  IInv' /\ Kept
    BY <2>1, ProcessKeeps
  <2>2. QED
    BY <1>1, <2>1, RejectKeeps, PersistKeeps, EnqueueKeeps, ClaimKeeps, MoveKeeps,
       ExecuteKeeps, ExecuteFailKeeps, CloseKeeps DEF Step
<1>2. ASSUME NEW p \in Processes, NEW n \in DOMAIN events, Retry(p, n)
      PROVE  IInv' /\ Kept
  BY <1>2, ProcessKeeps DEF Retry
<1>3. CASE UNCHANGED vars
  <2>1. UNCHANGED database /\ UNCHANGED <<pc, locals, files, edits, crashes, failures>>
    BY <1>3 DEF vars, counters
  <2>2. PICK p : p \notin Processes
    BY NoSetContainsEverything
  <2>3. LocalTypes' /\ Alone(p)
    BY <2>1, NobodyMoves DEF IInv
  <2>4. QED
    BY <2>1, <2>2, <2>3, StayKeeps DEF IInv, TypeOK
<1>4. QED
  BY <1>1, <1>2, <1>3, MoveKeeps, EditKeeps, ObserveKeeps, WorkKeeps DEF Next

----------------------------------------------------------------------------
(* Theorems *)

(* The rows of events, runs and external ids keep their types, and every    *)
(* process works on an event it may work on, with its run reserved.         *)
THEOREM Invariance == Spec => []IInv
<1>1. QED
  BY InitSound, NextKeeps, PTL DEF Spec

(* Whoever submits what under which id, at the same time or after a crash,  *)
(* contents, events, runs and jobs stay one to one, and what was accepted   *)
(* under an id is what the id is bound to.                                  *)
THEOREM IdentityAlwaysHolds == Spec => []IdentityHolds
<1>1. IInv => IdentityHolds
  <2> SUFFICES ASSUME IInv
               PROVE  IdentityHolds
    OBVIOUS
  <2>1. ASSUME NEW i \in DOMAIN runs
        PROVE  Cardinality({n \in DOMAIN events : events[n].run = i}) = 1
    <3>1. PICK n \in DOMAIN events : events[n].run = i
      BY DEF IInv, Tables, Reservations
    <3>2. i # 0
      BY TableTypes DEF IInv
    <3>3. \A m \in DOMAIN events : events[m].run = i => m = n
      BY <3>1, <3>2 DEF IInv, Tables, Reservations
    <3>4. {m \in DOMAIN events : events[m].run = i} = {n}
      BY <3>1, <3>3
    <3>5. QED
      BY <3>4, FS_Singleton
  <2>2. OneRunPerContent
    BY <2>1 DEF OneRunPerContent, IInv, Tables, Reservations, Canonicals
  <2>3. QED
    BY <2>2 DEF IInv, IdentityHolds
<1>2. QED
  BY Invariance, <1>1, PTL

(* A run never has other bytes than the event it was reserved for, however  *)
(* the files change between receipt and execution.                          *)
THEOREM AlwaysCreatedAsReceived == Spec => []CreatedAsReceived
<1>1. IInv => CreatedAsReceived
  BY DEF IInv, Tables, Creations
<1>2. QED
  BY Invariance, <1>1, PTL

(* No crash and no failure leaves an event without a run that an explicit   *)
(* retry would refuse.                                                      *)
THEOREM NeverLeftStranded == Spec => []NeverStranded
<1>1. IInv => NeverStranded
  BY DEF IInv, Tables, Recoverable, NeverStranded, Refused
<1>2. QED
  BY Invariance, <1>1, PTL

(* External ids stay bound, and events keep their run and their job.        *)
THEOREM BindingsAlwaysKept == Spec => BindingsKept
<1>1. Kept => /\ \A x \in Ids : aliases[x] # Unbound => aliases'[x] = aliases[x]
              /\ \A n \in DOMAIN events :
                    /\ n \in DOMAIN events' /\ events'[n].doc = events[n].doc
                    /\ events[n].run # 0 => events'[n].run = events[n].run
                    /\ events[n].job # 0 => events'[n].job = events[n].job
  BY DEF Kept, Grows, Follows, AliasesStay
<1>2. QED
  BY Invariance, NextKeeps, <1>1, PTL DEF Spec, BindingsKept

(* A claim that was overtaken by the end of the run, or by its wait for a   *)
(* human decision, is refused.                                              *)
THEOREM FinishedNeverReclaimed == Spec => FinishedNotReclaimed
<1>1. Kept => \A n \in DOMAIN events :
                 events[n].status \in {"WAITING_FOR_APPROVAL", "COMPLETED", "INVALID"}
                 => events'[n].status # "CLAIMED"
  BY DEF Kept, NotReclaimed
<1>2. QED
  BY Invariance, NextKeeps, <1>1, PTL DEF Spec, FinishedNotReclaimed
============================================================================
