--------------------------- MODULE ReportsProofs ----------------------------
(***************************************************************************)
(* The properties of the report files, for any processes, files and        *)
(* versions: the writers exclude each other, so that what the one holder   *)
(* of the run lock read is still the run's state when it writes.           *)
(***************************************************************************)
EXTENDS Reports, TLAPS

Holding == {"locked", "reading", "prepared", "writing", "replacing"}
Telling == {"prepared", "writing", "replacing"}
Writing == {"writing", "replacing"}

Quiet == \A p \in Processes : pc[p] \notin Writing

(* a worker has yet to read the row it settled                              *)
Pending == \E w \in Workers : pc[w] \in {"settled", "reading", "prepared"}

Locked == \A p \in Processes : pc[p] \in Holding => lock = p

(* what a holder read of the run still stands                               *)
ToldOfRun ==
    /\ \A f \in FileSet : file[f].run <= run
    /\ \A p \in Processes : pc[p] \in Telling => shown[p].run = run

(* a publication under way has written the files before its place           *)
Prefix ==
    /\ \A p \in Processes : pc[p] = "replacing" => at[p] <= Len(Files)
    /\ \A p \in Processes : pc[p] \notin Writing => at[p] = 1
    /\ \A p \in Processes : pc[p] \in Writing =>
          \A i \in 1..Len(Files) :
             i < at[p] /\ Files[i] \in Shows[run] => file[Files[i]] = shown[p]

Unblocked == \A p \in Processes : pc[p] \in Writing => Shows[run] \cap blocked = {}

Litter == ~ crashed => \A p \in temps : pc[p] = "replacing"

Agreed ==
    ~ failed /\ Quiet =>
        \A f \in Shows[run] : file[f].run = run /\ file[f] = file[Files[1]]

(* a settlement that no publication tells of yet is still to be told        *)
Due ==
    /\ \A p \in Processes :
          pc[p] \in Writing /\ ~ skipped /\ shown[p].queue # queued => Pending
    /\ ~ failed /\ ~ skipped /\ Quiet =>
          Pending \/ \A f \in Shows[run] : file[f].queue = queued

IInv == /\ TypeOK /\ Locked /\ ToldOfRun /\ Prefix /\ FirstIsNewest
        /\ Unblocked /\ Litter /\ Agreed /\ Due

----------------------------------------------------------------------------
(* The files are numbered, and each version of the run shows some of them.  *)
LEMMA FileFacts ==
    /\ Len(Files) \in Nat /\ Len(Files) >= 1
    /\ \A i \in 1..Len(Files) : Files[i] \in FileSet
    /\ Files[1] \in FileSet
    /\ \A f \in FileSet : \E i \in 1..Len(Files) : f = Files[i]
    /\ \A v \in Versions : Shows[v] \subseteq FileSet /\ Files[1] \in Shows[v]
    /\ Clients \subseteq Processes /\ Workers \subseteq Processes
<1>1. Len(Files) \in Nat /\ Len(Files) >= 1
  BY ReportsConstants
<1>2. 1 \in 1..Len(Files)
  BY <1>1
<1>3. QED
  BY <1>1, <1>2, ReportsConstants DEF FileSet, Processes

(* What the typing says of the numbers that are compared.                   *)
LEMMA NumberFacts ==
    ASSUME TypeOK
    PROVE  /\ run \in Nat /\ queued \in Nat /\ MaxVersion \in Nat /\ MaxSettled \in Nat
           /\ run \in Versions
           /\ \A f \in FileSet : file[f].run \in Nat /\ file[f].queue \in Nat
           /\ \A p \in Processes : /\ at[p] \in Nat /\ at[p] >= 1
                                    /\ at[p] <= Len(Files) + 1
                                    /\ shown[p].run \in Nat /\ shown[p].queue \in Nat
<1>1. run \in 1..MaxVersion /\ MaxVersion \in Nat /\ MaxSettled \in Nat
  BY ReportsConstants DEF TypeOK, Versions
<1>2. \A c \in Contents : c.run \in 0..MaxVersion /\ c.queue \in 0..MaxSettled
  BY DEF Contents
<1>3. ASSUME NEW p \in Processes
      PROVE  at[p] \in 1..(Len(Files) + 1) /\ shown[p] \in Contents
  BY DEF TypeOK
<1>4. \A f \in FileSet : file[f] \in Contents
  BY DEF TypeOK
<1>5. QED
  BY <1>1, <1>2, <1>3, <1>4, FileFacts DEF TypeOK, Versions

(* The contents that are written.                                           *)
LEMMA ContentsFacts ==
    ASSUME TypeOK
    PROVE  /\ Absent \in Contents
           /\ [run |-> run, queue |-> 0] \in Contents
           /\ \A p \in Processes : [run |-> shown[p].run, queue |-> queued] \in Contents
<1>1. \A p \in Processes : shown[p] \in Contents
  BY DEF TypeOK
<1>2. 0 \in 0..MaxVersion /\ 0 \in 0..MaxSettled /\ run \in 0..MaxVersion
  BY ReportsConstants DEF TypeOK, Versions
<1>3. QED
  BY <1>1, <1>2 DEF Contents, Absent, TypeOK

(* A process that leaves the run is back where it began.                    *)
LEMMA LeaveTypes ==
    ASSUME TypeOK, NEW p \in Processes, Leave(p)
    PROVE  /\ pc' \in [Processes -> Stages] /\ lock' \in Processes \cup {NoOne}
           /\ shown' \in [Processes -> Contents]
           /\ at' \in [Processes -> 1..(Len(Files) + 1)]
<1>1. Absent \in Contents /\ "idle" \in Stages /\ 1 \in 1..(Len(Files) + 1)
  BY ContentsFacts, FileFacts DEF Stages
<1> HIDE DEF Absent
<1>2. QED
  BY <1>1 DEF TypeOK, Leave, Goto

(* A step of one process keeps every record's type.                         *)
LEMMA StepTypes == ASSUME TypeOK, Prefix, NEW p \in Processes, Step(p) PROVE TypeOK'
<1> USE DEF TypeOK, Goto
<1>1. CASE Lock(p) \/ Skip(p)
  BY <1>1 DEF Lock, Skip, Stages
<1>2. CASE Change(p)
  <2>1. run + 1 \in Versions
    BY <1>2, NumberFacts DEF Change, Versions
  <2>2. QED
    BY <1>2, <2>1 DEF Change
<1>3. CASE GiveUp(p) \/ Fail(p) \/ Published(p) \/ Crash(p)
  <2>1. /\ Leave(p) /\ UNCHANGED <<run, queued, file, blocked>>
        /\ temps' \in {temps, temps \ {p}}
    BY <1>3 DEF GiveUp, Fail, Published, Crash, Unlinked
  <2>2. failed' \in BOOLEAN /\ skipped' \in BOOLEAN /\ crashed' \in BOOLEAN
    BY <1>3 DEF GiveUp, Fail, Published, Crash
  <2>3. QED
    BY <2>1, <2>2, LeaveTypes
<1>4. CASE ReadRun(p)
  <2> DEFINE c == [run |-> run, queue |-> 0]
  <2>1. c \in Contents /\ shown' = [shown EXCEPT ![p] = c]
    BY <1>4, ContentsFacts DEF ReadRun
  <2> HIDE DEF c
  <2>2. QED
    BY <1>4, <2>1 DEF ReadRun, Stages
<1>5. CASE Prepare(p)
  <2> DEFINE c == [run |-> shown[p].run, queue |-> queued]
  <2>1. c \in Contents
    BY ContentsFacts
  <2>2. CASE Leave(p) /\ failed' = TRUE
    BY <1>5, <2>2, LeaveTypes DEF Prepare
  <2>3. CASE shown' = [shown EXCEPT ![p] = c] /\ Goto(p, "writing") /\ UNCHANGED <<lock, at, failed>>
    <3> HIDE DEF c
    <3>1. QED
      BY <1>5, <2>1, <2>3 DEF Prepare, Stages
  <2>4. QED
    BY <1>5, <2>2, <2>3 DEF Prepare
<1>6. CASE PassOver(p)
  <2>1. at[p] + 1 \in 1..(Len(Files) + 1)
    BY <1>6, NumberFacts, FileFacts DEF PassOver
  <2>2. QED
    BY <1>6, <2>1 DEF PassOver, Following
<1>7. CASE WriteTemp(p)
  BY <1>7 DEF WriteTemp, Stages
<1>8. CASE Replace(p)
  <2>1. at[p] + 1 \in 1..(Len(Files) + 1)
    BY <1>8, NumberFacts, FileFacts DEF Replace, Prefix
  <2>2. QED
    BY <1>8, <2>1 DEF Replace, Following, Stages
<1>9. CASE Settle(p) \/ SettleUntold(p)
  <2>1. queued + 1 \in 0..MaxSettled
    BY <1>9, NumberFacts DEF Settle, SettleUntold
  <2>2. QED
    BY <1>9, <2>1 DEF Settle, SettleUntold, Stages
<1>10. QED
  BY <1>1, <1>2, <1>3, <1>4, <1>5, <1>6, <1>7, <1>8, <1>9 DEF Step

(* Nothing is written and nobody is at work when the processes start.       *)
LEMMA InitInv == Init => IInv
<1> SUFFICES ASSUME Init PROVE IInv
  OBVIOUS
<1>1. TypeOK
  <2>1. Absent \in Contents /\ 1 \in Versions /\ 0 \in 0..MaxSettled /\ 1 \in 1..(Len(Files) + 1)
    BY ReportsConstants, FileFacts DEF Contents, Absent, Versions
  <2> HIDE DEF Absent
  <2>2. QED
    BY <2>1 DEF Init, TypeOK, Stages
<1>2. \A p \in Processes : pc[p] = "idle"
  BY DEF Init
<1>3. Locked /\ Prefix /\ Unblocked
  BY <1>2 DEF Init, Locked, Prefix, Unblocked, Holding, Writing
<1>4. ToldOfRun /\ FirstIsNewest
  BY <1>2, FileFacts DEF Init, ToldOfRun, FirstIsNewest, Telling, Absent
<1>5. Litter /\ Agreed /\ Due
  BY <1>2 DEF Init, Litter, Agreed, Due, Writing
<1>6. QED
  BY <1>1, <1>3, <1>4, <1>5 DEF IInv

(* Only the holder of the lock works on the run.                            *)
LEMMA Alone ==
    ASSUME Locked, NEW p \in Processes, pc[p] \in Holding
    PROVE  \A q \in Processes \ {p} : pc[q] \notin Holding
  BY DEF Locked

----------------------------------------------------------------------------
(* Every step keeps the invariant.                                          *)

(* A process that took the free lock is the only one that holds it.         *)
LEMMA LockInv == ASSUME IInv, NEW p \in Processes, Lock(p) PROVE IInv'
<1>1. TypeOK'
  BY StepTypes DEF IInv, Step
<1>2. Locked'
  BY ReportsConstants DEF IInv, TypeOK, Lock, Goto, Free, Locked, Holding
<1>3. ToldOfRun' /\ Prefix'
  BY DEF IInv, TypeOK, Lock, Goto, ToldOfRun, Telling, Prefix, Writing
<1>4. FirstIsNewest' /\ Unblocked' /\ Litter' /\ Agreed'
  BY DEF IInv, TypeOK, Lock, Goto, FirstIsNewest, Unblocked, Writing, Litter, Agreed, Quiet
<1>5. Due'
  BY DEF IInv, TypeOK, Lock, Goto, Due, Quiet, Pending, Writing
<1>6. QED
  BY <1>1, <1>2, <1>3, <1>4, <1>5 DEF IInv

(* The run moves while its lock's holder writes nothing.                    *)
LEMMA ChangeInv == ASSUME IInv, NEW p \in Processes, Change(p) PROVE IInv'
<1>1. TypeOK'
  BY StepTypes DEF IInv, Step
<1>2. Locked' /\ FirstIsNewest' /\ Litter'
  BY DEF IInv, TypeOK, Change, Locked, Holding, FirstIsNewest, Litter, Writing
<1>3. \A q \in Processes : pc[q] \notin Telling /\ pc[q] \notin Writing
  BY Alone DEF IInv, Change, Holding, Telling, Writing
<1>4. ToldOfRun'
  <2>1. run \in Nat /\ \A f \in FileSet : file[f].run \in Nat
    BY NumberFacts DEF IInv
  <2>2. QED
    BY <1>3, <2>1 DEF Change, IInv, ToldOfRun
<1>5. Prefix' /\ Unblocked' /\ Agreed' /\ Due'
  BY <1>3 DEF IInv, Change, Prefix, Unblocked, Agreed, Due, Writing
<1>6. QED
  BY <1>1, <1>2, <1>3, <1>4, <1>5 DEF IInv

(* A refused decision leaves the files alone.                               *)
LEMMA GiveUpInv == ASSUME IInv, NEW p \in Processes, GiveUp(p) PROVE IInv'
<1>1. TypeOK'
  BY StepTypes DEF IInv, Step
<1>2. Locked'
  BY DEF IInv, TypeOK, GiveUp, Leave, Goto, Locked, Holding
<1>3. ToldOfRun' /\ Prefix'
  BY DEF IInv, TypeOK, GiveUp, Leave, Goto, ToldOfRun, Telling, Prefix, Writing
<1>4. FirstIsNewest' /\ Unblocked' /\ Litter' /\ Agreed'
  BY DEF IInv, TypeOK, GiveUp, Leave, Goto, FirstIsNewest, Unblocked, Writing, Litter, Agreed, Quiet
<1>5. Due'
  BY DEF IInv, TypeOK, GiveUp, Leave, Goto, Due, Quiet, Pending, Writing
<1>6. QED
  BY <1>1, <1>2, <1>3, <1>4, <1>5 DEF IInv

(* What is read of the run cannot change before it is written.              *)
LEMMA ReadRunInv == ASSUME IInv, NEW p \in Processes, ReadRun(p) PROVE IInv'
<1>1. TypeOK'
  BY StepTypes DEF IInv, Step
<1>2. Locked' /\ ToldOfRun'
  BY DEF IInv, TypeOK, ReadRun, Goto, Locked, Holding, ToldOfRun, Telling
<1>3. Prefix'
  BY DEF IInv, TypeOK, ReadRun, Goto, Prefix, Writing
<1>4. FirstIsNewest' /\ Unblocked' /\ Litter' /\ Agreed'
  BY DEF IInv, TypeOK, ReadRun, Goto, FirstIsNewest, Unblocked, Writing, Litter, Agreed, Quiet
<1>5. Due'
  BY DEF IInv, TypeOK, ReadRun, Goto, Due, Quiet, Pending, Writing
<1>6. QED
  BY <1>1, <1>2, <1>3, <1>4, <1>5 DEF IInv

(* The publication starts with every destination free.                      *)
LEMMA PrepareInv == ASSUME IInv, NEW p \in Processes, Prepare(p) PROVE IInv'
<1>1. TypeOK'
  BY StepTypes DEF IInv, Step
<1>2. Locked'
  BY DEF IInv, TypeOK, Prepare, Allowed, Leave, Goto, Locked, Holding
<1>3. ToldOfRun'
  <2>1. shown \in [Processes -> Contents] /\ pc[p] \in Telling
    BY DEF IInv, TypeOK, Prepare, Telling
  <2>2. \A q \in Processes : pc'[q] \in Telling => pc[q] \in Telling
    BY DEF IInv, TypeOK, Prepare, Leave, Goto, Telling
  <2>3. \A q \in Processes : pc'[q] \in Telling => shown'[q].run = shown[q].run
    BY <2>1 DEF IInv, TypeOK, Prepare, Leave, Goto, Telling
  <2>4. QED
    BY <2>2, <2>3 DEF IInv, ToldOfRun, Prepare
<1>4. Prefix'
  <2>1. at[p] = 1 /\ pc[p] = "prepared"
    BY DEF IInv, Prefix, Prepare, Writing
  <2>2. \A i \in 1..Len(Files) : ~ (i < 1)
    BY FileFacts
  <2>3. at'[p] = 1 /\ pc'[p] # "replacing"
    BY <2>1 DEF IInv, TypeOK, Prepare, Leave, Goto
  <2>4. /\ UNCHANGED <<run, file>>
        /\ \A q \in Processes \ {p} : /\ at'[q] = at[q] /\ shown'[q] = shown[q]
                                        /\ pc'[q] = pc[q]
    BY DEF IInv, TypeOK, Prepare, Leave, Goto
  <2>5. QED
    BY <2>2, <2>3, <2>4 DEF IInv, Prefix, Writing
<1>5. FirstIsNewest' /\ Litter' /\ Agreed'
  BY DEF IInv, TypeOK, Prepare, Allowed, Leave, Goto, FirstIsNewest, Litter, Writing, Agreed, Quiet
<1>6. Unblocked'
  <2>1. shown[p].run = run
    BY DEF IInv, ToldOfRun, Prepare, Telling
  <2>2. QED
    BY <2>1 DEF IInv, TypeOK, Unblocked, Prepare, Allowed, Leave, Goto, Writing
<1>7. Due'
  <2>1. \A q \in Processes : pc[q] \notin Writing
    BY Alone DEF IInv, Prepare, Holding, Writing
  <2>2. failed' = TRUE \/ ~ Quiet'
    BY DEF IInv, TypeOK, Prepare, Goto, Quiet, Writing
  <2>3. \A q \in Processes : pc'[q] \in Writing => q = p /\ shown'[q].queue = queued
    BY <2>1 DEF IInv, TypeOK, Prepare, Leave, Goto, Writing
  <2>4. QED
    BY <2>2, <2>3 DEF Prepare, Due
<1>8. QED
  BY <1>1, <1>2, <1>3, <1>4, <1>5, <1>6, <1>7 DEF IInv

(* A file without content is none of the publication's.                     *)
LEMMA PassOverInv == ASSUME IInv, NEW p \in Processes, PassOver(p) PROVE IInv'
<1>1. TypeOK'
  BY StepTypes DEF IInv, Step
<1>2. Locked' /\ ToldOfRun' /\ FirstIsNewest'
  BY DEF IInv, TypeOK, PassOver, Locked, Holding, ToldOfRun, Telling, FirstIsNewest
<1>3. Prefix'
  <2>1. /\ at[p] \in Nat /\ at'[p] = at[p] + 1 /\ Files[at[p]] \notin Shows[run]
        /\ \A q \in Processes \ {p} : at'[q] = at[q]
        /\ pc[p] = "writing" /\ UNCHANGED <<run, file, pc, shown>>
    BY NumberFacts DEF IInv, TypeOK, PassOver, Following, ToldOfRun, Telling
  <2>2. \A i \in 1..Len(Files) : i < at'[p] /\ Files[i] \in Shows[run] => i < at[p]
    BY <2>1, FileFacts
  <2>3. QED
    BY <2>1, <2>2 DEF IInv, Prefix, Writing
<1>4. Unblocked' /\ Litter' /\ Agreed'
  BY DEF IInv, TypeOK, PassOver, Unblocked, Writing, Litter, Agreed, Quiet
<1>5. Due'
  BY DEF IInv, TypeOK, PassOver, Due, Quiet, Pending, Writing
<1>6. QED
  BY <1>1, <1>2, <1>3, <1>4, <1>5 DEF IInv

(* A temporary file tells nothing yet.                                      *)
LEMMA WriteTempInv == ASSUME IInv, NEW p \in Processes, WriteTemp(p) PROVE IInv'
<1>1. TypeOK'
  BY StepTypes DEF IInv, Step
<1>2. Locked' /\ ToldOfRun' /\ FirstIsNewest'
  BY DEF IInv, TypeOK, WriteTemp, Goto, Locked, Holding, ToldOfRun, Telling, FirstIsNewest
<1>3. Prefix'
  BY DEF IInv, TypeOK, WriteTemp, Goto, Prefix, Writing
<1>4. Unblocked' /\ Litter'
  BY DEF IInv, TypeOK, WriteTemp, Goto, Unblocked, Writing, Litter
<1>5. Agreed' /\ Due'
  BY DEF IInv, TypeOK, WriteTemp, Goto, Agreed, Quiet, Writing, Due, Pending
<1>6. QED
  BY <1>1, <1>2, <1>3, <1>4, <1>5 DEF IInv

(* The next file joins those already written, the first before them all.    *)
LEMMA ReplaceInv == ASSUME IInv, NEW p \in Processes, Replace(p) PROVE IInv'
<1>1. TypeOK'
  BY StepTypes DEF IInv, Step
<1>2. Locked' /\ Litter'
  BY DEF IInv, TypeOK, Replace, Goto, Locked, Holding, Litter, Writing
<1>3. /\ at[p] \in Nat /\ at[p] >= 1 /\ at[p] <= Len(Files) /\ at'[p] = at[p] + 1
      /\ shown[p].run = run /\ run \in Nat
      /\ \A f \in FileSet : file'[f] = IF f = Files[at[p]] THEN shown[p] ELSE file[f]
      /\ \A q \in Processes \ {p} : pc'[q] = pc[q] /\ at'[q] = at[q] /\ pc[q] \notin Holding
      /\ pc[p] = "replacing" /\ pc'[p] = "writing" /\ UNCHANGED <<run, shown>>
  BY Alone, NumberFacts DEF IInv, TypeOK, Replace, Following, Goto, ToldOfRun, Prefix, Telling, Holding
<1>4. ToldOfRun'
  BY <1>3 DEF IInv, ToldOfRun, Telling, Holding
<1>5. Prefix'
  <2>1. \A i \in 1..Len(Files) : i < at'[p] <=> i < at[p] \/ i = at[p]
    BY <1>3, FileFacts
  <2>2. ASSUME NEW i \in 1..Len(Files), i < at'[p], Files[i] \in Shows[run]
        PROVE  file'[Files[i]] = shown[p]
    BY <1>3, <2>1, <2>2, FileFacts DEF IInv, Prefix, Writing
  <2>3. QED
    BY <1>3, <2>2 DEF IInv, Prefix, Writing, Holding
<1>6. FirstIsNewest'
  <2>1. run \in Versions /\ Files[1] \in Shows[run]
    BY NumberFacts, FileFacts DEF IInv
  <2>2. file'[Files[1]].run = run
    <3>1. CASE at[p] = 1
      BY <1>3, <3>1, FileFacts
    <3>2. CASE 1 < at[p]
      <4>1. 1 \in 1..Len(Files)
        BY FileFacts
      <4>2. file[Files[1]] = shown[p]
        BY <1>3, <2>1, <3>2, <4>1 DEF IInv, Prefix, Writing
      <4>3. QED
        BY <1>3, <4>2, FileFacts
    <3>3. QED
      BY <1>3, <3>1, <3>2
  <2>3. \A f \in FileSet : file'[f].run <= run
    BY <1>3 DEF IInv, ToldOfRun
  <2>4. QED
    BY <2>2, <2>3 DEF FirstIsNewest
<1>7. Unblocked'
  BY DEF IInv, TypeOK, Replace, Goto, Unblocked, Writing
<1>8. Agreed' /\ Due'
  <2>1. ~ Quiet'
    BY <1>3 DEF Quiet, Writing
  <2>2. Pending => Pending'
    BY <1>3, FileFacts DEF Pending, Holding
  <2>3. QED
    BY <1>3, <2>1, <2>2 DEF IInv, Agreed, Due, Replace, Writing, Holding
<1>9. QED
  BY <1>1, <1>2, <1>3, <1>4, <1>5, <1>6, <1>7, <1>8 DEF IInv

(* A publication that fails leaves files of two versions and says so.       *)
LEMMA FailInv == ASSUME IInv, NEW p \in Processes, Fail(p) PROVE IInv'
<1>1. TypeOK'
  BY StepTypes DEF IInv, Step
<1>2. Locked'
  BY DEF IInv, TypeOK, Fail, Unlinked, Leave, Goto, Locked, Holding
<1>3. ToldOfRun' /\ FirstIsNewest'
  BY DEF IInv, TypeOK, Fail, Unlinked, Leave, Goto, ToldOfRun, Telling, FirstIsNewest
<1>4. Prefix'
  BY DEF IInv, TypeOK, Fail, Unlinked, Leave, Goto, Prefix, Writing
<1>5. Unblocked' /\ Litter'
  BY DEF IInv, TypeOK, Fail, Unlinked, Leave, Goto, Unblocked, Writing, Litter
<1>6. Agreed' /\ Due'
  <2>1. \A q \in Processes : pc'[q] \notin Writing
    BY Alone DEF IInv, TypeOK, Fail, Leave, Goto, Holding, Writing
  <2>2. QED
    BY <2>1 DEF Fail, Agreed, Due
<1>7. QED
  BY <1>1, <1>2, <1>3, <1>4, <1>5, <1>6 DEF IInv

(* A finished publication has written every file the run shows.             *)
LEMMA PublishedInv == ASSUME IInv, NEW p \in Processes, Published(p) PROVE IInv'
<1>1. TypeOK'
  BY StepTypes DEF IInv, Step
<1>2. Locked'
  BY DEF IInv, TypeOK, Published, Leave, Goto, Locked, Holding
<1>3. ToldOfRun' /\ FirstIsNewest'
  BY DEF IInv, TypeOK, Published, Leave, Goto, ToldOfRun, Telling, FirstIsNewest
<1>4. Prefix'
  BY DEF IInv, TypeOK, Published, Leave, Goto, Prefix, Writing
<1>5. Unblocked' /\ Litter'
  BY DEF IInv, TypeOK, Published, Leave, Goto, Unblocked, Writing, Litter
<1>6. \A f \in Shows[run] : file[f] = shown[p]
  <2>1. run \in Versions /\ Shows[run] \subseteq FileSet
    BY NumberFacts, FileFacts DEF IInv
  <2>2. \A i \in 1..Len(Files) : i < at[p]
    BY NumberFacts, FileFacts DEF IInv, Published
  <2>3. QED
    BY <2>1, <2>2, FileFacts DEF IInv, Prefix, Published, Writing
<1>7. shown[p].run = run /\ Files[1] \in Shows[run]
  BY NumberFacts, FileFacts DEF IInv, ToldOfRun, Published, Telling
<1>8. Agreed'
  BY <1>6, <1>7 DEF Published, Agreed
<1>9. Due'
  <2>1. \A q \in Processes : pc'[q] \notin Writing
    BY Alone DEF IInv, TypeOK, Published, Leave, Goto, Holding, Writing
  <2>2. Pending => Pending'
    BY FileFacts DEF IInv, TypeOK, Published, Leave, Goto, Pending
  <2>3. CASE shown[p].queue = queued
    BY <1>6, <2>1, <2>3 DEF Published, Due
  <2>4. CASE shown[p].queue # queued
    BY <2>1, <2>2, <2>4 DEF IInv, Published, Due, Writing
  <2>5. QED
    BY <2>3, <2>4
<1>10. QED
  BY <1>1, <1>2, <1>3, <1>4, <1>5, <1>6, <1>7, <1>8, <1>9 DEF IInv

(* A killed process gives up its lock.                                      *)
LEMMA CrashInv == ASSUME IInv, NEW p \in Processes, Crash(p) PROVE IInv'
<1>1. TypeOK'
  BY StepTypes DEF IInv, Step
<1>2. Locked'
  BY DEF IInv, TypeOK, Crash, Leave, Goto, Locked, Holding
<1>3. ToldOfRun' /\ FirstIsNewest'
  BY DEF IInv, TypeOK, Crash, Leave, Goto, ToldOfRun, Telling, FirstIsNewest
<1>4. Prefix'
  BY DEF IInv, TypeOK, Crash, Leave, Goto, Prefix, Writing
<1>5. Unblocked' /\ Litter'
  BY DEF IInv, TypeOK, Crash, Leave, Goto, Unblocked, Writing, Litter
<1>6. Agreed'
  BY DEF IInv, TypeOK, Crash, Leave, Goto, Agreed, Quiet, Writing
<1>7. Due'
  <2>1. CASE p \in Workers
    BY <2>1 DEF Crash, Due
  <2>2. CASE p \notin Workers
    <3>1. Pending => Pending'
      BY <2>2, FileFacts DEF IInv, TypeOK, Crash, Leave, Goto, Pending
    <3>2. \A q \in Processes : pc'[q] \in Writing => pc[q] \in Writing /\ shown'[q] = shown[q]
      BY DEF IInv, TypeOK, Crash, Leave, Goto, Writing
    <3>3. failed' \/ (Quiet' => Quiet)
      BY DEF IInv, TypeOK, Crash, Leave, Goto, Quiet, Writing
    <3>4. QED
      BY <2>2, <3>1, <3>2, <3>3 DEF IInv, Crash, Due
  <2>3. QED
    BY <2>1, <2>2
<1>8. QED
  BY <1>1, <1>2, <1>3, <1>4, <1>5, <1>6, <1>7 DEF IInv

(* A settled delivery waits for its worker to tell it.                      *)
LEMMA SettleInv == ASSUME IInv, NEW p \in Processes, Settle(p) PROVE IInv'
<1>1. TypeOK'
  BY StepTypes DEF IInv, Step
<1>2. Locked' /\ ToldOfRun'
  BY DEF IInv, TypeOK, Settle, Goto, Refreshed, Locked, Holding, ToldOfRun, Telling
<1>3. Prefix'
  BY DEF IInv, TypeOK, Settle, Goto, Refreshed, Prefix, Writing
<1>4. FirstIsNewest' /\ Unblocked' /\ Litter' /\ Agreed'
  BY DEF IInv, TypeOK, Settle, Goto, Refreshed, FirstIsNewest, Unblocked, Writing, Litter, Agreed, Quiet
<1>5. Due'
  BY DEF IInv, TypeOK, Settle, Goto, Refreshed, Due, Quiet, Pending, Writing
<1>6. QED
  BY <1>1, <1>2, <1>3, <1>4, <1>5 DEF IInv

(* A delivery that ends without a refresh is nobody's to tell.              *)
LEMMA SettleUntoldInv == ASSUME IInv, NEW p \in Processes, SettleUntold(p) PROVE IInv'
<1>1. TypeOK'
  BY StepTypes DEF IInv, Step
<1>2. Locked' /\ ToldOfRun' /\ Prefix' /\ FirstIsNewest' /\ Unblocked' /\ Litter' /\ Agreed'
  BY DEF IInv, SettleUntold, Locked, ToldOfRun, Prefix, FirstIsNewest, Unblocked, Litter, Agreed, Quiet
<1>3. Due'
  BY DEF SettleUntold, Due
<1>4. QED
  BY <1>1, <1>2, <1>3 DEF IInv

(* A worker that finds the run busy says so.                                *)
LEMMA SkipInv == ASSUME IInv, NEW p \in Processes, Skip(p) PROVE IInv'
<1>1. TypeOK'
  BY StepTypes DEF IInv, Step
<1>2. Locked' /\ ToldOfRun'
  BY DEF IInv, TypeOK, Skip, Goto, Locked, Holding, ToldOfRun, Telling
<1>3. Prefix'
  BY DEF IInv, TypeOK, Skip, Goto, Prefix, Writing
<1>4. FirstIsNewest' /\ Unblocked' /\ Litter' /\ Agreed'
  BY DEF IInv, TypeOK, Skip, Goto, FirstIsNewest, Unblocked, Writing, Litter, Agreed, Quiet
<1>5. Due'
  BY DEF IInv, TypeOK, Skip, Goto, Due, Quiet, Pending, Writing
<1>6. QED
  BY <1>1, <1>2, <1>3, <1>4, <1>5 DEF IInv

(* Clearing a destination changes nothing that was written.                 *)
LEMMA UnblockInv == ASSUME IInv, NEW f \in FileSet, Unblock(f) PROVE IInv'
<1>1. TypeOK' /\ Locked' /\ ToldOfRun' /\ Prefix' /\ FirstIsNewest'
  BY DEF IInv, Unblock, TypeOK, Locked, ToldOfRun, Prefix, FirstIsNewest
<1>2. Unblocked' /\ Litter' /\ Agreed' /\ Due'
  BY DEF IInv, Unblock, Unblocked, Litter, Agreed, Due, Quiet, Pending
<1>3. QED
  BY <1>1, <1>2 DEF IInv

LEMMA NextInv == ASSUME IInv, [Next]_vars PROVE IInv'
<1>1. CASE UNCHANGED vars
  BY <1>1 DEF vars, IInv, TypeOK, Locked, ToldOfRun, Prefix, FirstIsNewest, Unblocked,
              Litter, Agreed, Due, Quiet, Pending
<1>2. ASSUME NEW p \in Processes, Step(p) PROVE IInv'
  BY <1>2, LockInv, ChangeInv, GiveUpInv, ReadRunInv, PrepareInv, PassOverInv, WriteTempInv,
     ReplaceInv, FailInv, PublishedInv, CrashInv, SettleInv,
     SettleUntoldInv, SkipInv DEF Step
<1>3. QED
  BY <1>1, <1>2, UnblockInv DEF Next

----------------------------------------------------------------------------
(* For any processes, files and versions of the run the reports are written *)
(* by one process at a time (write_workflow_reports under _run_lock).       *)
THEOREM Invariance == Spec => []IInv
<1>1. Init => IInv
  BY InitInv
<1>2. IInv /\ [Next]_vars => IInv'
  BY NextInv
<1>3. QED
  BY <1>1, <1>2, PTL DEF Spec

(* A publication that fails in the middle leaves report.json the newest.    *)
THEOREM FirstStaysNewest == Spec => []FirstIsNewest
<1>1. IInv => FirstIsNewest
  BY DEF IInv
<1>2. QED
  BY <1>1, Invariance, PTL

(* No report ever returns to an earlier state of the run.                   *)
THEOREM ReportsNeverBack == Spec => NeverBack
<1>1. IInv /\ [Next]_vars => [\A f \in FileSet : file'[f].run >= file[f].run]_vars
  <2>1. SUFFICES ASSUME IInv, Next PROVE \A f \in FileSet : file'[f].run >= file[f].run
    OBVIOUS
  <2>2. CASE UNCHANGED file
    BY <2>1, <2>2, NumberFacts DEF IInv
  <2>3. ASSUME NEW p \in Processes, Replace(p)
        PROVE  \A f \in FileSet : file'[f].run >= file[f].run
    <3>1. shown[p].run = run /\ \A f \in FileSet : file[f].run <= run
      BY <2>1, <2>3 DEF IInv, Replace, ToldOfRun, Telling
    <3>2. \A f \in FileSet : file'[f] = file[f] \/ file'[f] = shown[p]
      BY <2>1, <2>3 DEF IInv, TypeOK, Replace
    <3>3. QED
      BY <2>1, <3>1, <3>2, NumberFacts DEF IInv
  <2>4. QED
    BY <2>1, <2>2, <2>3 DEF Next, Step, Lock, Change, GiveUp, ReadRun, Prepare, PassOver,
       WriteTemp, Fail, Published, Crash, Settle, SettleUntold, Skip, Unblock
<1>2. QED
  BY <1>1, Invariance, PTL DEF Spec, NeverBack

(* At rest, unless the latest publication failed, every report the run      *)
(* shows tells its committed state.                                         *)
THEOREM ReportsAgree == Spec => []AgreeAtRest
<1>1. IInv => AgreeAtRest
  BY DEF IInv, AgreeAtRest, AtRest, Agreed, Quiet, Writing
<1>2. QED
  BY <1>1, Invariance, PTL

(* ... and the settled delivery, unless it ended without a refresh.         *)
THEOREM SettlementsTold == Spec => []SettlementShown
<1>1. IInv => SettlementShown
  BY FileFacts DEF IInv, SettlementShown, AtRest, Due, Quiet, Pending, Writing
<1>2. QED
  BY <1>1, Invariance, PTL

(* One destination that is not free refuses the whole publication.          *)
THEOREM PublishedWhole == Spec => AllOrNothing
<1>1. IInv /\ [Next]_vars => [file' # file => Shows[run] \cap blocked = {}]_vars
  <2>1. SUFFICES ASSUME IInv, Next, file' # file PROVE Shows[run] \cap blocked = {}
    OBVIOUS
  <2>2. \E p \in Processes : Replace(p)
    BY <2>1 DEF Next, Step, Lock, Change, GiveUp, ReadRun, Prepare, PassOver,
       WriteTemp, Fail, Published, Crash, Settle, SettleUntold, Skip, Unblock
  <2>3. QED
    BY <2>1, <2>2 DEF IInv, Unblocked, Replace, Writing
<1>2. QED
  BY <1>1, Invariance, PTL DEF Spec, AllOrNothing

(* No temporary file outlives a process that was not killed.                *)
THEOREM NothingLeft == Spec => []NoLitter
<1>1. IInv => NoLitter
  BY DEF IInv, TypeOK, NoLitter, AtRest, Litter
<1>2. QED
  BY <1>1, Invariance, PTL

(* What the reports tell fits together, whichever publication failed.       *)
THEOREM ReportsStayConsistent == Spec => []ReportsConsistent
<1>1. FirstIsNewest /\ AgreeAtRest /\ SettlementShown /\ NoLitter => ReportsConsistent
  BY DEF ReportsConsistent
<1>2. QED
  BY <1>1, FirstStaysNewest, ReportsAgree, SettlementsTold, NothingLeft, PTL

(* Publications bring the reports forward, and all of them or none.         *)
THEOREM PublicationsSafe == Spec => PublicationSafe
  BY ReportsNeverBack, PublishedWhole DEF PublicationSafe
=============================================================================
