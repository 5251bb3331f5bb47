----------------------------- MODULE CsvLoading -----------------------------
(***************************************************************************)
(* load_csv of opscheck/core.py, called by the threads of the workflow's   *)
(* pool at the same time.  The limit on the length of a field is a global  *)
(* of the csv library: a parser raises it to the size of the largest file  *)
(* and puts back what it found, holding a lock, because the library reads  *)
(* the limit again for each field.                                         *)
(*                                                                         *)
(* A file is the sequence of its records, of which the first is the header.*)
(* A record is fit if it has as many fields as the header, the header if   *)
(* its names are unique and not blank.                                     *)
(***************************************************************************)
EXTENDS Naturals, Sequences

CONSTANTS
    Threads,
    Lengths,       \* how long the longest field of a record may be
    Files,         \* what load_csv may find in a file
    InitialLimit,  \* the library's own limit, or the application's
    MaxFileBytes,  \* no file, hence no field, is longer
    MaxRecords     \* records after the header

Record == [fit : BOOLEAN, longest : Lengths]

(* readable: it can be opened, is not too large and is encoded in UTF-8     *)
File == [readable : BOOLEAN, records : Seq(Record)]

ASSUME CsvConstants ==
    /\ Lengths \subseteq 0..MaxFileBytes
    /\ Files \subseteq File
    /\ {InitialLimit, MaxFileBytes, MaxRecords} \subseteq Nat

Nobody == "nobody"

ASSUME NobodyIsNoThread == Nobody \notin Threads

VARIABLES
    limit,    \* csv.field_size_limit()
    lock,     \* who holds _CSV_LOCK
    loader    \* loader[t]: the control and the locals of thread t

vars == <<limit, lock, loader>>

Locals == [pc : {"idle", "read", "waiting", "entered", "saved", "parsing", "parsed", "restored"},
           file : Files, parsed : 0..MaxRecords + 1, previous : Nat,
           verdict : {"unknown", "loaded", "rejected"}]

TypeOK ==
    /\ limit \in Nat
    /\ lock \in Threads \cup {Nobody}
    /\ loader \in [Threads -> Locals]

Init ==
    /\ limit = InitialLimit
    /\ lock = Nobody
    /\ \E f \in Files :
          loader = [t \in Threads |-> [pc |-> "idle", file |-> f, parsed |-> 0,
                                       previous |-> InitialLimit, verdict |-> "unknown"]]

At(t, pcs) == loader[t].pc \in pcs
Goto(t, pc) == loader' = [loader EXCEPT ![t].pc = pc]
Decide(t, pc, verdict) == loader' = [loader EXCEPT ![t].pc = pc, ![t].verdict = verdict]

----------------------------------------------------------------------------
Call(t) ==
    /\ At(t, {"idle"})
    /\ \E f \in Files :
          loader' = [loader EXCEPT ![t] = [pc |-> "read", file |-> f, parsed |-> 0,
                                           previous |-> @.previous, verdict |-> "unknown"]]
    /\ UNCHANGED <<limit, lock>>

Read(t) ==
    /\ At(t, {"read"})
    /\ IF loader[t].file.readable THEN Goto(t, "waiting") ELSE Decide(t, "idle", "rejected")
    /\ UNCHANGED <<limit, lock>>

(* faulty: parsers do not exclude each other                                *)
EnterUnlocked(t) ==
    /\ At(t, {"waiting"})
    /\ lock' = t
    /\ Goto(t, "entered")
    /\ UNCHANGED limit

Enter(t) ==
    /\ At(t, {"waiting"}) /\ lock = Nobody
    /\ lock' = t
    /\ Goto(t, "entered")
    /\ UNCHANGED limit

Save(t) ==
    /\ At(t, {"entered"})
    /\ loader' = [loader EXCEPT ![t].pc = "saved", ![t].previous = limit]
    /\ UNCHANGED <<limit, lock>>

Raise(t) ==
    /\ At(t, {"saved"})
    /\ limit' = MaxFileBytes
    /\ Goto(t, "parsing")
    /\ UNCHANGED lock

(* The reader yields the record, there is room for it, and it is fit.       *)
Accepts(t, r) ==
    /\ r.longest <= limit
    /\ loader[t].parsed = 0 \/ loader[t].parsed - 1 < MaxRecords
    /\ r.fit

(* the next record, or the end                                              *)
Parse(t) ==
    /\ At(t, {"parsing"})
    /\ LET records == loader[t].file.records
           n == loader[t].parsed + 1
       IN  IF n <= Len(records)
           THEN IF Accepts(t, records[n])
                THEN loader' = [loader EXCEPT ![t].parsed = n]
                ELSE Decide(t, "parsed", "rejected")
           ELSE Decide(t, "parsed", IF n = 1 THEN "rejected" ELSE "loaded")
    /\ UNCHANGED <<limit, lock>>

Restore(t) ==
    /\ At(t, {"parsed"})
    /\ limit' = loader[t].previous
    /\ Goto(t, "restored")
    /\ UNCHANGED lock

Leave(t) ==
    /\ At(t, {"restored"})
    /\ lock' = Nobody
    /\ Goto(t, "idle")
    /\ UNCHANGED limit

Next ==
    \E t \in Threads :
        \/ Call(t) \/ Read(t) \/ Enter(t) \/ Save(t) \/ Raise(t)
        \/ Parse(t) \/ Restore(t) \/ Leave(t)

Spec == Init /\ [][Next]_vars

----------------------------------------------------------------------------
(* The whole file decides, and nothing else: it has a header, at most       *)
(* MaxRecords records after it, and every record is fit.                    *)
Loadable(f) ==
    /\ f.readable
    /\ Len(f.records) \in 1..MaxRecords + 1
    /\ \A i \in 1..Len(f.records) : f.records[i].fit

(* A file is loaded or rejected for what is in it: whichever other files    *)
(* other threads load at the same time, none is rejected for the length of  *)
(* its fields, and the bound on records is exact (load_csv, _parse_csv).    *)
VerdictExact ==
    \A t \in Threads :
        loader[t].verdict # "unknown" => (loader[t].verdict = "loaded" <=> Loadable(loader[t].file))

(* When nobody is parsing, the library's limit is what it was in the        *)
(* beginning, whatever was rejected meanwhile (the finally of _parse_csv).  *)
LimitRestored ==
    (\A t \in Threads : ~ At(t, {"parsing", "parsed"})) => limit = InitialLimit

(* Sharing the library's limit changes neither a verdict nor the limit.     *)
LoadingExact == VerdictExact /\ LimitRestored
=============================================================================
