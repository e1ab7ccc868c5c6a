--------------------------- MODULE ObservationStore ---------------------------
(***************************************************************************)
(* The append-only store of observations and its writers                   *)
(* (src/app/data/observation_store.py, ingestion.py, csv_import.py).       *)
(* Several processes open one file, which the first one has to give its    *)
(* schema, fetch payloads from a provider (an await), date them with their *)
(* own clock, and append each batch in one transaction.                    *)
(*                                                                         *)
(* A payload is its event time and whether it is of the requested          *)
(* instrument and timeframe.  Processes share one wall clock, which does   *)
(* not go back.                                                            *)
(***************************************************************************)
EXTENDS Naturals, Sequences, FiniteSets

CONSTANTS
    Processes,
    Ids,               \* observation ids, compared as their text is
    MaxTime,           \* bound on the clock
    Requests           \* what processes ask a provider, or a CSV file, for

Times == 0 .. MaxTime
Payloads == [time : Times, fits : BOOLEAN]

StoreAssumption ==
    /\ Ids \subseteq Nat /\ IsFiniteSet(Ids)
    /\ MaxTime \in Nat
    /\ Requests \subseteq [kind : {"bars", "snapshots", "csv"}, size : Nat,
                           start : Nat, end : Nat]

VARIABLES
    clock,
    file,              \* "empty", or "schema" once a process initialized it
    rows,              \* table observations
    proc               \* what each process is doing

storeVars == <<clock, file, rows, proc>>

Row == [id : Ids, at : Times, batch : SUBSET Ids, sound : BOOLEAN]
Closed == [pc |-> "closed"]
Distrusts == [pc |-> "distrusts"]        \* closed with ObservationCorruptionError
Ready == [pc |-> "ready"]

StoreTypeOK ==
    /\ clock \in Times
    /\ file \in {"empty", "schema"}
    /\ rows \subseteq Row
    /\ \A p \in Processes :
        \/ proc[p] \in {Closed, Distrusts, Ready, [pc |-> "create"]}
        \/ proc[p] \in [pc : {"check"}, version : {0, 1}]
        \/ proc[p] \in [pc : {"fetch"}, request : Requests]
        \/ /\ proc[p].pc = "append" /\ proc[p].batch # <<>>
           /\ \A i \in DOMAIN proc[p].batch : proc[p].batch[i] \in Row

StoreInit ==
    /\ clock = 0
    /\ file = "empty"
    /\ rows = {}
    /\ proc = [p \in Processes |-> Closed]

Goto(p, state) == proc' = [proc EXCEPT ![p] = state]

-----------------------------------------------------------------------------
(* Opening reads the schema version and the schema's objects in two         *)
(* statements, and initializes in a transaction of its own.                 *)
ReadVersion(p) ==
    /\ proc[p] \in {Closed, Distrusts}
    /\ Goto(p, [pc |-> "check", version |-> IF file = "schema" THEN 1 ELSE 0])
    /\ UNCHANGED <<clock, file, rows>>

(* Only a file of version 0 without objects is initialized; version 0 with  *)
(* objects is not trusted.                                                  *)
ReadObjects(p) ==
    LET version == proc[p].version IN
    /\ proc[p].pc = "check"
    /\ \/ version = 0 /\ file = "empty" /\ Goto(p, [pc |-> "create"])
       \/ version = 0 /\ file = "schema" /\ Goto(p, Distrusts)
       \/ version = 1 /\ Goto(p, Ready)
    /\ UNCHANGED <<clock, file, rows>>

(* CREATE TABLE fails when another process was first.                       *)
Create(p) ==
    /\ proc[p].pc = "create"
    /\ file' = "schema"
    /\ Goto(p, IF file = "empty" THEN Ready ELSE Closed)
    /\ UNCHANGED <<clock, rows>>

-----------------------------------------------------------------------------
Fetch(p, request) ==
    /\ proc[p] = Ready
    /\ Goto(p, [pc |-> "fetch", request |-> request])
    /\ UNCHANGED <<clock, file, rows>>

Increasing(payloads) ==
    \A i, j \in DOMAIN payloads : i < j => payloads[i].time < payloads[j].time

(* Bars come in order and inside of the requested range, snapshots are one  *)
(* for each instrument asked, and the bars of a file precede its import.    *)
Acceptable(request, payloads) ==
    /\ \A i \in DOMAIN payloads : payloads[i].fits
    /\ request.kind = "bars" =>
        /\ Increasing(payloads)
        /\ \A i \in DOMAIN payloads : payloads[i].time \in request.start .. request.end - 1
    /\ request.kind = "snapshots" => Len(payloads) = request.size
    /\ request.kind = "csv" =>
        /\ Increasing(payloads) /\ payloads # <<>>
        /\ \A i \in DOMAIN payloads : payloads[i].time < clock

(* Bug variant: payloads are dated by their event, not by their receipt.    *)
ObservationsByEvent(payloads, ids, at) ==
    [i \in DOMAIN payloads |->
        [id |-> ids[i], at |-> payloads[i].time, batch |-> {ids[j] : j \in DOMAIN ids},
         sound |-> TRUE]]

(* One receipt time for a whole batch, and the ids the factory gives.       *)
Observations(payloads, ids, at) ==
    [i \in DOMAIN payloads |->
        [id |-> ids[i], at |-> at, batch |-> {ids[j] : j \in DOMAIN ids}, sound |-> TRUE]]

(* The await ends: receipt time, validation and ids, without a pause.  What *)
(* is not acceptable raises, and an empty answer needs no append.           *)
Receive(p, payloads, ids) ==
    /\ proc[p].pc = "fetch"
    /\ DOMAIN ids = DOMAIN payloads
    /\ Goto(p, IF Acceptable(proc[p].request, payloads) /\ payloads # <<>>
               THEN [pc |-> "append", batch |-> Observations(payloads, ids, clock)]
               ELSE Ready)
    /\ UNCHANGED <<clock, file, rows>>

Taken == {row.id : row \in rows}
Conflicts(batch) ==
    \E i \in DOMAIN batch :
        batch[i].id \in Taken \/ \E j \in DOMAIN batch : i # j /\ batch[i].id = batch[j].id

(* The batch is appended as a whole, or not at all; a conflict raises.      *)
Commit(p) ==
    LET batch == proc[p].batch IN
    /\ proc[p].pc = "append"
    /\ rows' = IF Conflicts(batch) THEN rows ELSE rows \cup {batch[i] : i \in DOMAIN batch}
    /\ Goto(p, Ready)
    /\ UNCHANGED <<clock, file>>

(* The database stays locked longer than the timeout.                       *)
Busy(p) ==
    /\ proc[p].pc = "append"
    /\ Goto(p, Ready)
    /\ UNCHANGED <<clock, file, rows>>

(* Bug variant: without synchronous = FULL a crash takes commits with it.   *)
DieUnsynced(p) ==
    /\ proc[p] \notin {Closed, Distrusts}
    /\ Goto(p, Closed)
    /\ rows' = {row \in rows : row.at < clock}
    /\ UNCHANGED <<clock, file>>

(* The process dies; what was committed stays.                              *)
Die(p) ==
    /\ proc[p] \notin {Closed, Distrusts}
    /\ Goto(p, Closed)
    /\ UNCHANGED <<clock, file, rows>>

Tick ==
    /\ clock < MaxTime
    /\ clock' = clock + 1
    /\ UNCHANGED <<file, rows, proc>>

(* Somebody edits a stored row: its projections disagree with its JSON.     *)
Corrupt(row) ==
    /\ row \in rows /\ \A other \in rows : other.sound
    /\ rows' = (rows \ {row}) \cup {[row EXCEPT !.sound = FALSE]}
    /\ UNCHANGED <<clock, file, proc>>

(* Batches have at most two payloads.                                       *)
Lists(S) == UNION {[1 .. n -> S] : n \in 0 .. 2}

StoreNext ==
    \/ \E p \in Processes :
        \/ ReadVersion(p) \/ ReadObjects(p) \/ Create(p)
        \/ \E request \in Requests : Fetch(p, request)
        \/ \E payloads \in Lists(Payloads) : \E ids \in Lists(Ids) : Receive(p, payloads, ids)
        \/ Commit(p) \/ Busy(p) \/ Die(p)
    \/ Tick
    \/ \E row \in rows : Corrupt(row)

StoreSpec == StoreInit /\ [][StoreNext]_storeVars

-----------------------------------------------------------------------------
(* Every row known at a time; every row must be sound for the answer.       *)
Get(id) == {row \in rows : row.id = id}
AvailableAt(time) == {row \in rows : row.at <= time}

IsWhole(batch, table) ==
    batch = {row.id : row \in {row \in table : row.batch = batch}}

(* A batch is in the table as a whole or not at all, an id stands for one   *)
(* observation, and a process only works with a file that has its schema.   *)
BatchesAreWhole ==
    /\ \A row \in rows : IsWhole(row.batch, rows)
    /\ \A id \in Ids : Cardinality(Get(id)) <= 1
    /\ rows # {} => file = "schema"
    /\ \A p \in Processes : proc[p].pc \in {"ready", "fetch", "append"} => file = "schema"

(* What was appended stays: nothing but corruption from outside changes a   *)
(* row.                                                                     *)
HistoryOnlyGrows ==
    [][\A row \in rows : row \in rows' \/ [row EXCEPT !.sound = FALSE] \in rows']_storeVars
=============================================================================
