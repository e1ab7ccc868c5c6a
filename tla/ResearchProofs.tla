--------------------------- MODULE ResearchProofs ---------------------------
(***************************************************************************)
(* Proofs about the research chain: the observation store and its          *)
(* replays, the series that are researched, their market structure, the    *)
(* scans of a universe and the report of a watchlist, for any processes,   *)
(* readers, payloads, clocks, bars, observations, watchlists and           *)
(* configurations.                                                         *)
(*                                                                         *)
(* Replays: a batch waits to be appended with ids of its own and a time    *)
(* that is not after now, and is appended only without a conflict, so the  *)
(* table stays a table of whole batches.  The pages a reader collected are *)
(* the first of what was known at its cutoff; the rows after the last of   *)
(* them are the ones left, so the next page continues.  A cutoff that had  *)
(* passed when nobody held a receipt time stays settled: whatever is       *)
(* appended later is dated later.                                          *)
(*                                                                         *)
(* Structure: everything is derived from the series, and a bar more        *)
(* leaves the bars before it.  A set of positions that is only extended    *)
(* behind its end keeps its first position, or gets the new one; this is   *)
(* how breaks, sweeps, fills and tests move on.                            *)
(*                                                                         *)
(* Series: a recursive function whose steps look only at earlier places    *)
(* has a fixed point, so the features are the ones their recursions        *)
(* define; sums, extremes and averages are those of their windows, by      *)
(* induction over the bars.  What is said of a bar looks at no later bar,  *)
(* so a longer series begins with what a shorter one said, and a trade     *)
(* whose entry was known stays.  Every trade opens after its signal and    *)
(* closes after its entry, and evidence never contradicts itself.          *)
(*                                                                         *)
(* Universe: a selection from a log is the log at increasing indexes, so   *)
(* selections can be made in any order, and what they leave out may be     *)
(* anywhere.  The bars until a moment are the first of all bars, and what  *)
(* the research of a series says of its first bars is what the research    *)
(* of those alone says.                                                    *)
(*                                                                         *)
(* Report: a row says of its bars what the engines said of the latest      *)
(* one, and nothing that is composed into it later changes that.  Symbols  *)
(* tell the keys of a report apart, so its rows are those that were judged *)
(* and ranks go up along it; the first row of a readiness comes before the *)
(* others and has the best rank.                                           *)
(***************************************************************************)
EXTENDS ObservationReplay, MarketStructure, SeriesResearch, UniverseScan, ScanDesk,
        OrderProofs

(* Rows are finitely many and an id stands for one of them.                 *)
Table(S) ==
    /\ S \subseteq Row /\ IsFiniteSet(S)
    /\ \A a, b \in S : a.id = b.id => a = b
    /\ \A row \in S : IsWhole(row.batch, S)

(* What waits to be appended is a batch, dated before now.                  *)
Pending(batch) ==
    /\ batch \in Seq(Row) /\ batch # <<>>
    /\ \A i \in DOMAIN batch : /\ batch[i].at <= clock
                               /\ batch[i].batch = {batch[j].id : j \in DOMAIN batch}

Calls ==
    {Closed, Distrusts, Ready, [pc |-> "create"]}
        \cup [pc : {"check"}, version : {0, 1}]
        \cup [pc : {"fetch"}, request : Requests]
        \cup [pc : {"append"}, batch : Seq(Row)]

StoreInv ==
    /\ StoreAssumption
    /\ clock \in Times
    /\ file \in {"empty", "schema"}
    /\ proc \in [Processes -> Calls]
    /\ Table(rows)
    /\ \A p \in Processes : proc[p].pc = "append" => Pending(proc[p].batch)
    /\ rows # {} => file = "schema"
    /\ \A p \in Processes :
        /\ proc[p].pc \in {"ready", "fetch", "append"} => file = "schema"
        /\ proc[p].pc = "check" /\ proc[p].version = 1 => file = "schema"

-----------------------------------------------------------------------------
LEMMA CallCases ==
    ASSUME NEW k \in Calls
    PROVE  /\ k.pc \in {"closed", "distrusts", "ready", "create", "check", "fetch", "append"}
           /\ k.pc = "append" => k \in [pc : {"append"}, batch : Seq(Row)] /\ k.batch \in Seq(Row)
           /\ k.pc = "check" => k \in [pc : {"check"}, version : {0, 1}] /\ k.version \in {0, 1}
           /\ k.pc = "fetch" => k \in [pc : {"fetch"}, request : Requests]
  BY DEF Calls, Closed, Distrusts, Ready

LEMMA StoreInitInv == ASSUME StoreAssumption, StoreInit PROVE StoreInv
  <1>1. IsFiniteSet({})
    BY FS_EmptySet
  <1>2. clock \in Times
    BY DEF StoreAssumption, StoreInit, Times
  <1>. QED BY <1>1, <1>2 DEF StoreInit, StoreInv, Table, Calls, Closed

(* Rows of a batch without a conflict keep the table.                       *)
LEMMA Committed ==
    ASSUME NEW S, Table(S), NEW batch \in Seq(Row), batch # <<>>,
           \A i \in DOMAIN batch : batch[i].batch = {batch[j].id : j \in DOMAIN batch},
           \A i \in DOMAIN batch : batch[i].id \notin {row.id : row \in S},
           \A i, j \in DOMAIN batch : i # j => batch[i].id # batch[j].id
    PROVE  Table(S \cup {batch[i] : i \in DOMAIN batch})
  <1> DEFINE B == {batch[j].id : j \in DOMAIN batch}
             N == {batch[i] : i \in DOMAIN batch}
             T == S \cup N
  <1>1. IsFiniteSet(N)
    <2>1. DOMAIN batch = 1 .. Len(batch) /\ Len(batch) \in Nat
      OBVIOUS
    <2>2. 1 \in Int /\ Len(batch) \in Int
      BY <2>1
    <2>3. IsFiniteSet(1 .. Len(batch))
      BY ONLY <2>2, FS_Interval
    <2>4. IsFiniteSet(DOMAIN batch)
      BY ONLY <2>1, <2>3
    <2>5. IsFiniteSet({batch[i] : i \in DOMAIN batch})
      BY <2>4, FiniteValues
    <2>. QED BY <2>5
  <1>2. IsFiniteSet(T)
    BY <1>1, FS_Union DEF Table
  <1>3. N \subseteq Row /\ N # {}
    <2>1. 1 \in DOMAIN batch
      OBVIOUS
    <2>. QED BY <2>1
  <1>4. \A a, b \in T : a.id = b.id => a = b
    BY DEF Table
  <1>5. \A row \in N : row.batch = B /\ row.id \in B
    OBVIOUS
  <1>6. \A row \in S : row.batch # B
    <2> SUFFICES ASSUME NEW row \in S, row.batch = B PROVE FALSE
      OBVIOUS
    <2>1. B = {r.id : r \in {r \in S : r.batch = B}}
      <3>1. IsWhole(row.batch, S)
        BY DEF Table
      <3> HIDE DEF B
      <3>. QED BY <3>1 DEF IsWhole
    <2>2. PICK n \in N : n.id \in B
      BY <1>3, <1>5
    <2>3. n.id \in {r.id : r \in S}
      BY <2>1, <2>2
    <2>. QED BY <2>3
  <1>7. \A row \in S : IsWhole(row.batch, T)
    <2> SUFFICES ASSUME NEW row \in S PROVE IsWhole(row.batch, T)
      OBVIOUS
    <2>1. {r \in T : r.batch = row.batch} = {r \in S : r.batch = row.batch}
      BY <1>5, <1>6
    <2> HIDE DEF T
    <2>. QED BY <2>1 DEF Table, IsWhole
  <1>8. \A row \in N : IsWhole(row.batch, T)
    <2> SUFFICES IsWhole(B, T)
      BY <1>5
    <2>1. {r \in T : r.batch = B} = N
      BY <1>5, <1>6
    <2>2. B = {r.id : r \in N}
      OBVIOUS
    <2> HIDE DEF T, N, B
    <2>. QED BY <2>1, <2>2 DEF IsWhole
  <1>9. T \subseteq Row
    BY <1>3 DEF Table
  <1>. QED BY <1>2, <1>4, <1>7, <1>8, <1>9 DEF Table

(* Neither does an edit from outside change what is a batch.                *)
LEMMA Corrupted ==
    ASSUME NEW S, Table(S), NEW row \in S
    PROVE  Table((S \ {row}) \cup {[row EXCEPT !.sound = FALSE]})
  <1> DEFINE edited == [row EXCEPT !.sound = FALSE]
             T == (S \ {row}) \cup {edited}
  <1>1. row \in Row
    BY DEF Table
  <1>2. /\ edited \in Row /\ edited.id = row.id /\ edited.batch = row.batch /\ edited.at = row.at
    BY <1>1 DEF Row
  <1> HIDE DEF edited
  <1>3. IsFiniteSet(T)
    <2>1. IsFiniteSet(S \ {row})
      BY FS_Difference DEF Table
    <2>. QED BY <2>1, FS_AddElement
  <1>4. \A a, b \in T : a.id = b.id => a = b
    BY <1>2 DEF Table
  <1>5. T \subseteq Row
    BY <1>2 DEF Table
  <1>6. \A B : {r.id : r \in {r \in T : r.batch = B}} = {r.id : r \in {r \in S : r.batch = B}}
    <2> SUFFICES ASSUME NEW B
                 PROVE {r.id : r \in {r \in T : r.batch = B}}
                            = {r.id : r \in {r \in S : r.batch = B}}
      OBVIOUS
    <2>1. \A r \in T : r.batch = B => \E s \in S : s.batch = B /\ s.id = r.id
      BY <1>2
    <2>2. \A s \in S : s.batch = B => \E r \in T : r.batch = B /\ s.id = r.id
      BY <1>2
    <2> HIDE DEF T
    <2>. QED BY <2>1, <2>2
  <1>7. \A r \in T : \E s \in S : r.batch = s.batch
    BY <1>2
  <1> HIDE DEF T
  <1>8. \A r \in T : IsWhole(r.batch, T)
    <2> SUFFICES ASSUME NEW r \in T PROVE IsWhole(r.batch, T)
      OBVIOUS
    <2>1. PICK s \in S : r.batch = s.batch
      BY <1>7
    <2>2. IsWhole(s.batch, S)
      BY DEF Table
    <2>3. s.batch = {q.id : q \in {q \in S : q.batch = s.batch}}
      BY <2>2 DEF IsWhole
    <2>4. s.batch = {q.id : q \in {q \in T : q.batch = s.batch}}
      BY <2>3, <1>6
    <2>. QED BY <2>1, <2>4 DEF IsWhole
  <1>. QED BY <1>3, <1>4, <1>5, <1>8 DEF Table, T, edited

-----------------------------------------------------------------------------
(* A process that goes somewhere legal leaves the others where they are.    *)
LEMMA Went ==
    ASSUME NEW p \in Processes, NEW k \in Calls, proc \in [Processes -> Calls], Goto(p, k)
    PROVE  /\ proc' \in [Processes -> Calls]
           /\ proc'[p] = k /\ \A q \in Processes : q # p => proc'[q] = proc[q]
  BY DEF Goto

(* A batch is received as one, with the ids of all and the time of now.     *)
LEMMA Received ==
    ASSUME StoreInv, NEW payloads \in Lists(Payloads), NEW ids \in Lists(Ids),
           DOMAIN ids = DOMAIN payloads, payloads # <<>>
    PROVE  Pending(Observations(payloads, ids, clock))
  <1>1. PICK n \in 0 .. 2 : payloads \in [1 .. n -> Payloads]
    BY DEF Lists
  <1>2. PICK m \in 0 .. 2 : ids \in [1 .. m -> Ids]
    BY DEF Lists
  <1>3. n # 0
    BY <1>1
  <1>4. m = n
    BY <1>1, <1>2
  <1> DEFINE b == Observations(payloads, ids, clock)
  <1>5. DOMAIN b = 1 .. n
    BY <1>1 DEF Observations
  <1>6. \A i \in 1 .. n : /\ b[i] \in Row /\ b[i].at = clock /\ b[i].id = ids[i]
                          /\ b[i].batch = {ids[j] : j \in 1 .. n}
    <2> SUFFICES ASSUME NEW i \in 1 .. n
                 PROVE  /\ b[i] \in Row /\ b[i].at = clock /\ b[i].id = ids[i]
                        /\ b[i].batch = {ids[j] : j \in 1 .. n}
      OBVIOUS
    <2>1. b[i] = [id |-> ids[i], at |-> clock, batch |-> {ids[j] : j \in 1 .. n}, sound |-> TRUE]
      BY <1>1, <1>2, <1>4 DEF Observations
    <2>2. ids[i] \in Ids /\ {ids[j] : j \in 1 .. n} \in SUBSET Ids /\ clock \in Times
      BY <1>2, <1>4 DEF StoreInv
    <2>. QED BY <2>1, <2>2 DEF Row
  <1>7. b = [i \in 1 .. n |-> b[i]]
    BY <1>5 DEF Observations
  <1> HIDE DEF b
  <1>8. b \in Seq(Row) /\ Len(b) = n
    BY <1>5, <1>6, <1>7
  <1>9. b # <<>>
    BY <1>3, <1>8
  <1>10. {b[j].id : j \in DOMAIN b} = {ids[j] : j \in 1 .. n}
    BY <1>5, <1>6
  <1>11. clock <= clock
    BY DEF StoreInv, Times
  <1>. QED BY <1>5, <1>6, <1>8, <1>9, <1>10, <1>11 DEF Pending, b

(* The store keeps its invariant, whichever operation moves it.             *)
LEMMA StoreNextInv == ASSUME StoreInv, StoreNext PROVE StoreInv'
  <1> USE DEF StoreInv
  <1>1. ASSUME NEW p \in Processes, ReadVersion(p) PROVE StoreInv'
    <2> DEFINE k == [pc |-> "check", version |-> IF file = "schema" THEN 1 ELSE 0]
    <2>1. k \in Calls
      BY DEF Calls
    <2>2. Goto(p, k) /\ UNCHANGED <<clock, file, rows>>
      BY <1>1 DEF ReadVersion
    <2>3. k.pc = "check" /\ (k.version = 1 => file = "schema")
      OBVIOUS
    <2> HIDE DEF k
    <2>. QED BY <2>1, <2>2, <2>3, Went DEF Pending
  <1>2. ASSUME NEW p \in Processes, ReadObjects(p) PROVE StoreInv'
    <2>1. PICK k \in Calls : /\ Goto(p, k) /\ k.pc \in {"create", "distrusts", "ready"}
                             /\ k.pc = "ready" => file = "schema"
      <3>1. proc[p].pc = "check"
        BY <1>2 DEF ReadObjects
      <3>. QED BY <1>2, <3>1 DEF ReadObjects, Calls, Ready, Distrusts
    <2>2. UNCHANGED <<clock, file, rows>>
      BY <1>2 DEF ReadObjects
    <2>. QED BY <2>1, <2>2, Went DEF Pending
  <1>3. ASSUME NEW p \in Processes, Create(p) PROVE StoreInv'
    <2>1. PICK k \in Calls : Goto(p, k) /\ k.pc \in {"closed", "ready"}
      BY <1>3 DEF Create, Calls, Ready, Closed
    <2>2. file' = "schema" /\ UNCHANGED <<clock, rows>>
      BY <1>3 DEF Create
    <2>. QED BY <2>1, <2>2, Went DEF Pending
  <1>4. ASSUME NEW p \in Processes, NEW request \in Requests, Fetch(p, request) PROVE StoreInv'
    <2> DEFINE k == [pc |-> "fetch", request |-> request]
    <2>1. k \in Calls /\ k.pc = "fetch"
      BY DEF Calls
    <2>2. Goto(p, k) /\ UNCHANGED <<clock, file, rows>> /\ file = "schema"
      BY <1>4 DEF Fetch, Ready
    <2> HIDE DEF k
    <2>. QED BY <2>1, <2>2, Went DEF Pending
  <1>5. ASSUME NEW p \in Processes, NEW payloads \in Lists(Payloads), NEW ids \in Lists(Ids),
               Receive(p, payloads, ids)
        PROVE StoreInv'
    <2>1. PICK k \in Calls : /\ Goto(p, k) /\ k.pc \in {"append", "ready"}
                             /\ k.pc = "append" => Pending(k.batch)
      <3> DEFINE b == Observations(payloads, ids, clock)
                 a == [pc |-> "append", batch |-> b]
      <3>1. payloads # <<>> => Pending(b) /\ a \in Calls
        <4>1. payloads # <<>> => Pending(b)
          BY <1>5, Received DEF Receive
        <4>2. Pending(b) => b \in Seq(Row)
          BY DEF Pending
        <4> HIDE DEF b
        <4>. QED BY <4>1, <4>2 DEF Calls
      <3>2. Ready \in Calls /\ Ready.pc = "ready"
        BY DEF Calls, Ready
      <3>3. a.pc = "append" /\ a.batch = b
        OBVIOUS
      <3>4. Goto(p, Ready) \/ (Goto(p, a) /\ payloads # <<>>)
        BY <1>5 DEF Receive
      <3> HIDE DEF a, b
      <3>. QED BY <3>1, <3>2, <3>3, <3>4
    <2>2. UNCHANGED <<clock, file, rows>> /\ file = "schema"
      BY <1>5 DEF Receive
    <2>. QED BY <2>1, <2>2, Went DEF Pending
  <1>6. ASSUME NEW p \in Processes, Commit(p) PROVE StoreInv'
    <2>1. Ready \in Calls /\ Goto(p, Ready) /\ Ready.pc = "ready" /\ file = "schema"
      BY <1>6 DEF Commit, Calls, Ready
    <2>2. Table(rows')
      <3>1. CASE Conflicts(proc[p].batch)
        BY <1>6, <3>1 DEF Commit
      <3>2. CASE ~Conflicts(proc[p].batch)
        <4> DEFINE batch == proc[p].batch
        <4>1. Pending(batch) /\ rows' = rows \cup {batch[i] : i \in DOMAIN batch}
          BY <1>6, <3>2 DEF Commit
        <4>2. /\ \A i \in DOMAIN batch : batch[i].id \notin {row.id : row \in rows}
              /\ \A i, j \in DOMAIN batch : i # j => batch[i].id # batch[j].id
          BY <3>2 DEF Conflicts, Taken
        <4> HIDE DEF batch
        <4>3. Table(rows \cup {batch[i] : i \in DOMAIN batch})
          BY <4>1, <4>2, Committed DEF Pending
        <4>. QED BY <4>1, <4>3
      <3>. QED BY <3>1, <3>2
    <2>3. UNCHANGED <<clock, file>>
      BY <1>6 DEF Commit
    <2>. QED BY <2>1, <2>2, <2>3, Went DEF Pending
  <1>7. ASSUME NEW p \in Processes, Busy(p) \/ Die(p) PROVE StoreInv'
    <2>1. PICK k \in Calls : Goto(p, k) /\ (k.pc = "ready" => file = "schema")
                                       /\ k.pc \in {"ready", "closed"}
      BY <1>7 DEF Busy, Die, Calls, Ready, Closed
    <2>2. UNCHANGED <<clock, file, rows>>
      BY <1>7 DEF Busy, Die
    <2>. QED BY <2>1, <2>2, Went DEF Pending
  <1>8. ASSUME Tick PROVE StoreInv'
    <2>1. clock' \in Times /\ clock <= clock'
      BY <1>8 DEF Tick, Times, StoreAssumption
    <2>2. UNCHANGED <<file, rows, proc>>
      BY <1>8 DEF Tick
    <2>3. \A batch : Pending(batch) => Pending(batch)'
      <3> SUFFICES ASSUME NEW batch, Pending(batch) PROVE Pending(batch)'
        OBVIOUS
      <3>1. \A i \in DOMAIN batch : batch[i].at \in Times
        <4>1. batch \in Seq(Row)
          BY DEF Pending
        <4>2. \A i \in DOMAIN batch : batch[i] \in Row
          BY <4>1
        <4>. QED BY <4>2 DEF Row
      <3>2. \A t \in Times : t <= clock => t <= clock'
        BY <2>1 DEF Times, StoreAssumption
      <3>. QED BY <3>1, <3>2 DEF Pending
    <2>. QED BY <2>1, <2>2, <2>3
  <1>9. ASSUME NEW row \in rows, Corrupt(row) PROVE StoreInv'
    <2>1. Table(rows')
      BY <1>9, Corrupted DEF Corrupt
    <2>2. UNCHANGED <<clock, file, proc>> /\ file = "schema"
      BY <1>9 DEF Corrupt
    <2>. QED BY <2>1, <2>2 DEF Pending
  <1>. QED BY <1>1, <1>2, <1>3, <1>4, <1>5, <1>6, <1>7, <1>8, <1>9 DEF StoreNext

LEMMA StoreImplies ==
    ASSUME StoreInv PROVE StoreTypeOK /\ BatchesAreWhole
  <1>1. StoreTypeOK
    <2>1. \A p \in Processes :
            \/ proc[p] \in {Closed, Distrusts, Ready, [pc |-> "create"]}
            \/ proc[p] \in [pc : {"check"}, version : {0, 1}]
            \/ proc[p] \in [pc : {"fetch"}, request : Requests]
            \/ /\ proc[p].pc = "append" /\ proc[p].batch # <<>>
               /\ \A i \in DOMAIN proc[p].batch : proc[p].batch[i] \in Row
      <3> SUFFICES ASSUME NEW p \in Processes,
                          proc[p] \in [pc : {"append"}, batch : Seq(Row)]
                   PROVE  /\ proc[p].pc = "append" /\ proc[p].batch # <<>>
                          /\ \A i \in DOMAIN proc[p].batch : proc[p].batch[i] \in Row
        BY DEF StoreInv, Calls
      <3>1. proc[p].pc = "append" /\ proc[p].batch \in Seq(Row)
        OBVIOUS
      <3>2. Pending(proc[p].batch)
        BY <3>1 DEF StoreInv
      <3>. QED BY <3>1, <3>2 DEF Pending
    <2>. QED BY <2>1 DEF StoreInv, StoreTypeOK, Table
  <1>2. \A id \in Ids : Cardinality(Get(id)) <= 1
    <2> SUFFICES ASSUME NEW id \in Ids PROVE Cardinality(Get(id)) <= 1
      OBVIOUS
    <2>1. \A a, b \in Get(id) : a = b
      BY DEF Get, StoreInv, Table
    <2>2. CASE Get(id) = {}
      BY <2>2, FS_EmptySet
    <2>3. CASE Get(id) # {}
      <3>1. PICK row : Get(id) = {row}
        BY <2>1, <2>3
      <3>2. Cardinality({row}) = 1
        BY FS_Singleton
      <3>. QED BY <3>1, <3>2
    <2>. QED BY <2>2, <2>3
  <1>. QED BY <1>1, <1>2 DEF StoreInv, BatchesAreWhole, Table

(* A stored row stays, with its id, time and batch; only corruption from    *)
(* outside touches it at all.                                               *)
LEMMA RowsStay ==
    ASSUME StoreInv, StoreNext
    PROVE  \A row \in rows : row \in rows' \/ [row EXCEPT !.sound = FALSE] \in rows'
  <1>1. ASSUME NEW p \in Processes, Commit(p) PROVE rows \subseteq rows'
    BY <1>1 DEF Commit
  <1>2. ASSUME NEW edited \in rows, Corrupt(edited)
        PROVE \A row \in rows : row \in rows' \/ [row EXCEPT !.sound = FALSE] \in rows'
    BY <1>2 DEF Corrupt
  <1>3. \/ rows' = rows \/ \E p \in Processes : Commit(p)
        \/ \E row \in rows : Corrupt(row)
    BY DEF StoreNext, ReadVersion, ReadObjects, Create, Fetch, Receive, Busy, Die, Tick
  <1>. QED BY <1>1, <1>2, <1>3

(* What was appended stays.                                                 *)
THEOREM AppendedStays == StoreAssumption /\ StoreSpec => HistoryOnlyGrows
  <1>1. StoreAssumption /\ StoreInit => StoreInv
    BY StoreInitInv
  <1>2. StoreInv /\ [StoreNext]_storeVars => StoreInv'
    <2>1. ASSUME StoreInv, UNCHANGED storeVars PROVE StoreInv'
      BY <2>1 DEF storeVars, StoreInv, Pending
    <2>. QED BY <2>1, StoreNextInv
  <1>3. StoreInv /\ [StoreNext]_storeVars
            => [\A row \in rows : row \in rows' \/ [row EXCEPT !.sound = FALSE] \in rows']_storeVars
    BY RowsStay
  <1>. QED BY <1>1, <1>2, <1>3, PTL DEF StoreSpec, HistoryOnlyGrows

-----------------------------------------------------------------------------
Readings ==
    [open : BOOLEAN, snapshot : SUBSET Row, asOf : Times \cup {None}, pages : Seq(Row),
     exhausted : BOOLEAN, settled : SUBSET Times]

Upto(snapshot, asOf) == {row \in snapshot : row.at <= asOf}
Known(k) == KnownRows(k.snapshot, k.asOf)

(* What a caller has of a replay is the beginning of what was known.        *)
Paged(k) ==
    /\ IsPrefix(k.pages, Known(k))
    /\ k.exhausted => k.pages = Known(k)
    /\ \A i \in DOMAIN k.pages : k.pages[i].sound

(* A time is settled when all that will ever be known at it is in the       *)
(* snapshot: nothing that waits to be appended, now or later, is dated so.  *)
Settles(time, snapshot) ==
    /\ time < clock
    /\ {row.id : row \in Upto(rows, time)} = {row.id : row \in Upto(snapshot, time)}
    /\ \A p \in Processes : proc[p].pc = "append" =>
        \A i \in DOMAIN proc[p].batch : time < proc[p].batch[i].at

ReplayInv ==
    /\ StoreInv
    /\ ReplayAssumption
    /\ reader \in [Readers -> Readings]
    /\ \A r \in Readers :
        /\ Table(reader[r].snapshot)
        /\ reader[r].asOf = None => reader[r].pages = <<>>
        /\ reader[r].asOf # None => Paged(reader[r])
        /\ \A time \in reader[r].settled : Settles(time, reader[r].snapshot)

(* Rows are in a strict order by time and id, and sorted by it.             *)
LEMMA RowOrder ==
    ASSUME StoreAssumption, NEW S, S \subseteq Row, IsFiniteSet(S),
           \A a, b \in S : a.id = b.id => a = b
    PROVE  LET R == {p \in S \X S : Before(p[1], p[2])} IN
           /\ StrictOrder(S, R)
           /\ Sorted(S, Before) = Enumerate(S, R)
           /\ \A x, y \in S : <<x, y>> \in R <=> Before(x, y)
  <1> DEFINE R == {p \in S \X S : Before(p[1], p[2])}
  <1>1. \A x \in S : x.at \in Nat /\ x.id \in Nat
    <2>1. \A x \in S : x.at \in Times /\ x.id \in Ids
      BY DEF Row
    <2>2. Ids \subseteq Nat /\ Times \subseteq Nat
      BY DEF StoreAssumption, Times
    <2>. QED BY ONLY <2>1, <2>2
  <1>2. \A x, y \in S : <<x, y>> \in R <=> Before(x, y)
    OBVIOUS
  <1> HIDE DEF R
  <1>3. StrictOrder(S, R)
    <2>1. \A x \in S : ~Before(x, x)
      BY <1>1 DEF Before, After
    <2>2. \A x, y, z \in S : Before(x, y) /\ Before(y, z) => Before(x, z)
      BY <1>1 DEF Before, After
    <2>3. \A x, y \in S : x = y \/ Before(x, y) \/ Before(y, x)
      BY <1>1 DEF Before, After
    <2>. QED BY <1>2, <2>1, <2>2, <2>3 DEF StrictOrder
  <1>4. Sorted(S, Before) = Enumerate(S, R)
    BY DEF Sorted, R
  <1>. QED BY <1>2, <1>3, <1>4 DEF R

(* What was known at a time is finite, without repetition, and in order.    *)
LEMMA KnownInOrder ==
    ASSUME StoreAssumption, NEW snapshot, Table(snapshot), NEW asOf
    PROVE  LET S == Upto(snapshot, asOf)
               R == {p \in S \X S : Before(p[1], p[2])}
           IN /\ IsFiniteSet(S) /\ StrictOrder(S, R) /\ S \subseteq Row
              /\ KnownRows(snapshot, asOf) = Enumerate(S, R)
              /\ KnownRows(snapshot, asOf) \in Seq(S)
              /\ Len(KnownRows(snapshot, asOf)) = Cardinality(S) /\ Cardinality(S) \in Nat
              /\ \A x, y \in S : <<x, y>> \in R <=> Before(x, y)
  <1> DEFINE S == Upto(snapshot, asOf)
             R == {p \in S \X S : Before(p[1], p[2])}
  <1>1. S \in SUBSET snapshot
    BY DEF Upto
  <1>2. IsFiniteSet(S) /\ S \subseteq Row /\ \A a, b \in S : a.id = b.id => a = b
    BY <1>1, FS_Subset DEF Table
  <1>3. KnownRows(snapshot, asOf) = Sorted(S, Before)
    BY DEF KnownRows, Upto
  <1> HIDE DEF S
  <1>4. /\ StrictOrder(S, R) /\ Sorted(S, Before) = Enumerate(S, R)
        /\ \A x, y \in S : <<x, y>> \in R <=> Before(x, y)
    BY <1>2, RowOrder
  <1> HIDE DEF R
  <1>5. /\ Enumerate(S, R) \in Seq(S) /\ Len(Enumerate(S, R)) = Cardinality(S)
        /\ Cardinality(S) \in Nat
    BY <1>2, <1>4, Enumerated
  <1>. QED BY <1>2, <1>3, <1>4, <1>5 DEF S, R

(* A page is what is known after the pages before it.                       *)
LEMMA NextPage ==
    ASSUME StoreAssumption, NEW snapshot, Table(snapshot), NEW asOf,
           NEW pages \in Seq(Row), IsPrefix(pages, KnownRows(snapshot, asOf)),
           NEW limit \in Nat
    PROVE  LET known == KnownRows(snapshot, asOf)
               eligible == {row \in snapshot :
                                row.at <= asOf /\ (pages # <<>> => After(row, Last(pages)))}
               found == Sorted(eligible, Before)
               page == SubSeq(found, 1, IF Len(found) < limit THEN Len(found) ELSE limit)
           IN /\ pages \o page \in Seq(Row) /\ IsPrefix(pages \o page, known)
              /\ Len(found) <= limit => pages \o page = known
  <1> DEFINE S == Upto(snapshot, asOf)
             R == {p \in S \X S : Before(p[1], p[2])}
             K == KnownRows(snapshot, asOf)
             N == Cardinality(S)
             k == Len(pages)
             T == {row \in snapshot :
                        row.at <= asOf /\ (pages # <<>> => After(row, Last(pages)))}
             Q == {p \in T \X T : Before(p[1], p[2])}
             found == Sorted(T, Before)
             m == IF Len(found) < limit THEN Len(found) ELSE limit
             page == SubSeq(found, 1, m)
  <1>1. /\ IsFiniteSet(S) /\ StrictOrder(S, R) /\ S \subseteq Row
        /\ K = Enumerate(S, R) /\ K \in Seq(S) /\ Len(K) = N /\ N \in Nat
        /\ \A x, y \in S : <<x, y>> \in R <=> Before(x, y)
    BY KnownInOrder
  <1>2. K \in Seq(Row)
    BY <1>1
  <1>3. k \in Nat /\ k <= N /\ \A i \in 1 .. k : pages[i] = K[i]
    <2> HIDE DEF K, N
    <2>1. Len(pages) <= Len(K) /\ SubSeq(pages, 1, Len(pages)) = SubSeq(K, 1, Len(pages))
      BY DEF IsPrefix, K
    <2>. QED BY <1>1, <1>2, <2>1, PrefixesAgree
  <1>4. T = {x \in S : k = 0 \/ <<K[k], x>> \in R}
    <2>1. pages = <<>> <=> k = 0
      OBVIOUS
    <2>2. k # 0 => Last(pages) = K[k] /\ K[k] \in S
      <3> HIDE DEF K, N, S
      <3>1. k # 0 => k \in 1 .. k /\ k \in 1 .. N
        BY <1>1, <1>3
      <3>. QED BY <1>1, <1>3, <3>1 DEF Last
    <2>3. T = {x \in S : pages # <<>> => Before(Last(pages), x)}
      BY DEF Upto, Before
    <2> HIDE DEF S, R, K, T, k
    <2>. QED BY <1>1, <2>1, <2>2, <2>3
  <1>5. T \subseteq S /\ \A x, y \in T : <<x, y>> \in Q <=> <<x, y>> \in R
    <2>1. T \subseteq S
      BY DEF Upto
    <2>2. \A x, y \in T : <<x, y>> \in Q <=> Before(x, y)
      OBVIOUS
    <2> HIDE DEF S, R, T, Q
    <2>. QED BY <1>1, <2>1, <2>2
  <1>6. found = Enumerate(T, Q)
    BY DEF Sorted
  <1> HIDE DEF S, R, K, N, T, Q, k, found
  <1>7. k \in 0 .. N /\ N - k \in Nat
    BY <1>1, <1>3
  <1>8. found = [i \in 1 .. N - k |-> K[k + i]]
    <2>1. /\ IsFiniteSet(S) /\ StrictOrder(S, R) /\ k \in 0 .. Cardinality(S)
          /\ T \subseteq S /\ \A x \in S : x \in T <=> (k = 0 \/ <<Enumerate(S, R)[k], x>> \in R)
      BY <1>1, <1>4, <1>7 DEF N
    <2>2. Enumerate(T, Q) = [i \in 1 .. Cardinality(S) - k |-> Enumerate(S, R)[k + i]]
      BY ONLY <1>5, <2>1, EnumeratedAfter
    <2>. QED BY <1>1, <1>6, <2>2 DEF N
  <1>9. found \in Seq(Row) /\ Len(found) = N - k
    <2>1. \A i \in 1 .. N - k : k + i \in 1 .. N
      BY <1>1, <1>7
    <2>2. \A i \in 1 .. N - k : K[k + i] \in Row
      BY <1>1, <1>2, <2>1
    <2>3. PICK n \in Nat : n = N - k
      BY <1>7
    <2>4. found \in [1 .. n -> Row]
      BY <1>8, <2>2, <2>3
    <2>. QED BY <2>3, <2>4
  <1>10. m \in Nat /\ m <= N - k /\ (Len(found) <= limit => m = N - k)
    BY <1>7, <1>9
  <1>11. page \in Seq(Row) /\ Len(page) = m /\ \A i \in 1 .. m : page[i] = found[i]
    <2> HIDE DEF m
    <2>. QED BY <1>9, <1>10
  <1> HIDE DEF m, page
  <1> DEFINE q == pages \o page
  <1>12. q \in Seq(Row) /\ Len(q) = k + m
    BY <1>3, <1>11 DEF k
  <1>13. \A i \in 1 .. k + m : q[i] = K[i]
    <2> SUFFICES ASSUME NEW i \in 1 .. k + m PROVE q[i] = K[i]
      OBVIOUS
    <2>1. CASE i <= k
      <3>1. i \in 1 .. k /\ q[i] = pages[i]
        BY <1>3, <1>10, <1>11, <2>1 DEF k
      <3>. QED BY <1>3, <3>1
    <2>2. CASE i > k
      <3>1. i - k \in 1 .. m /\ i - k \in 1 .. N - k /\ k + (i - k) = i
        BY <1>3, <1>7, <1>10, <2>2
      <3>2. q[i] = page[i - k]
        BY <1>3, <1>10, <1>11, <2>2 DEF k
      <3>3. page[i - k] = found[i - k]
        BY <1>11, <3>1
      <3>. QED BY <1>8, <3>1, <3>2, <3>3
    <2>3. i <= k \/ i > k
      BY <1>3, <1>10
    <2>. QED BY <2>1, <2>2, <2>3
  <1>14. k + m <= N /\ (Len(found) <= limit => k + m = N)
    BY <1>1, <1>3, <1>10
  <1>15. Len(q) <= Len(K) /\ \A i \in 1 .. Len(q) : q[i] = K[i]
    BY <1>1, <1>12, <1>13, <1>14
  <1> HIDE DEF q
  <1>16. IsPrefix(q, K)
    <2>1. Len(q) <= Len(K) /\ SubSeq(q, 1, Len(q)) = SubSeq(K, 1, Len(q))
      BY <1>2, <1>12, <1>15, PrefixesAgree
    <2>. QED BY <2>1 DEF IsPrefix
  <1>17. Len(found) <= limit => q = K
    <2> SUFFICES ASSUME Len(found) <= limit PROVE q = K
      OBVIOUS
    <2>1. Len(q) = Len(K)
      BY <1>1, <1>12, <1>14
    <2>. QED BY <1>2, <1>12, <1>15, <2>1
  <1>. QED BY <1>12, <1>16, <1>17 DEF q, page, m, found, T, K

-----------------------------------------------------------------------------
(* Nothing the store does adds to what is known at a settled time.          *)
LEMMA SettledStays ==
    ASSUME StoreInv, StoreNext, NEW time \in Times, NEW snapshot, Settles(time, snapshot)
    PROVE  Settles(time, snapshot)'
  <1> DEFINE Later(p) == proc[p].pc = "append" =>
                            \A i \in DOMAIN proc[p].batch : time < proc[p].batch[i].at
             Same == {row.id : row \in Upto(rows, time)} = {row.id : row \in Upto(snapshot, time)}
  <1>1. time < clock /\ Same /\ \A p \in Processes : Later(p)
    BY DEF Settles
  <1>2. Settles(time, snapshot)' <=> time < clock' /\ Same' /\ (\A p \in Processes : Later(p)')
    BY DEF Settles, Upto
  <1>3. clock' = clock \/ clock' > clock
    <2>1. clock \in Nat
      BY DEF StoreInv, StoreAssumption, Times
    <2>2. clock' = clock \/ clock' = clock + 1
      BY DEF StoreNext, ReadVersion, ReadObjects, Create, Fetch, Receive, Commit, Busy, Die,
             Tick, Corrupt
    <2>. QED BY <2>1, <2>2
  <1>4. time < clock'
    <2>1. clock \in Nat /\ time \in Nat
      BY DEF StoreInv, StoreAssumption, Times
    <2>. QED BY <1>1, <1>3, <2>1, StoreNextInv DEF StoreInv, Times, StoreAssumption
  <1>5. Same'
    <2>1. ASSUME NEW p \in Processes, Commit(p) PROVE Same'
      <3>1. \A i \in DOMAIN proc[p].batch : time < proc[p].batch[i].at /\ proc[p].batch[i].at \in Nat
        <4>1. Pending(proc[p].batch) /\ Later(p)
          BY <1>1, <2>1 DEF StoreInv, Commit
        <4>2. \A i \in DOMAIN proc[p].batch : proc[p].batch[i] \in Row
          BY <4>1 DEF Pending
        <4>3. Times \subseteq Nat
          BY DEF StoreInv, StoreAssumption, Times
        <4>. QED BY <2>1, <4>1, <4>2, <4>3 DEF Row, Commit
      <3>2. \A i \in DOMAIN proc[p].batch : ~(proc[p].batch[i].at <= time)
        BY <3>1 DEF Times, StoreInv, StoreAssumption
      <3>3. Upto(rows', time) = Upto(rows, time)
        BY <2>1, <3>2 DEF Commit, Upto
      <3>4. Upto(snapshot, time)' = Upto(snapshot, time) /\ Upto(rows, time)' = Upto(rows', time)
        BY DEF Upto
      <3>. QED BY <1>1, <3>3, <3>4
    <2>2. ASSUME NEW edited \in rows, Corrupt(edited) PROVE Same'
      <3> DEFINE e == [edited EXCEPT !.sound = FALSE]
      <3>1. e.id = edited.id /\ e.at = edited.at
        BY DEF StoreInv, Table, Row
      <3>2. rows' = (rows \ {edited}) \cup {e}
        BY <2>2 DEF Corrupt
      <3> HIDE DEF e
      <3>3. {row.id : row \in Upto(rows', time)} = {row.id : row \in Upto(rows, time)}
        <4>1. \A r \in Upto(rows', time) : \E q \in Upto(rows, time) : q.id = r.id
          BY <3>1, <3>2 DEF Upto
        <4>2. \A r \in Upto(rows, time) : \E q \in Upto(rows', time) : q.id = r.id
          BY <3>1, <3>2 DEF Upto
        <4>. QED BY <4>1, <4>2
      <3>4. Upto(snapshot, time)' = Upto(snapshot, time) /\ Upto(rows, time)' = Upto(rows', time)
        BY DEF Upto
      <3>. QED BY <1>1, <3>3, <3>4
    <2>3. ASSUME rows' = rows PROVE Same'
      BY <1>1, <2>3 DEF Upto
    <2>4. \/ rows' = rows \/ \E p \in Processes : Commit(p)
          \/ \E row \in rows : Corrupt(row)
      BY DEF StoreNext, ReadVersion, ReadObjects, Create, Fetch, Receive, Busy, Die, Tick
    <2>. QED BY <2>1, <2>2, <2>3, <2>4
  <1>6. \A p \in Processes : Later(p)'
    <2>1. ASSUME NEW p \in Processes, NEW k, Goto(p, k),
                 k.pc = "append" => \A i \in DOMAIN k.batch : time < k.batch[i].at
          PROVE \A q \in Processes : Later(q)'
      BY <1>1, <2>1 DEF Goto, StoreInv
    <2>2. ASSUME NEW p \in Processes, NEW payloads \in Lists(Payloads), NEW ids \in Lists(Ids),
                 Receive(p, payloads, ids)
          PROVE \A q \in Processes : Later(q)'
      <3> DEFINE b == Observations(payloads, ids, clock)
                 a == [pc |-> "append", batch |-> b]
      <3>1. a.pc = "append" /\ a.batch = b
        OBVIOUS
      <3>2. \A i \in DOMAIN b : b[i].at = clock
        BY DEF Observations
      <3>3. Goto(p, Ready) \/ Goto(p, a)
        BY <2>2 DEF Receive
      <3> HIDE DEF a, b
      <3>4. Ready.pc # "append"
        BY DEF Ready
      <3>. QED BY <1>1, <2>1, <3>1, <3>2, <3>3, <3>4
    <2>3. ASSUME NEW p \in Processes,
                 \/ ReadVersion(p) \/ ReadObjects(p) \/ Create(p) \/ Commit(p) \/ Busy(p)
                 \/ Die(p) \/ \E request \in Requests : Fetch(p, request)
          PROVE \A q \in Processes : Later(q)'
      <3> DEFINE Elsewhere == \E k : Goto(p, k) /\ k.pc # "append"
      <3>1. Goto(p, Ready) \/ Goto(p, Closed) \/ Goto(p, Distrusts) => Elsewhere
        BY DEF Ready, Closed, Distrusts
      <3>2. ASSUME NEW k, Goto(p, k), k.pc # "append" PROVE Elsewhere
        BY <3>2
      <3> HIDE DEF Elsewhere
      <3>3. ReadVersion(p) => Elsewhere
        BY <3>2 DEF ReadVersion
      <3>4. ReadObjects(p) => Elsewhere
        BY <3>1, <3>2 DEF ReadObjects
      <3>5. Create(p) \/ Commit(p) \/ Busy(p) \/ Die(p) => Elsewhere
        BY <3>1 DEF Create, Commit, Busy, Die
      <3>6. ASSUME NEW request \in Requests, Fetch(p, request) PROVE Elsewhere
        BY <3>2, <3>6 DEF Fetch
      <3>7. Elsewhere
        BY <2>3, <3>3, <3>4, <3>5, <3>6
      <3>8. PICK k : Goto(p, k) /\ k.pc # "append"
        BY <3>7 DEF Elsewhere
      <3>. QED BY <2>1, <3>8
    <2>4. ASSUME proc' = proc PROVE \A q \in Processes : Later(q)'
      BY <1>1, <2>4
    <2>. QED BY <2>2, <2>3, <2>4 DEF StoreNext, Tick, Corrupt
  <1>. QED BY <1>2, <1>4, <1>5, <1>6

LEMMA ReplayInitInv == ASSUME StoreAssumption, ReplayAssumption, ReplayInit PROVE ReplayInv
  <1>1. Table({})
    BY FS_EmptySet DEF Table
  <1>2. StoreInv
    BY StoreInitInv DEF ReplayInit
  <1>3. Unopened \in Readings
    BY DEF Unopened, Readings
  <1>. QED BY <1>1, <1>2, <1>3 DEF ReplayInit, ReplayInv, Unopened

(* Opening, reading and closing keep what readers have, the store's own     *)
(* steps what is settled.                                                   *)
LEMMA ReplayNextInv == ASSUME ReplayInv, ReplayNext PROVE ReplayInv'
  <1> DEFINE Good(r) ==
        /\ Table(reader[r].snapshot)
        /\ reader[r].asOf = None => reader[r].pages = <<>>
        /\ reader[r].asOf # None => Paged(reader[r])
        /\ \A time \in reader[r].settled : Settles(time, reader[r].snapshot)
  <1>1. /\ StoreInv /\ StoreAssumption /\ ReplayAssumption /\ reader \in [Readers -> Readings]
        /\ \A r \in Readers : Good(r)
    BY DEF ReplayInv, StoreInv
  <1>2. ASSUME StoreNext, UNCHANGED reader PROVE ReplayInv'
    <2>1. StoreInv'
      BY <1>1, <1>2, StoreNextInv
    <2>2. ASSUME NEW r \in Readers PROVE Good(r)'
      <3>1. reader[r].settled \subseteq Times
        BY <1>1, <2>2 DEF Readings
      <3>2. \A time \in reader[r].settled : Settles(time, reader[r].snapshot)'
        <4> SUFFICES ASSUME NEW time \in reader[r].settled
                     PROVE  Settles(time, reader[r].snapshot)'
          OBVIOUS
        <4>1. Settles(time, reader[r].snapshot) /\ time \in Times
          BY <1>1, <2>2, <3>1
        <4>2. PICK snapshot : snapshot = reader[r].snapshot
          OBVIOUS
        <4>3. Settles(time, snapshot)'
          BY <1>1, <1>2, <4>1, <4>2, SettledStays
        <4>. QED BY <1>2, <4>2, <4>3 DEF Settles, Upto
      <3>. QED BY <1>1, <1>2, <2>2, <3>2
                DEF Paged, Known, KnownRows, Sorted
    <2>. QED BY <1>1, <1>2, <2>1, <2>2 DEF ReplayInv
  <1>3. ASSUME NEW r \in Readers, NEW k \in Readings, UNCHANGED storeVars,
               reader' = [reader EXCEPT ![r] = k],
               /\ Table(k.snapshot)
               /\ k.asOf = None => k.pages = <<>>
               /\ k.asOf # None => Paged(k)
               /\ \A time \in k.settled : Settles(time, k.snapshot)
        PROVE ReplayInv'
    <2>1. StoreInv'
      BY <1>1, <1>3 DEF storeVars, StoreInv, Pending
    <2>2. reader' \in [Readers -> Readings] /\ reader'[r] = k
          /\ \A q \in Readers : q # r => reader'[q] = reader[q]
      BY <1>1, <1>3
    <2>3. \A t, S : Settles(t, S) => Settles(t, S)'
      BY <1>3 DEF Settles, Upto, storeVars
    <2>4. ASSUME NEW q \in Readers PROVE Good(q)'
      <3>1. CASE q = r
        <4>1. reader'[q] = k
          BY <2>2, <3>1
        <4>2. \A time \in k.settled : Settles(time, k.snapshot)'
          BY <1>3, <2>3
        <4>. QED BY <1>3, <4>1, <4>2 DEF Settles, Upto
      <3>2. CASE q # r
        <4>1. reader'[q] = reader[q] /\ Good(q)
          BY <1>1, <2>2, <3>2
        <4>2. \A time \in reader[q].settled : Settles(time, reader[q].snapshot)
          BY <4>1
        <4>. QED BY <1>3, <4>1, <4>2 DEF Settles, Upto, storeVars
      <3>. QED BY <3>1, <3>2
    <2>. QED BY <1>1, <2>1, <2>2, <2>4 DEF ReplayInv
  <1>4. ASSUME NEW r \in Readers, Open(r) PROVE ReplayInv'
    <2> DEFINE k == [Unopened EXCEPT !.open = TRUE, !.snapshot = rows, !.settled = Settled]
    <2>1. /\ k.snapshot = rows /\ k.asOf = None /\ k.pages = <<>> /\ k.settled = Settled
          /\ k \in Readings
      <3>1. Unopened \in Readings /\ Unopened.asOf = None /\ Unopened.pages = <<>>
        BY DEF Unopened, Readings
      <3>2. rows \subseteq Row /\ Settled \subseteq Times
        BY <1>1 DEF StoreInv, Table, Settled
      <3>. QED BY <3>1, <3>2 DEF Readings
    <2>2. \A time \in Settled : Settles(time, rows)
      BY DEF Settled, Settles
    <2>3. Table(rows) /\ reader' = [reader EXCEPT ![r] = k] /\ UNCHANGED storeVars
      BY <1>1, <1>4 DEF Open, StoreInv
    <2> HIDE DEF k
    <2>. QED BY <1>3, <2>1, <2>2, <2>3
  <1>5. ASSUME NEW r \in Readers, Close(r) PROVE ReplayInv'
    <2>1. /\ Table(Unopened.snapshot) /\ Unopened \in Readings /\ Unopened.settled = {}
          /\ Unopened.asOf = None /\ Unopened.pages = <<>>
      BY FS_EmptySet DEF Unopened, Readings, Table
    <2>2. reader' = [reader EXCEPT ![r] = Unopened] /\ UNCHANGED storeVars
      BY <1>5 DEF Close
    <2>. QED BY <1>3, <2>1, <2>2
  <1>6. ASSUME NEW r \in Readers, NEW asOf \in Times, NEW limit \in Limits,
               ReadBatch(r, asOf, limit)
        PROVE ReplayInv'
    <2> DEFINE old == reader[r]
               pages == old.pages
               eligible == {row \in Visible(r) :
                                row.at <= asOf /\ (pages # <<>> => After(row, Last(pages)))}
               found == Sorted(eligible, Before)
               page == SubSeq(found, 1, IF Len(found) < limit THEN Len(found) ELSE limit)
               more == pages \o page
               end == Exhausted(found, limit)
               k == [old EXCEPT !.asOf = asOf, !.pages = more, !.exhausted = end]
    <2>1. /\ Bound(r, asOf) /\ \A i \in DOMAIN page : page[i].sound
          /\ UNCHANGED storeVars
          /\ reader' = [reader EXCEPT ![r].asOf = asOf, ![r].pages = more, ![r].exhausted = end]
      BY <1>6 DEF ReadBatch
    <2>2. old \in Readings /\ Good(r) /\ limit \in Nat
      BY <1>1 DEF ReplayAssumption
    <2>3. pages \in Seq(Row)
      BY <2>2 DEF Readings
    <2>4. IsPrefix(pages, KnownRows(old.snapshot, asOf)) /\ \A i \in DOMAIN pages : pages[i].sound
      <3>1. CASE old.asOf = None
        <4>1. pages = <<>>
          BY <2>2, <3>1
        <4>2. KnownRows(old.snapshot, asOf) \in Seq(Upto(old.snapshot, asOf))
          BY <1>1, <2>2, KnownInOrder
        <4> HIDE DEF pages
        <4>. QED BY <4>1, <4>2 DEF IsPrefix
      <3>2. CASE old.asOf # None
        <4>1. old.asOf = asOf
          BY <2>1, <3>2 DEF Bound
        <4>2. Paged(old)
          BY <2>2, <3>2
        <4>. QED BY <4>1, <4>2 DEF Paged, Known
      <3>. QED BY <3>1, <3>2
    <2>5. /\ more \in Seq(Row) /\ IsPrefix(more, KnownRows(old.snapshot, asOf))
          /\ Len(found) <= limit => more = KnownRows(old.snapshot, asOf)
      BY <1>1, <2>2, <2>3, <2>4, NextPage DEF Visible
    <2>6. end \in BOOLEAN /\ (end => Len(found) <= limit)
      BY DEF Exhausted
    <2>7. \A i \in DOMAIN more : more[i].sound
      <3>1. page \in Seq(Row)
        <4>1. eligible \in SUBSET old.snapshot
          BY DEF Visible
        <4>2. /\ eligible \subseteq Row /\ IsFiniteSet(eligible)
              /\ \A a, b \in eligible : a.id = b.id => a = b
          BY <2>2, <4>1, FS_Subset DEF Table
        <4> HIDE DEF eligible
        <4> DEFINE R == {p \in eligible \X eligible : Before(p[1], p[2])}
        <4>3. StrictOrder(eligible, R) /\ found = Enumerate(eligible, R)
          BY <1>1, <4>2, RowOrder
        <4> HIDE DEF found, R
        <4>4. found \in Seq(eligible) /\ Len(found) \in Nat
          BY <4>2, <4>3, Enumerated
        <4>5. found \in Seq(Row)
          BY <4>2, <4>4
        <4>. QED BY <2>2, <4>5
      <3> HIDE DEF page
      <3>2. \A i \in DOMAIN pages : pages[i].sound
        BY <2>4
      <3> HIDE DEF pages
      <3> SUFFICES ASSUME NEW i \in DOMAIN more PROVE more[i].sound
        OBVIOUS
      <3>3. CASE i <= Len(pages)
        <4>1. i \in DOMAIN pages /\ more[i] = pages[i]
          BY <2>3, <3>1, <3>3
        <4>. QED BY <3>2, <4>1
      <3>4. CASE i > Len(pages)
        <4>1. i - Len(pages) \in DOMAIN page /\ more[i] = page[i - Len(pages)]
          BY <2>3, <3>1, <3>4
        <4>. QED BY <2>1, <4>1
      <3>5. i <= Len(pages) \/ i > Len(pages)
        BY <2>3, <3>1
      <3>. QED BY <3>3, <3>4, <3>5
    <2>8. reader' = [reader EXCEPT ![r] = k]
      <3> HIDE DEF more, end
      <3>. QED BY <2>1
    <2>9. /\ k \in Readings /\ k.snapshot = old.snapshot /\ k.settled = old.settled
          /\ k.asOf = asOf /\ k.pages = more /\ k.exhausted = end
      <3> HIDE DEF more, end
      <3>. QED BY <2>2, <2>5, <2>6 DEF Readings
    <2> HIDE DEF more, end, found, k
    <2>10. Paged(k)
      BY <2>5, <2>6, <2>7, <2>9 DEF Paged, Known
    <2>11. k.asOf # None
      BY <1>1, <2>9 DEF ReplayAssumption
    <2>. QED BY <1>3, <2>1, <2>2, <2>8, <2>9, <2>10, <2>11
  <1>. QED BY <1>2, <1>4, <1>5, <1>6 DEF ReplayNext, ReplayInv

(* For any processes, payloads, clocks, readers and page sizes: what the    *)
(* store and its replays keep.                                              *)
THEOREM ReplayInvariant == StoreAssumption /\ ReplayAssumption /\ ReplaySpec => []ReplayInv
  <1>1. StoreAssumption /\ ReplayAssumption /\ ReplayInit => ReplayInv
    BY ReplayInitInv
  <1>2. ReplayInv /\ [ReplayNext]_replayVars => ReplayInv'
    <2>1. ASSUME ReplayInv, UNCHANGED replayVars PROVE ReplayInv'
      <3>1. UNCHANGED <<clock, file, rows, proc, reader>>
        BY <2>1 DEF replayVars, storeVars
      <3>2. StoreInv'
        BY <2>1, <3>1 DEF ReplayInv, StoreInv, Pending
      <3>3. \A t, S : Settles(t, S) => Settles(t, S)'
        BY <3>1 DEF Settles, Upto
      <3>4. ASSUME NEW r \in Readers
            PROVE  /\ Table(reader[r].snapshot)'
                   /\ (reader[r].asOf = None => reader[r].pages = <<>>)'
                   /\ (reader[r].asOf # None => Paged(reader[r]))'
                   /\ \A time \in reader[r].settled : Settles(time, reader[r].snapshot)'
        <4>1. /\ Table(reader[r].snapshot)
              /\ reader[r].asOf = None => reader[r].pages = <<>>
              /\ reader[r].asOf # None => Paged(reader[r])
              /\ \A time \in reader[r].settled : Settles(time, reader[r].snapshot)
          BY <2>1, <3>4 DEF ReplayInv
        <4>2. \A time \in reader[r].settled : Settles(time, reader[r].snapshot)'
          BY <3>1, <4>1 DEF Settles, Upto
        <4>. QED BY <3>1, <4>1, <4>2
      <3>. QED BY <2>1, <3>1, <3>2, <3>4 DEF ReplayInv
    <2>. QED BY <2>1, ReplayNextInv
  <1>. QED BY <1>1, <1>2, PTL DEF ReplaySpec

(* Batches are appended and replayed as a whole, in exact pages, and what a *)
(* replay of a settled moment returned is what it returns when repeated.    *)
THEOREM SoundReplays == StoreAssumption /\ ReplayAssumption /\ ReplaySpec => []ReplaysAreSound
  <1>1. ReplayInv => ReplaysAreSound
    <2> SUFFICES ASSUME ReplayInv PROVE ReplaysAreSound
      OBVIOUS
    <2>1. BatchesAreWhole
      BY StoreImplies DEF ReplayInv
    <2>2. PagesAreExact
      BY DEF ReplayInv, PagesAreExact, Paged, Known
    <2>3. SnapshotsAreWhole
      BY DEF ReplayInv, Table, SnapshotsAreWhole
    <2>4. SettledReplayIsFinal
      BY DEF ReplayInv, Settles, Upto, SettledReplayIsFinal, AvailableAt
    <2>. QED BY <2>1, <2>2, <2>3, <2>4 DEF ReplaysAreSound
  <1>. QED BY <1>1, ReplayInvariant, PTL

(* A replay only reads: with readers the store behaves as without.          *)
THEOREM ReplaysOnlyRead == ReplaySpec => StoreSpec
  <1>1. ReplayInit => StoreInit
    BY DEF ReplayInit
  <1>2. [ReplayNext]_replayVars => [StoreNext]_storeVars
    <2>1. \A r \in Readers : Open(r) \/ Close(r) => UNCHANGED storeVars
      BY DEF Open, Close
    <2>2. \A r \in Readers, asOf \in Times, limit \in Limits :
            ReadBatch(r, asOf, limit) => UNCHANGED storeVars
      <3> SUFFICES ASSUME NEW r \in Readers, NEW asOf \in Times, NEW limit \in Limits,
                          ReadBatch(r, asOf, limit)
                   PROVE  UNCHANGED storeVars
        OBVIOUS
      <3>. QED BY Zenon DEF ReadBatch
    <2>3. UNCHANGED replayVars => UNCHANGED storeVars
      BY DEF replayVars
    <2>4. ReplayNext => StoreNext \/ UNCHANGED storeVars
      BY <2>1, <2>2 DEF ReplayNext
    <2>. QED BY <2>3, <2>4
  <1>. QED BY <1>1, <1>2, PTL DEF ReplaySpec, StoreSpec

-----------------------------------------------------------------------------
StructureInv ==
    /\ StructureAssumption
    /\ candles \in Seq(Candles) /\ Len(candles) <= MaxCandles
    /\ structure = EvaluateStructure(candles)

PivotType == [at : Nat, kind : {"HIGH", "LOW"}, confirmed : Nat, price : Nat]
Price(history, i, kind) == IF kind = "HIGH" THEN history[i].high ELSE history[i].low

(* The sets that the definitions take the first position of.                *)
Crossing(history, pivots, p) ==
    {i \in DOMAIN history :
        /\ p \in Newest({q \in KnownPivots(pivots, i) : q.kind = p.kind})
        /\ Beyond(history[i].close, p)}
Sweeping(history, p) ==
    {i \in DOMAIN history :
        /\ p.confirmed <= i
        /\ Beyond(IF p.kind = "HIGH" THEN history[i].high ELSE history[i].low, p)
        /\ ~Beyond(history[i].close, p)}

-----------------------------------------------------------------------------
(* The first position of a set of positions is one of them, and none if     *)
(* there is none.                                                           *)
LEMMA FirstIs ==
    ASSUME NEW S, S \subseteq Nat \ {0}
    PROVE  /\ S = {} => First(S) = Never
           /\ S # {} => First(S) \in S /\ First(S) # Never /\ \A i \in S : First(S) <= i
  <1>1. S # {} => \E n \in S : \A m \in S : n <= m
    BY LeastNatural
  <1>2. S # {} => First(S) = CHOOSE i \in S : \A j \in S : i <= j
    BY DEF First
  <1>3. S # {} => First(S) \in S /\ \A i \in S : First(S) <= i
    BY <1>1, <1>2
  <1>. QED BY <1>3 DEF First, Never

(* A position more, behind the others, is the first only if it is alone.    *)
Extends(S, T, n) ==
    /\ S \subseteq 1 .. n /\ T \subseteq 1 .. n + 1
    /\ \A i \in 1 .. n : i \in T <=> i \in S

LEMMA FirstGrows ==
    ASSUME NEW n \in Nat, NEW S, NEW T, Extends(S, T, n)
    PROVE  /\ First(T) = First(S) \/ (First(S) = Never /\ First(T) = n + 1)
           /\ S # {} => First(T) = First(S)
           /\ T # {} /\ S = {} => First(T) = n + 1
           /\ n + 1 \notin T => First(T) = First(S)
  <1>0. /\ S \subseteq 1 .. n /\ T \subseteq 1 .. n + 1
        /\ \A i \in 1 .. n : i \in T <=> i \in S
    BY DEF Extends
  <1>1. S \subseteq Nat \ {0} /\ T \subseteq Nat \ {0}
    BY <1>0
  <1>2. \A i \in T : i = n + 1 \/ i \in S
    <2>1. \A i \in 1 .. n + 1 : i = n + 1 \/ i \in 1 .. n
      OBVIOUS
    <2>. QED BY <1>0, <2>1
  <1>3. CASE S = {}
    BY <1>1, <1>2, <1>3, FirstIs
  <1>4. CASE S # {}
    <2>1. First(S) \in S /\ First(S) \in T /\ \A i \in S : First(S) <= i
      BY <1>0, <1>1, <1>4, FirstIs
    <2>2. \A i \in T : First(S) <= i
      <3>1. First(S) \in 1 .. n
        BY <1>0, <2>1
      <3>. QED BY <1>2, <2>1, <3>1
    <2>3. First(T) \in T /\ \A i \in T : First(T) <= i
      BY <1>1, <2>1, FirstIs
    <2>4. First(T) = First(S)
      <3>1. First(T) <= First(S) /\ First(S) <= First(T)
        BY <2>1, <2>2, <2>3
      <3>2. First(T) \in Nat /\ First(S) \in Nat
        BY <1>1, <2>1, <2>3
      <3>. QED BY <3>1, <3>2
    <2>. QED BY <1>4, <2>4
  <1>. QED BY <1>3, <1>4

(* A bar of the series is legal.                                            *)
LEMMA CandleIs ==
    ASSUME StructureAssumption, NEW c \in Candles
    PROVE  /\ c.high \in Nat /\ c.low \in Nat /\ c.close \in Nat
           /\ c.low <= c.close /\ c.close <= c.high
  BY DEF StructureAssumption, CandleType

(* A pivot has the price of its bar, above or below those of its spans.     *)
LEMMA PivotIs ==
    ASSUME StructureAssumption, NEW h \in Seq(Candles)
    PROVE  \A p : p \in Pivots(h) <=>
            /\ p \in PivotType
            /\ p.at \in LeftSpan + 1 .. Len(h) - RightSpan
            /\ p.confirmed = p.at + RightSpan
            /\ p.price = Price(h, p.at, p.kind)
            /\ Stands(h, p, p.at - LeftSpan .. p.confirmed)
  <1>1. LeftSpan \in Nat /\ RightSpan \in Nat /\ RightSpan >= 1
    BY DEF StructureAssumption
  <1> DEFINE I == LeftSpan + 1 .. Len(h) - RightSpan
  <1>2. \A i \in I : i \in 1 .. Len(h) /\ i \in Nat
    BY <1>1
  <1>3. \A i \in I : h[i].high \in Nat /\ h[i].low \in Nat
    <2>1. \A i \in I : h[i] \in Candles
      BY <1>2
    <2>. QED BY <2>1, CandleIs
  <1>4. ASSUME NEW p
        PROVE p \in PivotsAt(h, I) <=>
                /\ p \in PivotType /\ p.at \in I /\ p.confirmed = p.at + RightSpan
                /\ p.price = Price(h, p.at, p.kind)
    <2> DEFINE P(i, kind) == [at |-> i, kind |-> kind, confirmed |-> i + RightSpan,
                              price |-> Price(h, i, kind)]
    <2>1. PivotsAt(h, I) = {P(i, kind) : i \in I, kind \in {"HIGH", "LOW"}}
      BY DEF PivotsAt, Price
    <2>2. \A i \in I, kind \in {"HIGH", "LOW"} :
            /\ P(i, kind) \in PivotType /\ P(i, kind).at = i
            /\ P(i, kind).kind = kind /\ P(i, kind).confirmed = i + RightSpan
            /\ P(i, kind).price = Price(h, i, kind)
      BY <1>1, <1>2, <1>3 DEF PivotType, Price
    <2>3. ASSUME p \in PivotType, p.at \in I, p.confirmed = p.at + RightSpan,
                 p.price = Price(h, p.at, p.kind)
          PROVE  p \in PivotsAt(h, I)
      <3>1. p = [at |-> p.at, kind |-> p.kind, confirmed |-> p.confirmed, price |-> p.price]
        BY <2>3 DEF PivotType
      <3>2. p.kind \in {"HIGH", "LOW"}
        BY <2>3 DEF PivotType
      <3>3. p = P(p.at, p.kind)
        BY <2>3, <3>1
      <3> HIDE DEF P, I
      <3>. QED BY <2>1, <2>3, <3>2, <3>3
    <2> HIDE DEF P, I
    <2>. QED BY <2>1, <2>2, <2>3
  <1> HIDE DEF I
  <1>. QED BY <1>4 DEF Pivots, I

-----------------------------------------------------------------------------
(* A series and the same series with a bar more.                            *)
Grown(h, g, n) ==
    /\ h \in Seq(Candles) /\ g \in Seq(Candles)
    /\ n \in Nat /\ Len(h) = n /\ Len(g) = n + 1
    /\ \A i \in 1 .. n : g[i] = h[i]

(* The pivots that were known stay, the others are known by the new bar.    *)
LEMMA PivotsGrow ==
    ASSUME StructureAssumption, NEW h, NEW g, NEW n, Grown(h, g, n)
    PROVE  /\ Pivots(h) \subseteq Pivots(g)
           /\ \A p \in Pivots(h) : p.confirmed <= n
           /\ \A p \in Pivots(g) : p \notin Pivots(h) => p.confirmed = n + 1
           /\ Pivots(g) \subseteq PivotType
           /\ \A p \in Pivots(g) : p.confirmed \in 1 .. n + 1
  <1>1. LeftSpan \in Nat /\ RightSpan \in Nat /\ RightSpan >= 1 /\ LeftSpan >= 1
    BY DEF StructureAssumption
  <1>2. /\ h \in Seq(Candles) /\ g \in Seq(Candles)
        /\ n \in Nat /\ Len(h) = n /\ Len(g) = n + 1
        /\ \A i \in 1 .. n : g[i] = h[i]
    BY DEF Grown
  <1>3. ASSUME NEW p \in PivotType, p.at \in LeftSpan + 1 .. n - RightSpan,
               p.confirmed = p.at + RightSpan
        PROVE  /\ p.at \in 1 .. n
               /\ Price(g, p.at, p.kind) = Price(h, p.at, p.kind)
               /\ Stands(h, p, p.at - LeftSpan .. p.confirmed)
                    <=> Stands(g, p, p.at - LeftSpan .. p.confirmed)
    <2>1. p.at \in 1 .. n /\ (p.at - LeftSpan .. p.confirmed) \subseteq 1 .. n
      BY <1>1, <1>2, <1>3
    <2>2. \A i \in p.at - LeftSpan .. p.confirmed : g[i] = h[i]
      BY <1>2, <2>1
    <2>. QED BY <1>2, <2>1, <2>2 DEF Price, Stands
  <1>4. \A p \in Pivots(h) : p \in Pivots(g) /\ p.confirmed <= n
    <2> SUFFICES ASSUME NEW p \in Pivots(h) PROVE p \in Pivots(g) /\ p.confirmed <= n
      OBVIOUS
    <2>1. /\ p \in PivotType /\ p.at \in LeftSpan + 1 .. n - RightSpan
          /\ p.confirmed = p.at + RightSpan /\ p.price = Price(h, p.at, p.kind)
          /\ Stands(h, p, p.at - LeftSpan .. p.confirmed)
      BY <1>2, PivotIs
    <2>2. p.at \in LeftSpan + 1 .. (n + 1) - RightSpan /\ p.confirmed <= n
      BY <1>1, <1>2, <2>1
    <2>3. p \in Pivots(g)
      BY <1>2, <1>3, <2>1, <2>2, PivotIs
    <2>. QED BY <2>2, <2>3
  <1>5. \A p \in Pivots(g) : /\ p \notin Pivots(h) => p.confirmed = n + 1
                            /\ p \in PivotType /\ p.confirmed \in 1 .. n + 1
    <2> SUFFICES ASSUME NEW p \in Pivots(g)
                 PROVE  /\ p \notin Pivots(h) => p.confirmed = n + 1
                        /\ p \in PivotType /\ p.confirmed \in 1 .. n + 1
      OBVIOUS
    <2>1. /\ p \in PivotType /\ p.at \in LeftSpan + 1 .. (n + 1) - RightSpan
          /\ p.confirmed = p.at + RightSpan /\ p.price = Price(g, p.at, p.kind)
          /\ Stands(g, p, p.at - LeftSpan .. p.confirmed)
      BY <1>2, PivotIs
    <2>2. p.confirmed \in 1 .. n + 1
      BY <1>1, <1>2, <2>1
    <2>3. CASE p.at <= n - RightSpan
      <3>1. p.at \in LeftSpan + 1 .. n - RightSpan
        BY <1>1, <1>2, <2>1, <2>3
      <3>2. p \in Pivots(h)
        BY <1>2, <1>3, <2>1, <3>1, PivotIs
      <3>. QED BY <2>1, <2>2, <3>2
    <2>4. CASE ~(p.at <= n - RightSpan)
      <3>1. p.confirmed = n + 1
        BY <1>1, <1>2, <2>1, <2>4
      <3>. QED BY <2>1, <2>2, <3>1
    <2>. QED BY <2>3, <2>4
  <1>. QED BY <1>4, <1>5

(* First positions, one for each pivot that has one.                        *)
Marks(pivots, C) == {[pivot |-> p, at |-> First(C[p])] : p \in {p \in pivots : C[p] # {}}}

LEMMA MarksOf ==
    ASSUME NEW h, NEW pivots
    PROVE  /\ Breaks(h, pivots) = Marks(pivots, [p \in pivots |-> Crossing(h, pivots, p)])
           /\ Sweeps(h, pivots) = Marks(pivots, [p \in pivots |-> Sweeping(h, p)])
  <1>1. Breaks(h, pivots) = {[pivot |-> p, at |-> First(Crossing(h, pivots, p))] :
                                p \in {p \in pivots : Crossing(h, pivots, p) # {}}}
    BY DEF Breaks, Crossing
  <1>2. Sweeps(h, pivots) = {[pivot |-> p, at |-> First(Sweeping(h, p))] :
                                p \in {p \in pivots : Sweeping(h, p) # {}}}
    BY DEF Sweeps, Sweeping
  <1>. QED BY <1>1, <1>2 DEF Marks

(* Marks stay, and the others are made by the new bar, when it alone can    *)
(* add to the sets they are the first of.                                   *)
LEMMA MarksGrow ==
    ASSUME NEW n \in Nat, NEW P, NEW Q, P \subseteq Q, NEW C, NEW D,
           \A p \in P : Extends(C[p], D[p], n),
           \A p \in Q : p \notin P => Extends({}, D[p], n)
    PROVE  /\ Marks(P, C) \subseteq Marks(Q, D)
           /\ \A m \in Marks(Q, D) : m \notin Marks(P, C) => m.at = n + 1
  <1>1. ASSUME NEW p \in P
        PROVE  /\ C[p] # {} => First(D[p]) = First(C[p]) /\ D[p] # {}
               /\ D[p] # {} /\ C[p] = {} => First(D[p]) = n + 1
    <2>1. Extends(C[p], D[p], n)
      OBVIOUS
    <2>2. /\ C[p] # {} => First(D[p]) = First(C[p])
          /\ D[p] # {} /\ C[p] = {} => First(D[p]) = n + 1
      BY <2>1, FirstGrows
    <2>. QED BY <2>1, <2>2 DEF Extends
  <1>2. ASSUME NEW p \in Q, p \notin P, D[p] # {} PROVE First(D[p]) = n + 1
    <2>1. Extends({}, D[p], n)
      BY <1>2
    <2>. QED BY <1>2, <2>1, FirstGrows
  <1>3. Marks(P, C) \subseteq Marks(Q, D)
    BY <1>1 DEF Marks
  <1>4. ASSUME NEW m \in Marks(Q, D), m \notin Marks(P, C) PROVE m.at = n + 1
    <2>1. PICK p \in Q : D[p] # {} /\ m = [pivot |-> p, at |-> First(D[p])]
      BY DEF Marks
    <2>2. CASE p \notin P
      BY <1>2, <2>1, <2>2
    <2>3. CASE p \in P
      <3>1. C[p] = {}
        BY <1>1, <1>4, <2>1, <2>3 DEF Marks
      <3>. QED BY <1>1, <2>1, <2>3, <3>1
    <2>. QED BY <2>2, <2>3
  <1>. QED BY <1>3, <1>4

(* The breaks and the sweeps of a series that grows.                        *)
LEMMA BreaksGrow ==
    ASSUME StructureAssumption, NEW h, NEW g, NEW n, Grown(h, g, n)
    PROVE  /\ Breaks(h, Pivots(h)) \subseteq Breaks(g, Pivots(g))
           /\ \A b \in Breaks(g, Pivots(g)) : b \notin Breaks(h, Pivots(h)) => b.at = n + 1
           /\ Sweeps(h, Pivots(h)) \subseteq Sweeps(g, Pivots(g))
           /\ \A b \in Sweeps(g, Pivots(g)) : b \notin Sweeps(h, Pivots(h)) => b.at = n + 1
  <1> DEFINE P == Pivots(h)
             Q == Pivots(g)
             C == [p \in P |-> Crossing(h, P, p)]
             D == [p \in Q |-> Crossing(g, Q, p)]
             U == [p \in P |-> Sweeping(h, p)]
             V == [p \in Q |-> Sweeping(g, p)]
  <1>1. /\ n \in Nat /\ DOMAIN h = 1 .. n /\ DOMAIN g = 1 .. n + 1
        /\ \A i \in 1 .. n : g[i] = h[i]
    BY DEF Grown
  <1>2. P \subseteq Q /\ \A p \in Q : /\ p \notin P => p.confirmed = n + 1
                                    /\ p.confirmed \in 1 .. n + 1
    BY PivotsGrow
  <1> HIDE DEF P, Q
  <1>3. \A i \in 1 .. n : KnownPivots(Q, i) = KnownPivots(P, i)
    <2>1. \A i \in 1 .. n, p \in Q : p.confirmed <= i => p \in P
      BY <1>1, <1>2
    <2>. QED BY <1>2, <2>1 DEF KnownPivots
  <1>4. \A p : \A i \in 1 .. n : i \in Crossing(g, Q, p) <=> i \in Crossing(h, P, p)
    <2>1. \A i \in 1 .. n : i \in DOMAIN g /\ i \in DOMAIN h
      BY <1>1
    <2>. QED BY <1>1, <1>3, <2>1 DEF Crossing
  <1>5. \A p \in Q : p \notin P => \A i \in 1 .. n : i \notin Crossing(g, Q, p)
    BY <1>1, <1>2, <1>3 DEF Crossing, Newest, KnownPivots
  <1>6. \A p : \A i \in 1 .. n : i \in Sweeping(g, p) <=> i \in Sweeping(h, p)
    <2>1. \A i \in 1 .. n : i \in DOMAIN g /\ i \in DOMAIN h
      BY <1>1
    <2>. QED BY <1>1, <2>1 DEF Sweeping
  <1>7. \A p \in Q : p \notin P => \A i \in 1 .. n : i \notin Sweeping(g, p)
    BY <1>1, <1>2 DEF Sweeping
  <1>8. /\ \A p : Crossing(h, P, p) \subseteq 1 .. n /\ Sweeping(h, p) \subseteq 1 .. n
        /\ \A p : Crossing(g, Q, p) \subseteq 1 .. n + 1 /\ Sweeping(g, p) \subseteq 1 .. n + 1
    BY <1>1 DEF Crossing, Sweeping
  <1>9. /\ \A p \in P : Extends(C[p], D[p], n)
        /\ \A p \in Q : p \notin P => Extends({}, D[p], n)
    BY <1>2, <1>4, <1>5, <1>8 DEF Extends
  <1>10. /\ \A p \in P : Extends(U[p], V[p], n)
         /\ \A p \in Q : p \notin P => Extends({}, V[p], n)
    BY <1>2, <1>6, <1>7, <1>8 DEF Extends
  <1>11. /\ Breaks(h, P) = Marks(P, C) /\ Breaks(g, Q) = Marks(Q, D)
         /\ Sweeps(h, P) = Marks(P, U) /\ Sweeps(g, Q) = Marks(Q, V)
    BY MarksOf
  <1> HIDE DEF C, D, U, V
  <1>12. /\ Marks(P, C) \subseteq Marks(Q, D)
         /\ \A m \in Marks(Q, D) : m \notin Marks(P, C) => m.at = n + 1
    BY <1>1, <1>2, <1>9, MarksGrow
  <1>13. /\ Marks(P, U) \subseteq Marks(Q, V)
         /\ \A m \in Marks(Q, V) : m \notin Marks(P, U) => m.at = n + 1
    BY <1>1, <1>2, <1>10, MarksGrow
  <1>. QED BY <1>11, <1>12, <1>13 DEF P, Q

-----------------------------------------------------------------------------
(* How a life moves on when bar number latest is added.                     *)
Moves(before, after, latest) == after = before \/ (before = Never /\ after = latest)

(* A life: E are the bars that end it, M those that touch it, and T those   *)
(* that touch it before it ends, or, with too, also as it does.             *)
Life(T, E, M, too) ==
    T = {i \in M : First(E) = Never \/ i < First(E) \/ (too = 1 /\ i = First(E))}

LEMMA LifeMoves ==
    ASSUME NEW n \in Nat, NEW E, NEW F, NEW M, NEW N, NEW T, NEW U, NEW too,
           Extends(E, F, n), Extends(M, N, n), Life(T, E, M, too), Life(U, F, N, too)
    PROVE  /\ Moves(First(E), First(F), n + 1)
           /\ Moves(First(T), First(U), n + 1)
           /\ First(E) # Never => First(F) = First(E) /\ First(U) = First(T)
  <1>1. /\ First(F) = First(E) \/ (First(E) = Never /\ First(F) = n + 1)
        /\ E # {} => First(F) = First(E)
    BY FirstGrows
  <1>2. First(E) # Never => First(E) \in 1 .. n
    <2>1. E \subseteq Nat \ {0} /\ E \subseteq 1 .. n
      BY DEF Extends
    <2>. QED BY <2>1, FirstIs
  <1>3. \A i \in 1 .. n : i \in U <=> i \in T
    <2> SUFFICES ASSUME NEW i \in 1 .. n PROVE i \in U <=> i \in T
      OBVIOUS
    <2>1. i <= n /\ i < n + 1 /\ (i \in M <=> i \in N)
      BY DEF Extends
    <2>2. CASE First(F) = First(E)
      BY <2>1, <2>2 DEF Life
    <2>3. CASE First(E) = Never /\ First(F) = n + 1
      BY <2>1, <2>3 DEF Life
    <2>. QED BY <1>1, <2>2, <2>3
  <1>4. /\ First(U) = First(T) \/ (First(T) = Never /\ First(U) = n + 1)
        /\ n + 1 \notin U => First(U) = First(T)
    <2>1. Extends(T, U, n)
      BY <1>3 DEF Life, Extends
    <2>. QED BY <2>1, FirstGrows
  <1>5. First(E) # Never => First(F) = First(E) /\ First(U) = First(T)
    <2> SUFFICES ASSUME First(E) # Never PROVE First(F) = First(E) /\ First(U) = First(T)
      OBVIOUS
    <2>1. First(F) = First(E) /\ First(E) \in 1 .. n
      BY <1>1, <1>2
    <2>2. n + 1 \notin U
      BY <2>1 DEF Never, Life
    <2>. QED BY <1>4, <2>1, <2>2
  <1>. QED BY <1>1, <1>4, <1>5 DEF Moves

GapOf(h, gap) ==
    LET later == gap.at + 1 .. Len(h)
        filled == First({i \in later : Filled(h[i], gap)})
    IN [gap |-> gap, filled |-> filled,
        partial |-> First({i \in later : Entered(h[i], gap) /\ (filled = Never \/ i < filled)})]

(* Gaps that were formed stay, and their lives move on.                     *)
LEMMA GapsGrow ==
    ASSUME StructureAssumption, NEW h, NEW g, NEW n, Grown(h, g, n)
    PROVE  \A x \in Gaps(h) : \E y \in Gaps(g) :
            /\ y.gap = x.gap
            /\ Moves(x.filled, y.filled, n + 1) /\ Moves(x.partial, y.partial, n + 1)
            /\ x.filled # Never => y = x
  <1>1. /\ n \in Nat /\ Len(h) = n /\ Len(g) = n + 1 /\ \A i \in 1 .. n : g[i] = h[i]
    BY DEF Grown
  <1>2. Gaps(h) = {GapOf(h, gap) : gap \in Formed(h)} /\ Gaps(g) = {GapOf(g, gap) : gap \in Formed(g)}
    BY DEF Gaps, GapOf
  <1>3. Formed(h) \subseteq Formed(g)
    <2>1. \A i \in 3 .. n : i \in 3 .. n + 1 /\ i \in 1 .. n /\ i - 2 \in 1 .. n
      BY <1>1
    <2>2. \A i \in 3 .. n : i \in 3 .. n + 1 /\ g[i] = h[i] /\ g[i - 2] = h[i - 2]
      BY <1>1, <2>1
    <2>3. \A gap \in Formed(h) : gap \in Formed(g)
      BY <1>1, <2>2 DEF Formed
    <2>. QED BY <2>3
  <1>4. \A gap \in Formed(h) : gap.at \in Nat
    <2>1. \A i \in 3 .. Len(h) : i \in Nat
      BY <1>1
    <2>. QED BY <2>1 DEF Formed
  <1>5. ASSUME NEW gap \in Formed(h)
        PROVE  LET x == GapOf(h, gap)
                   y == GapOf(g, gap)
               IN /\ y.gap = x.gap
                  /\ Moves(x.filled, y.filled, n + 1) /\ Moves(x.partial, y.partial, n + 1)
                  /\ x.filled # Never => y = x
    <2> DEFINE E == {i \in gap.at + 1 .. Len(h) : Filled(h[i], gap)}
               F == {i \in gap.at + 1 .. Len(g) : Filled(g[i], gap)}
               M == {i \in gap.at + 1 .. Len(h) : Entered(h[i], gap)}
               N == {i \in gap.at + 1 .. Len(g) : Entered(g[i], gap)}
               T == {i \in gap.at + 1 .. Len(h) :
                        Entered(h[i], gap) /\ (First(E) = Never \/ i < First(E))}
               U == {i \in gap.at + 1 .. Len(g) :
                        Entered(g[i], gap) /\ (First(F) = Never \/ i < First(F))}
    <2>1. GapOf(h, gap) = [gap |-> gap, filled |-> First(E), partial |-> First(T)]
          /\ GapOf(g, gap) = [gap |-> gap, filled |-> First(F), partial |-> First(U)]
      BY DEF GapOf
    <2>2. gap.at \in Nat
      BY <1>4
    <2>3. /\ \A i \in gap.at + 1 .. Len(h) : i \in 1 .. n /\ i \in gap.at + 1 .. Len(g)
          /\ \A i \in gap.at + 1 .. Len(g) : i \in 1 .. n + 1
          /\ \A i \in 1 .. n : i \in gap.at + 1 .. Len(g) <=> i \in gap.at + 1 .. Len(h)
      BY <1>1, <2>2
    <2>4. Extends(E, F, n)
      BY <1>1, <2>3 DEF Extends
    <2>5. Extends(M, N, n)
      BY <1>1, <2>3 DEF Extends
    <2>6. Life(T, E, M, 0)
      BY DEF Life
    <2>7. Life(U, F, N, 0)
      BY DEF Life
    <2> HIDE DEF E, F, T, U, M, N
    <2>8. /\ Moves(First(E), First(F), n + 1)
          /\ Moves(First(T), First(U), n + 1)
          /\ First(E) # Never => First(F) = First(E) /\ First(U) = First(T)
      <3>1. n \in Nat
        BY <1>1
      <3>. QED BY ONLY <3>1, <2>4, <2>5, <2>6, <2>7, LifeMoves
    <2>. QED BY <2>1, <2>8
  <1>. QED BY <1>2, <1>3, <1>5

(* Zones stay, and their lives move on.                                     *)
LEMMA ZonesGrow ==
    ASSUME StructureAssumption, NEW h, NEW g, NEW n, Grown(h, g, n),
           NEW p \in PivotType
    PROVE  LET x == Zone(h, p)
               y == Zone(g, p)
           IN /\ y.pivot = x.pivot
              /\ Moves(x.broken, y.broken, n + 1) /\ Moves(x.tested, y.tested, n + 1)
              /\ x.broken # Never => y = x
  <1> DEFINE lower == p.price - HalfWidth
             upper == p.price + HalfWidth
             Ends(b) == IF p.kind = "HIGH" THEN b.close > upper ELSE b.close < lower
             Touches(b) == b.high >= lower /\ b.low <= upper
             E == {i \in p.confirmed + 1 .. Len(h) : Ends(h[i])}
             F == {i \in p.confirmed + 1 .. Len(g) : Ends(g[i])}
             M == {i \in p.confirmed + 1 .. Len(h) : Touches(h[i])}
             N == {i \in p.confirmed + 1 .. Len(g) : Touches(g[i])}
             T == {i \in p.confirmed + 1 .. Len(h) :
                    Touches(h[i]) /\ (First(E) = Never \/ i <= First(E))}
             U == {i \in p.confirmed + 1 .. Len(g) :
                    Touches(g[i]) /\ (First(F) = Never \/ i <= First(F))}
  <1>1. /\ n \in Nat /\ Len(h) = n /\ Len(g) = n + 1 /\ \A i \in 1 .. n : g[i] = h[i]
    BY DEF Grown
  <1>2. Zone(h, p) = [pivot |-> p, broken |-> First(E), tested |-> First(T)]
        /\ Zone(g, p) = [pivot |-> p, broken |-> First(F), tested |-> First(U)]
    BY DEF Zone
  <1>3. p.confirmed \in Nat
    BY DEF PivotType
  <1> HIDE DEF Ends, Touches
  <1>4. /\ \A i \in p.confirmed + 1 .. Len(h) : i \in 1 .. n /\ i \in p.confirmed + 1 .. Len(g)
        /\ \A i \in p.confirmed + 1 .. Len(g) : i \in 1 .. n + 1
        /\ \A i \in 1 .. n : i \in p.confirmed + 1 .. Len(g) <=> i \in p.confirmed + 1 .. Len(h)
    BY <1>1, <1>3
  <1>5. Extends(E, F, n)
    BY <1>1, <1>4 DEF Extends
  <1>6. Extends(M, N, n)
    BY <1>1, <1>4 DEF Extends
  <1>7. First(E) \in Nat /\ First(F) \in Nat
    <2>1. E \subseteq Nat \ {0} /\ F \subseteq Nat \ {0}
      BY <1>1, <1>5 DEF Extends
    <2>2. Never \in Nat
      BY DEF Never
    <2> HIDE DEF E, F
    <2>3. First(E) = Never \/ First(E) \in E
      BY <2>1, FirstIs
    <2>4. First(F) = Never \/ First(F) \in F
      BY <2>1, FirstIs
    <2>. QED BY <2>1, <2>2, <2>3, <2>4
  <1> HIDE DEF E, F
  <1>8. \A i \in Nat : /\ i <= First(E) <=> i < First(E) \/ i = First(E)
                       /\ i <= First(F) <=> i < First(F) \/ i = First(F)
    BY <1>7
  <1>9. Life(T, E, M, 1)
    BY <1>4, <1>8 DEF Life
  <1>10. Life(U, F, N, 1)
    BY <1>4, <1>8 DEF Life
  <1> HIDE DEF T, U, M, N
  <1>11. /\ Moves(First(E), First(F), n + 1)
         /\ Moves(First(T), First(U), n + 1)
         /\ First(E) # Never => First(F) = First(E) /\ First(U) = First(T)
    <2>1. n \in Nat
      BY <1>1
    <2>. QED BY ONLY <2>1, <1>5, <1>6, <1>9, <1>10, LifeMoves
  <1>. QED BY <1>2, <1>11

-----------------------------------------------------------------------------
(* A bar by which a pivot is known is not beyond it: it had to stay on its  *)
(* side to confirm it.                                                      *)
LEMMA ConfirmedWithin ==
    ASSUME StructureAssumption, NEW h \in Seq(Candles), NEW p \in Pivots(h)
    PROVE  /\ p.confirmed \in DOMAIN h
           /\ ~Beyond(h[p.confirmed].close, p)
           /\ ~Beyond(IF p.kind = "HIGH" THEN h[p.confirmed].high ELSE h[p.confirmed].low, p)
  <1>1. /\ p \in PivotType /\ p.at \in LeftSpan + 1 .. Len(h) - RightSpan
        /\ p.confirmed = p.at + RightSpan /\ p.price = Price(h, p.at, p.kind)
        /\ Stands(h, p, p.at - LeftSpan .. p.confirmed)
    BY PivotIs
  <1>2. LeftSpan \in Nat /\ RightSpan \in Nat /\ RightSpan >= 1 /\ LeftSpan >= 1
    BY DEF StructureAssumption
  <1>3. Len(h) \in Nat
    OBVIOUS
  <1>4. /\ p.confirmed \in 1 .. Len(h) /\ p.confirmed # p.at
        /\ p.confirmed \in p.at - LeftSpan .. p.confirmed
    BY <1>1, <1>2, <1>3
  <1> DEFINE c == h[p.confirmed]
  <1>5. c \in Candles
    BY <1>4
  <1>6. /\ c.high \in Nat /\ c.low \in Nat /\ c.close \in Nat
        /\ c.low <= c.close /\ c.close <= c.high
    BY <1>5, CandleIs
  <1>7. IF p.kind = "HIGH" THEN c.high < p.price ELSE c.low > p.price
    BY <1>1, <1>4 DEF Stands
  <1>8. p.price \in Nat /\ p.kind \in {"HIGH", "LOW"}
    BY <1>1 DEF PivotType
  <1>9. p.confirmed \in DOMAIN h
    BY <1>4
  <1> HIDE DEF c
  <1>10. ~Beyond(c.close, p) /\ ~Beyond(IF p.kind = "HIGH" THEN c.high ELSE c.low, p)
    BY <1>6, <1>7, <1>8 DEF Beyond
  <1>. QED BY <1>9, <1>10 DEF c

(* Pivots are used once, whatever the bars.                                 *)
LEMMA UsedOnce ==
    ASSUME StructureAssumption, candles \in Seq(Candles), structure = EvaluateStructure(candles)
    PROVE  PivotsAreUsedOnce
  <1> DEFINE P == Pivots(candles)
             C == [p \in P |-> Crossing(candles, P, p)]
             S == [p \in P |-> Sweeping(candles, p)]
  <1>1. structure.breaks = Marks(P, C) /\ structure.sweeps = Marks(P, S)
    BY MarksOf DEF EvaluateStructure
  <1>2. ASSUME NEW b \in structure.breaks
        PROVE  /\ b.pivot \in P /\ b = [pivot |-> b.pivot, at |-> First(C[b.pivot])]
               /\ b.at \in Crossing(candles, P, b.pivot)
    <2>1. PICK p \in P : C[p] # {} /\ b = [pivot |-> p, at |-> First(C[p])]
      BY <1>1 DEF Marks
    <2>2. C[p] = Crossing(candles, P, p) /\ C[p] \subseteq Nat \ {0}
      BY DEF Crossing
    <2> HIDE DEF C, P
    <2>3. First(C[p]) \in C[p]
      BY <2>1, <2>2, FirstIs
    <2>. QED BY <2>1, <2>2, <2>3
  <1>3. ASSUME NEW b \in structure.sweeps
        PROVE  b.pivot \in P /\ b.at \in Sweeping(candles, b.pivot)
    <2>1. PICK p \in P : S[p] # {} /\ b = [pivot |-> p, at |-> First(S[p])]
      BY <1>1 DEF Marks
    <2>2. S[p] = Sweeping(candles, p) /\ S[p] \subseteq Nat \ {0}
      BY DEF Sweeping
    <2> HIDE DEF S, P
    <2>3. First(S[p]) \in S[p]
      BY <2>1, <2>2, FirstIs
    <2>. QED BY <2>1, <2>2, <2>3
  <1>4. ASSUME NEW p \in P, NEW i \in DOMAIN candles, p.confirmed <= i, p.confirmed # i
        PROVE  i > p.confirmed
    <2>1. p.confirmed \in Nat
      BY PivotIs DEF PivotType
    <2>. QED BY <1>4, <2>1
  <1>5. \A a, b \in structure.breaks : a.pivot = b.pivot => a = b
    BY <1>2
  <1>6. ASSUME NEW e \in structure.breaks PROVE e.at > e.pivot.confirmed
    <2>1. /\ e.pivot \in P /\ e.at \in DOMAIN candles /\ e.pivot.confirmed <= e.at
          /\ Beyond(candles[e.at].close, e.pivot)
      BY <1>2 DEF Crossing, Newest, KnownPivots
    <2>2. e.pivot.confirmed # e.at
      BY <2>1, ConfirmedWithin
    <2>. QED BY <1>4, <2>1, <2>2
  <1>7. ASSUME NEW e \in structure.sweeps PROVE e.at > e.pivot.confirmed
    <2>1. /\ e.pivot \in P /\ e.at \in DOMAIN candles /\ e.pivot.confirmed <= e.at
          /\ Beyond(IF e.pivot.kind = "HIGH" THEN candles[e.at].high ELSE candles[e.at].low, e.pivot)
      BY <1>3 DEF Sweeping
    <2>2. e.pivot.confirmed # e.at
      BY <2>1, ConfirmedWithin
    <2>. QED BY <1>4, <2>1, <2>2
  <1>8. structure.breaks \cap structure.sweeps = {}
    <2> SUFFICES ASSUME NEW e \in structure.breaks, e \in structure.sweeps PROVE FALSE
      OBVIOUS
    <2>1. Beyond(candles[e.at].close, e.pivot)
      BY <1>2 DEF Crossing
    <2>2. ~Beyond(candles[e.at].close, e.pivot)
      BY <1>3 DEF Sweeping
    <2>. QED BY <2>1, <2>2
  <1>. QED BY <1>5, <1>6, <1>7, <1>8 DEF PivotsAreUsedOnce

(* A zone that breaks has its pivot broken, or a newer one.                 *)
LEMMA ZonesFollow ==
    ASSUME StructureAssumption, candles \in Seq(Candles), structure = EvaluateStructure(candles)
    PROVE  ZonesFollowStructure
  <1> DEFINE P == Pivots(candles)
             C == [p \in P |-> Crossing(candles, P, p)]
  <1>1. structure.pivots = P /\ structure.breaks = Marks(P, C)
    BY MarksOf DEF EvaluateStructure
  <1>2. structure.zones \subseteq {Zone(candles, p) : p \in P}
    BY DEF EvaluateStructure, Zones
  <1> SUFFICES ASSUME NEW z \in structure.zones, z.broken # Never
               PROVE  \/ \E b \in structure.breaks : b.pivot = z.pivot /\ b.at <= z.broken
                      \/ \E q \in KnownPivots(P, z.broken) :
                            q.kind = z.pivot.kind /\ q.at > z.pivot.at
    BY <1>1 DEF ZonesFollowStructure
  <1>3. PICK p \in P : z = Zone(candles, p)
    BY <1>2
  <1> DEFINE lower == p.price - HalfWidth
             upper == p.price + HalfWidth
             E == {i \in p.confirmed + 1 .. Len(candles) :
                    IF p.kind = "HIGH" THEN candles[i].close > upper
                                       ELSE candles[i].close < lower}
  <1>4. z.pivot = p /\ z.broken = First(E)
    BY <1>3 DEF Zone
  <1>5. /\ p \in PivotType /\ p.at \in LeftSpan + 1 .. Len(candles) - RightSpan
        /\ p.confirmed = p.at + RightSpan
    BY PivotIs
  <1>6. LeftSpan \in Nat /\ RightSpan \in Nat /\ RightSpan >= 1 /\ HalfWidth \in Nat
        /\ HalfWidth >= 1 /\ Len(candles) \in Nat
    <2>1. Len(candles) \in Nat
      OBVIOUS
    <2> HIDE DEF P, C, E
    <2>. QED BY <2>1 DEF StructureAssumption
  <1>7. p.at \in Nat /\ p.confirmed \in Nat /\ p.price \in Nat /\ p.kind \in {"HIGH", "LOW"}
    BY <1>5 DEF PivotType
  <1>8. E \subseteq Nat \ {0}
    BY <1>6, <1>7
  <1>9. First(E) \in E
    <2> HIDE DEF E
    <2>. QED BY <1>4, <1>8, FirstIs
  <1> DEFINE i == z.broken
  <1>10. /\ i \in p.confirmed + 1 .. Len(candles)
         /\ IF p.kind = "HIGH" THEN candles[i].close > upper ELSE candles[i].close < lower
    BY <1>4, <1>9
  <1>11. i \in DOMAIN candles /\ p.confirmed <= i /\ p.at < i
    BY <1>5, <1>6, <1>7, <1>10
  <1>12. Beyond(candles[i].close, p)
    <2>1. candles[i] \in Candles
      BY <1>11
    <2>2. candles[i].close \in Nat
      BY <2>1, CandleIs
    <2>. QED BY <1>6, <1>7, <1>10, <2>2 DEF Beyond
  <1> HIDE DEF i, P, E
  <1>13. p \in {q \in KnownPivots(P, i) : q.kind = p.kind}
    BY <1>11 DEF KnownPivots
  <1>14. CASE p \in Newest({q \in KnownPivots(P, i) : q.kind = p.kind})
    <2>1. i \in C[p]
      BY <1>11, <1>12, <1>14 DEF Crossing
    <2>2. C[p] \subseteq Nat \ {0}
      BY DEF Crossing
    <2> HIDE DEF C
    <2>3. C[p] # {} /\ First(C[p]) <= i
      BY <2>1, <2>2, FirstIs
    <2>4. [pivot |-> p, at |-> First(C[p])] \in structure.breaks
      BY <1>1, <2>3 DEF Marks
    <2>. QED BY <1>4, <2>3, <2>4 DEF i
  <1>15. CASE p \notin Newest({q \in KnownPivots(P, i) : q.kind = p.kind})
    <2>1. PICK q \in KnownPivots(P, i) : q.kind = p.kind /\ ~(q.at <= p.at)
      BY <1>13, <1>15 DEF Newest
    <2>2. q.at \in Nat
      <3>1. q \in Pivots(candles)
        BY <2>1 DEF KnownPivots, P
      <3>. QED BY <3>1, PivotIs DEF PivotType
    <2>. QED BY <1>4, <1>7, <2>1, <2>2 DEF i
  <1>. QED BY <1>14, <1>15

-----------------------------------------------------------------------------
LEMMA StructureNextInv ==
    ASSUME StructureInv, [StructureNext]_structureVars
    PROVE  StructureInv'
  <1>1. CASE UNCHANGED structureVars
    BY <1>1 DEF StructureInv, structureVars
  <1>2. ASSUME NEW b \in Candles, AddCandle(b) PROVE StructureInv'
    <2>1. candles' \in Seq(Candles) /\ Len(candles') = Len(candles) + 1
      BY <1>2 DEF AddCandle, StructureInv
    <2>2. Len(candles) < MaxCandles /\ MaxCandles \in Nat /\ Len(candles) \in Nat
      BY <1>2 DEF AddCandle, StructureInv, StructureAssumption
    <2>. QED BY <1>2, <2>1, <2>2 DEF AddCandle, StructureInv
  <1>. QED BY <1>1, <1>2 DEF StructureNext

(* For any bars and spans: the structure is the one of its series.          *)
THEOREM StructureInvariant == StructureAssumption /\ StructureSpec => []StructureInv
  <1>1. StructureAssumption /\ StructureInit => StructureInv
    BY DEF StructureInit, StructureInv, StructureAssumption
  <1>. QED BY <1>1, StructureNextInv, PTL DEF StructureSpec

(* The states of pivots, breaks, sweeps and zones fit together.             *)
THEOREM ConsistentStructure == StructureAssumption /\ StructureSpec => []StructureIsConsistent
  <1>1. StructureInv => StructureIsConsistent
    BY UsedOnce, ZonesFollow DEF StructureInv, StructureIsConsistent
  <1>. QED BY <1>1, StructureInvariant, PTL

(* A bar more makes a series that has grown.                                *)
LEMMA CandlesGrow ==
    ASSUME StructureInv, NEW b \in Candles, AddCandle(b)
    PROVE  /\ Grown(candles, candles', Len(candles)) /\ Len(candles') = Len(candles) + 1
           /\ structure = EvaluateStructure(candles) /\ structure' = EvaluateStructure(candles')
  <1>1. candles \in Seq(Candles) /\ candles' = Append(candles, b)
    BY DEF StructureInv, AddCandle
  <1>. QED BY <1>1 DEF Grown, StructureInv, AddCandle

(* Another bar only adds what is dated with it, and moves on the lives of   *)
(* gaps and zones.                                                          *)
THEOREM StructureAdvances == StructureAssumption /\ StructureSpec => StructureOnlyAdvances
  <1> DEFINE latest == Len(candles')
             Adds == /\ structure.pivots \subseteq structure'.pivots
                     /\ \A p \in structure'.pivots \ structure.pivots : p.confirmed = latest
                     /\ structure.breaks \subseteq structure'.breaks
                     /\ \A b \in structure'.breaks \ structure.breaks : b.at = latest
                     /\ structure.sweeps \subseteq structure'.sweeps
                     /\ \A s \in structure'.sweeps \ structure.sweeps : s.at = latest
             Lives == /\ \A g \in structure.gaps : \E h \in structure'.gaps :
                            /\ h.gap = g.gap
                            /\ Advances(g.filled, h.filled) /\ Advances(g.partial, h.partial)
                            /\ g.filled # Never => h = g
                      /\ ~structure'.rejected =>
                            \A z \in structure.zones : \E y \in structure'.zones :
                                /\ y.pivot = z.pivot
                                /\ Advances(z.broken, y.broken) /\ Advances(z.tested, y.tested)
                                /\ z.broken # Never => y = z
  <1>1. StructureInv /\ [StructureNext]_structureVars => [Adds /\ Lives]_structureVars
    <2> SUFFICES ASSUME StructureInv, NEW b \in Candles, AddCandle(b) PROVE Adds /\ Lives
      BY DEF StructureNext
    <2>1. /\ Grown(candles, candles', Len(candles)) /\ latest = Len(candles) + 1
          /\ structure = EvaluateStructure(candles) /\ structure' = EvaluateStructure(candles')
          /\ StructureAssumption
      BY CandlesGrow DEF StructureInv
    <2> DEFINE h == candles
               g == candles'
               n == Len(candles)
    <2>2. /\ structure.pivots = Pivots(h) /\ structure'.pivots = Pivots(g)
          /\ structure.breaks = Breaks(h, Pivots(h)) /\ structure'.breaks = Breaks(g, Pivots(g))
          /\ structure.sweeps = Sweeps(h, Pivots(h)) /\ structure'.sweeps = Sweeps(g, Pivots(g))
          /\ structure.gaps = Gaps(h) /\ structure'.gaps = Gaps(g)
          /\ structure.zones = Zones(h, Pivots(h)) /\ structure'.zones = Zones(g, Pivots(g))
          /\ structure'.rejected = Rejected(Pivots(g))
      BY <2>1 DEF EvaluateStructure
    <2> HIDE DEF latest
    <2>3. Adds
      <3> HIDE DEF h, g
      <3>1. /\ Pivots(h) \subseteq Pivots(g)
            /\ \A p \in Pivots(g) : p \notin Pivots(h) => p.confirmed = latest
        BY <2>1, PivotsGrow DEF h, g
      <3>2. /\ Breaks(h, Pivots(h)) \subseteq Breaks(g, Pivots(g))
            /\ \A e \in Breaks(g, Pivots(g)) : e \notin Breaks(h, Pivots(h)) => e.at = latest
            /\ Sweeps(h, Pivots(h)) \subseteq Sweeps(g, Pivots(g))
            /\ \A e \in Sweeps(g, Pivots(g)) : e \notin Sweeps(h, Pivots(h)) => e.at = latest
        BY <2>1, BreaksGrow DEF h, g
      <3>. QED BY <2>2, <3>1, <3>2
    <2>4. \A x \in Gaps(h) : \E y \in Gaps(g) :
            /\ y.gap = x.gap
            /\ Moves(x.filled, y.filled, latest) /\ Moves(x.partial, y.partial, latest)
            /\ x.filled # Never => y = x
      BY <2>1, GapsGrow
    <2>5. ~structure'.rejected =>
            \A z \in Zones(h, Pivots(h)) : \E y \in Zones(g, Pivots(g)) :
                /\ y.pivot = z.pivot
                /\ Moves(z.broken, y.broken, latest) /\ Moves(z.tested, y.tested, latest)
                /\ z.broken # Never => y = z
      <3> SUFFICES ASSUME ~Rejected(Pivots(g)), NEW z \in Zones(h, Pivots(h))
                   PROVE  \E y \in Zones(g, Pivots(g)) :
                            /\ y.pivot = z.pivot
                            /\ Moves(z.broken, y.broken, latest) /\ Moves(z.tested, y.tested, latest)
                            /\ z.broken # Never => y = z
        BY <2>2
      <3>1. PICK p \in Pivots(h) : z = Zone(h, p)
        BY DEF Zones
      <3>2. p \in Pivots(g) /\ p \in PivotType
        BY <2>1, PivotsGrow
      <3>3. Zone(g, p) \in Zones(g, Pivots(g))
        BY <3>2 DEF Zones
      <3>4. /\ Zone(g, p).pivot = z.pivot
            /\ Moves(z.broken, Zone(g, p).broken, latest) /\ Moves(z.tested, Zone(g, p).tested, latest)
            /\ z.broken # Never => Zone(g, p) = z
        BY <2>1, <3>1, <3>2, ZonesGrow
      <3>. QED BY <3>3, <3>4
    <2>6. \A x, y : Moves(x, y, latest) <=> Advances(x, y)
      BY DEF Moves, Advances, latest
    <2>7. Lives
      BY <2>2, <2>4, <2>5, <2>6
    <2>. QED BY <2>3, <2>7
  <1>2. [Adds /\ Lives]_structureVars => [Adds]_structureVars /\ [Lives]_structureVars
    OBVIOUS
  <1>3. StructureNoRepaint <=> [][Adds]_structureVars
    BY DEF StructureNoRepaint
  <1>4. LifeOnlyAdvances <=> [][Lives]_structureVars
    BY DEF LifeOnlyAdvances
  <1> HIDE DEF Adds, Lives
  <1>. QED BY <1>1, <1>2, <1>3, <1>4, StructureInvariant, PTL
            DEF StructureSpec, StructureOnlyAdvances

-----------------------------------------------------------------------------
(* A step that only looks at arguments of a smaller rank has a fixed point: *)
(* a recursive function that ends exists.                                   *)
Recursive(D, V, r, G) ==
    /\ G \in [[D -> V] -> [D -> V]]
    /\ \A f, g \in [D -> V] : \A i \in D :
        (\A j \in D : r[j] < r[i] => f[j] = g[j]) => G[f][i] = G[g][i]

LEMMA FixedPoint ==
    ASSUME NEW D, NEW V, NEW v \in V, NEW N \in Nat, NEW r \in [D -> 0 .. N], NEW G,
           Recursive(D, V, r, G)
    PROVE  \E f \in [D -> V] : f = G[f]
  <1> DEFINE P(k) == \E f \in [D -> V] : \A i \in D : r[i] < k => f[i] = G[f][i]
             S == {k \in Nat : P(k)}
  <1>0. /\ G \in [[D -> V] -> [D -> V]]
        /\ \A f, g \in [D -> V] : \A i \in D :
            (\A j \in D : r[j] < r[i] => f[j] = g[j]) => G[f][i] = G[g][i]
    BY DEF Recursive
  <1>1. P(0)
    <2>1. [i \in D |-> v] \in [D -> V] /\ \A i \in D : ~(r[i] < 0)
      OBVIOUS
    <2>. QED BY <2>1
  <1>2. ASSUME NEW k \in Nat, P(k) PROVE P(k + 1)
    <2>1. PICK f \in [D -> V] : \A i \in D : r[i] < k => f[i] = G[f][i]
      BY <1>2
    <2> DEFINE g == G[f]
    <2>2. g \in [D -> V]
      BY <1>0
    <2>3. \A i \in D : r[i] < k => g[i] = f[i]
      BY <2>1
    <2>4. ASSUME NEW i \in D, r[i] < k + 1 PROVE g[i] = G[g][i]
      <3>1. \A j \in D : r[j] < r[i] => f[j] = g[j]
        <4> SUFFICES ASSUME NEW j \in D, r[j] < r[i] PROVE f[j] = g[j]
          OBVIOUS
        <4>1. r[j] < k
          BY <2>4
        <4>. QED BY <2>3, <4>1
      <3>. QED BY <1>0, <2>2, <3>1
    <2>. QED BY <2>2, <2>4
  <1>3. Nat \subseteq S
    <2>1. 0 \in S /\ \A n \in Nat : n \in S => n + 1 \in S
      BY <1>1, <1>2
    <2> HIDE DEF S
    <2>. QED BY <2>1, NatSetInduction
  <1>4. P(N + 1)
    BY <1>3
  <1>5. PICK f \in [D -> V] : \A i \in D : r[i] < N + 1 => f[i] = G[f][i]
    BY <1>4
  <1>6. \A i \in D : r[i] < N + 1
    OBVIOUS
  <1>7. G[f] \in [D -> V] /\ \A i \in D : f[i] = G[f][i]
    BY <1>0, <1>5, <1>6
  <1>8. f = G[f]
    BY <1>7
  <1>. QED BY <1>8

(* What follows from smaller ranks follows for all.                         *)
LEMMA RankInduction ==
    ASSUME NEW D, NEW r \in [D -> Nat], NEW S,
           \A i \in D : (\A j \in D : r[j] < r[i] => j \in S) => i \in S
    PROVE  D \subseteq S
  <1> DEFINE T == {k \in Nat : \A i \in D : r[i] < k => i \in S}
  <1>1. 0 \in T
    OBVIOUS
  <1>2. ASSUME NEW k \in Nat, k \in T PROVE k + 1 \in T
    <2> SUFFICES ASSUME NEW i \in D, r[i] < k + 1 PROVE i \in S
      OBVIOUS
    <2>1. \A j \in D : r[j] < r[i] => j \in S
      BY <1>2
    <2>. QED BY <2>1
  <1>3. Nat \subseteq T
    <2> HIDE DEF T
    <2>. QED BY <1>1, <1>2, NatSetInduction
  <1>4. \A i \in D : r[i] + 1 \in T /\ r[i] < r[i] + 1
    BY <1>3
  <1>. QED BY <1>4

-----------------------------------------------------------------------------
TradeType == [signal : Nat, entry : Nat, exit : Nat, result : {"win", "loss", "timeout"}]

(* One step of the walk for trades, with the walks that go on behind it.    *)
WalkStep(history, setups, key, firstEntry, f, s) ==
    IF s >= Len(history) THEN <<>>
    ELSE IF setups[s][key] # "ACTIVE" \/ s + 1 < firstEntry THEN f[s + 1]
    ELSE IF history[s + 1].open <= 0 THEN f[s + 2]
    ELSE LET trade == Trade(history, s, key)
         IN <<trade>> \o f[Resume(trade)]

(* The hold of a trade ends at the first bar that reaches stop or target.   *)
LEMMA TradeIs ==
    ASSUME SeriesAssumption, NEW history \in Seq(ValidBars), NEW s \in 1 .. Len(history) - 1,
           NEW key \in Keys
    PROVE  LET t == Trade(history, s, key)
               entry == history[s + 1].open
           IN /\ t \in TradeType
              /\ t.signal = s /\ t.entry = s + 1 /\ t.exit \in s + 1 .. Len(history)
              /\ t.exit <= s + MaxHold
              /\ \A i \in s + 1 .. t.exit - 1 :
                    ~StopHit(history[i], entry, key) /\ ~TargetHit(history[i], entry, key)
              /\ StopHit(history[t.exit], entry, key) <=> t.result = "loss"
              /\ t.result = "timeout" => /\ t.exit = Least(s + MaxHold, Len(history))
                                         /\ ~TargetHit(history[t.exit], entry, key)
              /\ t.result = "win" => TargetHit(history[t.exit], entry, key)
  <1> DEFINE entry == history[s + 1].open
             last == Least(s + MaxHold, Len(history))
             Hit(i) == StopHit(history[i], entry, key) \/ TargetHit(history[i], entry, key)
             hits == {i \in s + 1 .. last : Hit(i)}
             exit == IF hits = {} THEN last ELSE CHOOSE i \in hits : \A j \in hits : i <= j
             t == [signal |-> s, entry |-> s + 1, exit |-> exit,
                   result |-> IF hits = {} THEN "timeout"
                              ELSE IF StopHit(history[exit], entry, key) THEN "loss" ELSE "win"]
  <1>1. Trade(history, s, key) = t
    BY DEF Trade
  <1>2. MaxHold \in Nat \ {0} /\ Len(history) \in Nat
    BY DEF SeriesAssumption
  <1>3. last \in s + 1 .. Len(history) /\ last <= s + MaxHold
    BY <1>2 DEF Least
  <1>4. /\ hits = {} => exit = last
        /\ hits # {} => exit \in hits /\ \A j \in hits : exit <= j
    <2>1. hits \subseteq Nat
      BY <1>2, <1>3
    <2> HIDE DEF hits
    <2>2. hits # {} => \E i \in hits : \A j \in hits : i <= j
      BY <2>1, LeastNatural
    <2>. QED BY <2>2
  <1>5. exit \in s + 1 .. last
    <2>1. hits \subseteq s + 1 .. last
      OBVIOUS
    <2>2. last \in s + 1 .. last
      BY <1>3
    <2> HIDE DEF hits, exit, last
    <2>. QED BY <1>4, <2>1, <2>2
  <1>6. \A i \in s + 1 .. last : Hit(i) <=> i \in hits
    OBVIOUS
  <1> HIDE DEF hits, exit, last, Hit
  <1>7. \A i \in s + 1 .. exit - 1 : ~Hit(i)
    <2> SUFFICES ASSUME NEW i \in s + 1 .. exit - 1, Hit(i) PROVE FALSE
      OBVIOUS
    <2>1. i \in s + 1 .. last /\ i < exit
      BY <1>3, <1>5
    <2>2. i \in hits
      BY <1>6, <2>1
    <2>3. exit <= i
      BY <1>4, <2>2
    <2>. QED BY <1>3, <1>5, <2>1, <2>3
  <1>8. hits = {} => ~Hit(exit)
    BY <1>5, <1>6
  <1>9. t \in TradeType
    <2>1. exit \in Nat
      BY <1>2, <1>3, <1>5
    <2>. QED BY <2>1 DEF TradeType
  <1>10. exit \in s + 1 .. Len(history) /\ exit <= s + MaxHold
    BY <1>2, <1>3, <1>5
  <1>11. t.result = "timeout" => exit = last
    BY <1>4
  <1>12. t.result = "timeout" => ~Hit(exit)
    BY <1>8
  <1>13. StopHit(history[exit], entry, key) <=> t.result = "loss"
    <2>1. CASE hits = {}
      BY <1>8, <2>1 DEF Hit
    <2>. QED BY <2>1
  <1>14. \A i \in s + 1 .. exit - 1 :
            ~StopHit(history[i], entry, key) /\ ~TargetHit(history[i], entry, key)
    BY <1>7 DEF Hit
  <1>15. t.result = "win" => TargetHit(history[exit], entry, key)
    <2>1. hits # {} => Hit(exit)
      BY <1>4, <1>5, <1>6
    <2>. QED BY <2>1 DEF Hit
  <1>. QED BY <1>1, <1>9, <1>10, <1>11, <1>12, <1>13, <1>14, <1>15 DEF Hit, last

(* The walk exists, and returns trades.                                     *)
Walk(history, setups, key, firstEntry, f) ==
    /\ f \in [1 .. Len(history) + 1 -> Seq(TradeType)]
    /\ \A s \in 1 .. Len(history) + 1 :
        f[s] = WalkStep(history, setups, key, firstEntry, f, s)

LEMMA Walks ==
    ASSUME SeriesAssumption, NEW history \in Seq(ValidBars), NEW setups, NEW key \in Keys, NEW firstEntry
    PROVE  \E f : /\ Walk(history, setups, key, firstEntry, f)
                  /\ Trades(history, setups, key, firstEntry) = f[Most(1, firstEntry - 1)]
  <1> DEFINE N == Len(history)
             D == 1 .. N + 1
             V == Seq(TradeType)
             step(f, s) == WalkStep(history, setups, key, firstEntry, f, s)
             G == [f \in [D -> V] |-> [s \in D |-> step(f, s)]]
             r == [s \in D |-> N + 1 - s]
  <1>0. N \in Nat /\ <<>> \in V
    OBVIOUS
  <1>1. \A s \in D : s >= N \/ (s + 1 \in D /\ s + 2 \in D /\ s \in 1 .. N - 1)
    BY <1>0
  <1>2. ASSUME NEW s \in 1 .. N - 1
        PROVE  /\ Trade(history, s, key) \in TradeType
               /\ Resume(Trade(history, s, key)) \in D
               /\ Resume(Trade(history, s, key)) > s
    <2>1. /\ Trade(history, s, key) \in TradeType
          /\ Trade(history, s, key).exit \in s + 1 .. N
      BY TradeIs
    <2>. QED BY <1>0, <2>1 DEF Resume
  <1>3. ASSUME NEW f \in [D -> V], NEW s \in D PROVE step(f, s) \in V
    <2>1. CASE s >= N
      BY <2>1 DEF WalkStep
    <2>2. CASE ~(s >= N)
      <3>1. s + 1 \in D /\ s + 2 \in D /\ s \in 1 .. N - 1
        BY <1>1, <2>2
      <3>2. /\ Trade(history, s, key) \in TradeType
            /\ Resume(Trade(history, s, key)) \in D
        BY <1>2, <3>1
      <3>3. f[s + 1] \in V /\ f[s + 2] \in V /\ f[Resume(Trade(history, s, key))] \in V
        BY <3>1, <3>2
      <3>4. <<Trade(history, s, key)>> \o f[Resume(Trade(history, s, key))] \in V
        BY <3>2, <3>3
      <3>. QED BY <2>2, <3>3, <3>4 DEF WalkStep
    <2>. QED BY <2>1, <2>2
  <1>4. ASSUME NEW f, NEW g, NEW s \in D,
               \A j \in D : r[j] < r[s] => f[j] = g[j]
        PROVE  step(f, s) = step(g, s)
    <2>0. \A j \in D : j > s => f[j] = g[j]
      <3> SUFFICES ASSUME NEW j \in D, j > s PROVE f[j] = g[j]
        OBVIOUS
      <3>1. r[j] < r[s]
        BY <1>0
      <3>. QED BY <1>4, <3>1
    <2>1. CASE s >= N
      BY <2>1 DEF WalkStep
    <2>2. CASE ~(s >= N)
      <3>1. s + 1 \in D /\ s + 2 \in D /\ s \in 1 .. N - 1
        BY <1>1, <2>2
      <3>2. /\ Resume(Trade(history, s, key)) \in D
            /\ Resume(Trade(history, s, key)) > s
        BY <1>2, <3>1
      <3>3. /\ f[s + 1] = g[s + 1] /\ f[s + 2] = g[s + 2]
            /\ f[Resume(Trade(history, s, key))] = g[Resume(Trade(history, s, key))]
        BY <2>0, <3>1, <3>2
      <3>. QED BY <2>2, <3>3 DEF WalkStep
    <2>. QED BY <2>1, <2>2
  <1>5. r \in [D -> 0 .. N]
    BY <1>0
  <1>6. Recursive(D, V, r, G)
    <2>1. G \in [[D -> V] -> [D -> V]]
      BY <1>3
    <2>2. \A f, g \in [D -> V] : \A s \in D :
            (\A j \in D : r[j] < r[s] => f[j] = g[j]) => G[f][s] = G[g][s]
      <3> SUFFICES ASSUME NEW f \in [D -> V], NEW g \in [D -> V], NEW s \in D,
                          \A j \in D : r[j] < r[s] => f[j] = g[j]
                   PROVE  step(f, s) = step(g, s)
        OBVIOUS
      <3> HIDE DEF step, r
      <3>. QED BY <1>4
    <2> HIDE DEF G, D, V, r
    <2>. QED BY <2>1, <2>2 DEF Recursive
  <1>7. \E f \in [D -> V] : f = G[f]
    <2> HIDE DEF G, D, V, r
    <2>. QED BY <1>0, <1>5, <1>6, FixedPoint
  <1>8. \E f : f = [s \in D |-> step(f, s)]
    BY <1>7
  <1> DEFINE w == CHOOSE f : f = [s \in D |-> step(f, s)]
  <1>9. w = [s \in D |-> step(w, s)]
    <2> HIDE DEF step, D
    <2>. QED BY <1>8
  <1>10. w \in [D -> V]
    <2>1. PICK f \in [D -> V] : f = [s \in D |-> step(f, s)]
      BY <1>7
    <2> DEFINE S == {s \in D : w[s] = f[s]}
    <2>2. ASSUME NEW s \in D, \A j \in D : r[j] < r[s] => j \in S PROVE s \in S
      <3>1. \A j \in D : r[j] < r[s] => w[j] = f[j]
        BY <2>2
      <3> HIDE DEF step, D, r, w
      <3>2. step(w, s) = step(f, s)
        BY <1>4, <3>1
      <3>. QED BY <1>9, <2>1, <3>2
    <2>3. D \subseteq S
      <3>1. r \in [D -> Nat]
        BY <1>0
      <3> HIDE DEF S, D, r
      <3>. QED BY <2>2, <3>1, RankInduction
    <2> HIDE DEF step, D, V, w
    <2>4. \A s \in D : w[s] \in V
      BY <2>3
    <2>5. w = [s \in D |-> w[s]]
      BY <1>9
    <2>. QED BY <2>4, <2>5
  <1>11. Trades(history, setups, key, firstEntry) = w[Most(1, firstEntry - 1)]
    BY DEF Trades, WalkStep
  <1> HIDE DEF w
  <1>12. Walk(history, setups, key, firstEntry, w)
    BY <1>9, <1>10 DEF Walk
  <1>. QED BY <1>11, <1>12

-----------------------------------------------------------------------------
SeriesInv ==
    /\ SeriesAssumption /\ ResearchAssumption
    /\ bars \in Seq(ValidBars) /\ Len(bars) <= MaxBars
    /\ research = Analyze(bars)

LEMMA SeriesNextInv ==
    ASSUME SeriesInv, [SeriesNext]_seriesVars
    PROVE  SeriesInv'
  <1>1. CASE UNCHANGED seriesVars
    BY <1>1 DEF SeriesInv, seriesVars, SeriesAssumption, ResearchAssumption
  <1>2. ASSUME NEW b \in Bars, AddBar(b) PROVE SeriesInv'
    <2>1. SeriesAssumption' /\ ResearchAssumption'
      BY DEF SeriesInv, SeriesAssumption, ResearchAssumption
    <2>2. bars' \in Seq(ValidBars) /\ Len(bars') <= MaxBars
      BY <1>2 DEF AddBar, SeriesInv, SeriesAssumption
    <2>. QED BY <1>2, <2>1, <2>2 DEF AddBar, SeriesInv
  <1>. QED BY <1>1, <1>2 DEF SeriesNext

(* For any bars: the research is the one of its series.                     *)
THEOREM SeriesInvariant == SeriesAssumption /\ ResearchAssumption /\ SeriesSpec => []SeriesInv
  <1>1. SeriesAssumption /\ ResearchAssumption /\ SeriesInit => SeriesInv
    BY DEF SeriesInit, SeriesInv, SeriesAssumption, ResearchAssumption
  <1>. QED BY <1>1, SeriesNextInv, PTL DEF SeriesSpec

-----------------------------------------------------------------------------
(* What a trade of a backtest may be, as one part of TradesAreCausal each.  *)
TradeIsCausal(history, setups, key, firstEntry, t) ==
    /\ setups[t.signal][key] = "ACTIVE"
    /\ firstEntry <= t.entry /\ t.signal < t.entry /\ t.entry <= t.exit
    /\ t.exit < t.entry + MaxHold
    /\ \A i \in t.entry .. t.exit - 1 :
        /\ ~StopHit(history[i], history[t.entry].open, key)
        /\ ~TargetHit(history[i], history[t.entry].open, key)
    /\ StopHit(history[t.exit], history[t.entry].open, key) <=> t.result = "loss"

WalkIsCausal(history, setups, key, firstEntry, trades, s) ==
    \A n \in 1 .. Len(trades) :
        /\ TradeIsCausal(history, setups, key, firstEntry, trades[n])
        /\ trades[n].signal >= s
        /\ n < Len(trades) => trades[n].exit < trades[n + 1].signal

(* A trade before trades that are later than its exit.                      *)
LEMMA TradeBefore ==
    ASSUME NEW history, NEW setups, NEW key, NEW firstEntry, NEW s \in Nat,
           NEW t \in TradeType, t.signal = s, t.exit > s,
           TradeIsCausal(history, setups, key, firstEntry, t),
           NEW rest \in Seq(TradeType),
           WalkIsCausal(history, setups, key, firstEntry, rest, t.exit + 1)
    PROVE  WalkIsCausal(history, setups, key, firstEntry, <<t>> \o rest, s)
  <1> DEFINE all == <<t>> \o rest
  <1>1. /\ Len(all) = Len(rest) + 1 /\ all[1] = t /\ Len(rest) \in Nat
        /\ \A n \in 1 .. Len(rest) : all[n + 1] = rest[n]
    OBVIOUS
  <1>2. t.exit \in Nat /\ \A n \in 1 .. Len(rest) : rest[n].signal \in Nat
    <2>1. \A n \in 1 .. Len(rest) : rest[n] \in TradeType
      OBVIOUS
    <2>. QED BY <2>1 DEF TradeType
  <1> HIDE DEF all
  <1> SUFFICES ASSUME NEW n \in 1 .. Len(all)
               PROVE  /\ TradeIsCausal(history, setups, key, firstEntry, all[n])
                      /\ all[n].signal >= s
                      /\ n < Len(all) => all[n].exit < all[n + 1].signal
    BY DEF WalkIsCausal, all
  <1>3. \A m \in 1 .. Len(rest) :
            /\ TradeIsCausal(history, setups, key, firstEntry, rest[m])
            /\ rest[m].signal >= t.exit + 1
            /\ m < Len(rest) => rest[m].exit < rest[m + 1].signal
    BY DEF WalkIsCausal
  <1>4. CASE n = 1
    <2>1. n < Len(all) => all[2] = rest[1] /\ 1 \in 1 .. Len(rest)
      BY <1>1, <1>4
    <2>2. n < Len(all) => all[n].exit < all[n + 1].signal
      BY <1>1, <1>2, <1>3, <1>4, <2>1
    <2>. QED BY <1>1, <1>4, <2>2
  <1>5. CASE n # 1
    <2>1. n - 1 \in 1 .. Len(rest) /\ (n - 1) + 1 = n
      BY <1>1, <1>5
    <2>2. all[n] = rest[n - 1]
      BY <1>1, <2>1
    <2>3. n < Len(all) => n \in 1 .. Len(rest) /\ all[n + 1] = rest[n]
      BY <1>1, <1>5
    <2>4. /\ TradeIsCausal(history, setups, key, firstEntry, rest[n - 1])
          /\ rest[n - 1].signal >= t.exit + 1
          /\ n - 1 < Len(rest) => rest[n - 1].exit < rest[(n - 1) + 1].signal
      BY <1>3, <2>1
    <2>5. n < Len(all) => all[n].exit < all[n + 1].signal
      BY <1>1, <2>1, <2>2, <2>3, <2>4
    <2>6. rest[n - 1].signal \in Nat /\ rest[n - 1].signal >= s
      BY <1>2, <2>1, <2>4
    <2>. QED BY <2>2, <2>4, <2>5, <2>6
  <1>. QED BY <1>4, <1>5

(* Every walk is causal from where it starts.                               *)
LEMMA WalksAreCausal ==
    ASSUME SeriesAssumption, NEW history \in Seq(ValidBars), NEW setups, NEW key \in Keys,
           NEW firstEntry \in Nat, NEW f, Walk(history, setups, key, firstEntry, f)
    PROVE  \A s \in 1 .. Len(history) + 1 :
                WalkIsCausal(history, setups, key, firstEntry, f[s], s)
  <1> DEFINE N == Len(history)
             D == 1 .. N + 1
             r == [s \in D |-> N + 1 - s]
             Causal(s) == WalkIsCausal(history, setups, key, firstEntry, f[s], s)
             S == {s \in D : Causal(s)}
  <1>0. /\ N \in Nat /\ f \in [D -> Seq(TradeType)]
        /\ \A s \in D : f[s] = WalkStep(history, setups, key, firstEntry, f, s)
    BY DEF Walk
  <1>1. ASSUME NEW s \in D, \A j \in D : j > s => Causal(j) PROVE Causal(s)
    <2>0. f[s] = WalkStep(history, setups, key, firstEntry, f, s)
      BY <1>0
    <2>1. CASE s >= N
      <3>1. f[s] = <<>>
        BY <2>0, <2>1 DEF WalkStep
      <3>. QED BY <3>1 DEF WalkIsCausal
    <2>2. CASE ~(s >= N)
      <3>0. s + 1 \in D /\ s + 2 \in D /\ s \in 1 .. N - 1 /\ s \in Nat
        BY <1>0, <2>2
      <3> DEFINE Later(j) == f[s] = f[j] /\ j \in D /\ j > s
      <3>1. ASSUME NEW j, Later(j) PROVE Causal(s)
        <4>1. Causal(j) /\ f[s] = f[j] /\ j > s
          BY <1>1, <3>1
        <4>2. \A n \in 1 .. Len(f[j]) : f[j][n].signal \in Nat
          <5>1. f[j] \in Seq(TradeType)
            BY <1>0, <3>1
          <5>2. \A n \in 1 .. Len(f[j]) : f[j][n] \in TradeType
            BY <5>1
          <5>. QED BY <5>2 DEF TradeType
        <4>. QED BY <3>1, <4>1, <4>2 DEF WalkIsCausal
      <3>2. CASE setups[s][key] # "ACTIVE" \/ s + 1 < firstEntry
        <4>1. Later(s + 1)
          BY <2>0, <2>2, <3>0, <3>2 DEF WalkStep
        <4>. QED BY <3>1, <4>1
      <3>3. CASE ~(setups[s][key] # "ACTIVE" \/ s + 1 < firstEntry) /\ history[s + 1].open <= 0
        <4>1. Later(s + 2)
          BY <2>0, <2>2, <3>0, <3>3 DEF WalkStep
        <4>. QED BY <3>1, <4>1
      <3>4. CASE ~(setups[s][key] # "ACTIVE" \/ s + 1 < firstEntry) /\ ~(history[s + 1].open <= 0)
        <4> DEFINE t == Trade(history, s, key)
        <4>1. /\ t \in TradeType
              /\ t.signal = s /\ t.entry = s + 1 /\ t.exit \in s + 1 .. N
              /\ t.exit <= s + MaxHold
              /\ \A i \in s + 1 .. t.exit - 1 :
                    /\ ~StopHit(history[i], history[s + 1].open, key)
                    /\ ~TargetHit(history[i], history[s + 1].open, key)
              /\ StopHit(history[t.exit], history[s + 1].open, key) <=> t.result = "loss"
          BY <3>0, TradeIs
        <4> HIDE DEF t
        <4>2. TradeIsCausal(history, setups, key, firstEntry, t)
          <5>1. MaxHold \in Nat
            BY DEF SeriesAssumption
          <5>2. t.exit < t.entry + MaxHold /\ t.entry <= t.exit /\ firstEntry <= t.entry
            BY <3>0, <3>4, <4>1, <5>1
          <5>3. setups[t.signal][key] = "ACTIVE"
            BY <3>4, <4>1
          <5>. QED BY <3>0, <4>1, <5>2, <5>3 DEF TradeIsCausal
        <4>3. /\ Resume(t) \in D /\ Resume(t) > s /\ Resume(t) = t.exit + 1 /\ t.exit > s
          BY <1>0, <3>0, <4>1 DEF Resume
        <4>4. f[Resume(t)] \in Seq(TradeType) /\ Causal(Resume(t))
          BY <1>0, <1>1, <4>3
        <4>5. f[s] = <<t>> \o f[Resume(t)]
          BY <2>0, <2>2, <3>4 DEF WalkStep, t
        <4>6. WalkIsCausal(history, setups, key, firstEntry, <<t>> \o f[Resume(t)], s)
          BY <3>0, <4>1, <4>2, <4>3, <4>4, TradeBefore
        <4>. QED BY <4>5, <4>6
      <3>. QED BY <3>2, <3>3, <3>4
    <2>. QED BY <2>1, <2>2
  <1>2. r \in [D -> Nat]
    BY <1>0
  <1>3. ASSUME NEW s \in D, \A j \in D : r[j] < r[s] => j \in S PROVE s \in S
    <2>1. \A j \in D : j > s => r[j] < r[s]
      BY <1>0
    <2>2. \A j \in D : j > s => Causal(j)
      BY <1>3, <2>1
    <2> HIDE DEF Causal
    <2>. QED BY <1>1, <2>2
  <1>4. D \subseteq S
    <2> HIDE DEF S, D, r
    <2>. QED BY <1>2, <1>3, RankInduction
  <1>. QED BY <1>4

(* The held-out part begins inside of the series.                           *)
LEMMA SplitIs ==
    ASSUME NEW history, Len(history) \in Nat
    PROVE  Split(history) \in 1 .. Len(history) + 1
  <1>1. \A n \in Nat : (n * 7) \div 10 \in 0 .. n
    OBVIOUS
  <1>. QED BY <1>1 DEF Split

(* Trades follow the setups that were active, never overlap, and end where  *)
(* stop, target or hold end them (evaluation/backtest.py).                  *)
THEOREM CausalTrades ==
    SeriesAssumption /\ ResearchAssumption /\ SeriesSpec => []TradesAreCausal
  <1> DEFINE Said(key, first) ==
                 (IF first = 1 THEN research.trades ELSE research.heldOut)[key]
             Causal(key, first) ==
                 \A n \in DOMAIN Said(key, first) :
                     /\ TradeIsCausal(bars, research.setups, key, first, Said(key, first)[n])
                     /\ n < Len(Said(key, first)) =>
                            Said(key, first)[n].exit < Said(key, first)[n + 1].signal
             Asked(key, first) ==
                 LET trades == Said(key, first) IN
                 \A n \in DOMAIN trades :
                     LET t == trades[n]
                         entry == bars[t.entry].open
                     IN
                     /\ research.setups[t.signal][key] = "ACTIVE"
                     /\ first <= t.entry /\ t.signal < t.entry /\ t.entry <= t.exit
                     /\ t.exit < t.entry + MaxHold
                     /\ n < Len(trades) => t.exit < trades[n + 1].signal
                     /\ \A i \in t.entry .. t.exit - 1 :
                         ~StopHit(bars[i], entry, key) /\ ~TargetHit(bars[i], entry, key)
                     /\ StopHit(bars[t.exit], entry, key) <=> t.result = "loss"
  <1>0. (\A key \in Keys : \A first \in {1, Split(bars)} : Asked(key, first)) => TradesAreCausal
    BY ONLY DEF TradesAreCausal
  <1>1. ASSUME NEW key, NEW first, Causal(key, first) PROVE Asked(key, first)
    <2> DEFINE trades == Said(key, first)
    <2>1. \A n \in DOMAIN trades :
              /\ TradeIsCausal(bars, research.setups, key, first, trades[n])
              /\ n < Len(trades) => trades[n].exit < trades[n + 1].signal
      BY <1>1
    <2> HIDE DEF Said
    <2>2. ASSUME NEW n \in DOMAIN trades
          PROVE  LET t == trades[n]
                     entry == bars[t.entry].open
                 IN
                 /\ research.setups[t.signal][key] = "ACTIVE"
                 /\ first <= t.entry /\ t.signal < t.entry /\ t.entry <= t.exit
                 /\ t.exit < t.entry + MaxHold
                 /\ n < Len(trades) => t.exit < trades[n + 1].signal
                 /\ \A i \in t.entry .. t.exit - 1 :
                     ~StopHit(bars[i], entry, key) /\ ~TargetHit(bars[i], entry, key)
                 /\ StopHit(bars[t.exit], entry, key) <=> t.result = "loss"
      BY <2>1 DEF TradeIsCausal
    <2>. QED BY <2>2
  <1>2. ASSUME SeriesInv, NEW key \in Keys, NEW first \in {1, Split(bars)} PROVE Causal(key, first)
    <2> DEFINE trades == (IF first = 1 THEN research.trades ELSE research.heldOut)[key]
    <2>0. SeriesAssumption /\ bars \in Seq(ValidBars) /\ research = Analyze(bars) /\ Len(bars) \in Nat
      BY <1>2 DEF SeriesInv
    <2>1. trades = Trades(bars, research.setups, key, first)
      BY <2>0 DEF Analyze
    <2>2. first \in Nat /\ Most(1, first - 1) \in 1 .. Len(bars) + 1
      BY <2>0, SplitIs DEF Most
    <2> HIDE DEF trades
    <2>3. PICK f : /\ Walk(bars, research.setups, key, first, f)
                   /\ Trades(bars, research.setups, key, first) = f[Most(1, first - 1)]
      BY <2>0, Walks
    <2>4. WalkIsCausal(bars, research.setups, key, first, trades, Most(1, first - 1))
      BY <2>0, <2>1, <2>2, <2>3, WalksAreCausal
    <2>5. trades \in Seq(TradeType)
      BY <2>1, <2>2, <2>3 DEF Walk
    <2>6. DOMAIN trades = 1 .. Len(trades)
      BY <2>5
    <2>7. \A n \in DOMAIN trades :
                          /\ TradeIsCausal(bars, research.setups, key, first, trades[n])
                          /\ n < Len(trades) => trades[n].exit < trades[n + 1].signal
      BY <2>4, <2>6 DEF WalkIsCausal
    <2>. QED BY <2>7 DEF trades
  <1> HIDE DEF Causal, Asked
  <1>3. SeriesInv => TradesAreCausal
    BY <1>0, <1>1, <1>2
  <1>. QED BY <1>3, SeriesInvariant, PTL

-----------------------------------------------------------------------------
(* A recursion over an interval has one solution.                           *)
Recurs(lo, hi, V, v0, T) ==
    /\ lo \in Int /\ hi \in Int /\ lo <= hi /\ v0 \in V
    /\ \A i \in lo .. hi : i > lo => T[i] \in [V -> V]
Follows(lo, hi, v0, T, f, w) ==
    /\ w[lo] = v0
    /\ \A i \in lo .. hi : i > lo /\ w[i - 1] = f[i - 1] => w[i] = T[i][f[i - 1]]
Solution(lo, hi, V, v0, T, f) ==
    /\ f \in [lo .. hi -> V]
    /\ f[lo] = v0
    /\ \A i \in lo .. hi : i > lo => i - 1 \in lo .. hi /\ f[i] = T[i][f[i - 1]]
    /\ \A w : Follows(lo, hi, v0, T, f, w) => \A i \in lo .. hi : w[i] = f[i]

LEMMA Recursion ==
    ASSUME NEW lo, NEW hi, NEW V, NEW v0, NEW T, Recurs(lo, hi, V, v0, T)
    PROVE  \E f : Solution(lo, hi, V, v0, T, f)
  <1> DEFINE D == lo .. hi
             step(f, i) == IF i = lo THEN v0 ELSE T[i][f[i - 1]]
             G == [f \in [D -> V] |-> [i \in D |-> step(f, i)]]
             r == [i \in D |-> i - lo]
  <1>0. /\ lo \in Int /\ hi \in Int /\ lo <= hi /\ v0 \in V
        /\ \A i \in D : i > lo => T[i] \in [V -> V]
    BY DEF Recurs
  <1>1. \A i \in D : i = lo \/ (i - 1 \in D /\ i > lo)
    BY <1>0
  <1>2. ASSUME NEW f \in [D -> V], NEW i \in D PROVE step(f, i) \in V
    BY <1>0, <1>1
  <1>3. ASSUME NEW f, NEW g, NEW i \in D, \A j \in D : r[j] < r[i] => f[j] = g[j]
        PROVE  step(f, i) = step(g, i)
    <2>1. i = lo \/ (i - 1 \in D /\ r[i - 1] < r[i])
      BY <1>0, <1>1
    <2>. QED BY <1>3, <2>1
  <1>4. PICK N \in Nat : N = hi - lo
    BY <1>0
  <1>5. r \in [D -> 0 .. N]
    BY <1>0, <1>4
  <1>6. Recursive(D, V, r, G)
    <2>1. G \in [[D -> V] -> [D -> V]]
      BY <1>2
    <2>2. \A f, g \in [D -> V] : \A i \in D :
            (\A j \in D : r[j] < r[i] => f[j] = g[j]) => G[f][i] = G[g][i]
      <3> SUFFICES ASSUME NEW f \in [D -> V], NEW g \in [D -> V], NEW i \in D,
                          \A j \in D : r[j] < r[i] => f[j] = g[j]
                   PROVE  step(f, i) = step(g, i)
        OBVIOUS
      <3> HIDE DEF step, r, D
      <3>. QED BY <1>3
    <2> HIDE DEF G, D, r
    <2>. QED BY <2>1, <2>2 DEF Recursive
  <1>7. PICK f \in [D -> V] : f = G[f]
    <2> HIDE DEF G, D, r
    <2>1. v0 \in V
      BY <1>0
    <2>2. N \in Nat
      BY <1>4
    <2>. QED BY ONLY <1>5, <1>6, <2>1, <2>2, FixedPoint
  <1>8. f = [i \in D |-> step(f, i)]
    BY <1>7
  <1>9. ASSUME NEW w, Follows(lo, hi, v0, T, f, w) PROVE \A i \in D : w[i] = f[i]
    <2> DEFINE S == {i \in D : w[i] = f[i]}
    <2>1. lo \in S
      BY <1>0, <1>8, <1>9 DEF Follows
    <2>2. ASSUME NEW i \in D, i > lo, i - 1 \in S PROVE i \in S
      <3>1. i \in D /\ i # lo /\ i - 1 \in D
        BY <1>0, <2>2
      <3>2. w[i - 1] = f[i - 1] /\ f[i - 1] \in V
        BY <2>2
      <3>3. w[i] = T[i][f[i - 1]]
        BY <1>9, <2>2, <3>2 DEF Follows
      <3>4. f[i] = T[i][f[i - 1]]
        BY <1>8, <3>1
      <3>. QED BY <3>1, <3>2, <3>3, <3>4
    <2>3. D \subseteq S
      <3> HIDE DEF S
      <3>1. Inductive(lo, hi, S)
        BY <1>0, <2>1, <2>2 DEF Inductive
      <3>. QED BY <3>1, IntervalInduction
    <2>. QED BY <2>3
  <1>10. \A i \in D : i > lo => i # lo /\ i - 1 \in D
    BY <1>0
  <1>11. f[lo] = v0 /\ \A i \in D : i > lo => f[i] = T[i][f[i - 1]]
    BY <1>0, <1>8, <1>10
  <1>. QED BY <1>9, <1>10, <1>11 DEF Solution

-----------------------------------------------------------------------------
(* A series is the beginning of another.                                    *)
Begins(s, t) == Len(s) <= Len(t) /\ \A i \in 1 .. Len(s) : t[i] = s[i]

(* A sum over an interval of indexes.                                       *)
SumFrom(values, first, last, sum) ==
    /\ sum \in [first - 1 .. last -> Int]
    /\ sum[first - 1] = 0
    /\ \A i \in first .. last : sum[i] = sum[i - 1] + values[i]

LEMMA SumExists ==
    ASSUME NEW values, NEW first \in Int, NEW last \in Int, first - 1 <= last,
           \A i \in first .. last : values[i] \in Int
    PROVE  \E sum : SumFrom(values, first, last, sum) /\ SumOf(values, first, last) = sum[last]
  <1> DEFINE D == first - 1 .. last
             step(f, i) == IF i < first THEN 0 ELSE f[i - 1] + values[i]
             T == [i \in D |-> [x \in Int |-> x + values[i]]]
             w == CHOOSE f : f = [i \in D |-> step(f, i)]
  <1>0. \A i \in D : i > first - 1 => i \in first .. last /\ i - 1 \in D /\ values[i] \in Int
    OBVIOUS
  <1>1. Recurs(first - 1, last, Int, 0, T)
    BY <1>0 DEF Recurs
  <1>2. PICK f : Solution(first - 1, last, Int, 0, T, f)
    <2> HIDE DEF T
    <2>. QED BY <1>1, Recursion
  <1>3. /\ f \in [D -> Int] /\ f[first - 1] = 0
        /\ \A i \in first .. last : f[i] = f[i - 1] + values[i]
        /\ \A g : Follows(first - 1, last, 0, T, f, g) => \A i \in D : g[i] = f[i]
    <2>1. /\ f \in [D -> Int] /\ f[first - 1] = 0
          /\ \A i \in D : i > first - 1 => i - 1 \in D /\ f[i] = T[i][f[i - 1]]
          /\ \A g : Follows(first - 1, last, 0, T, f, g) => \A i \in D : g[i] = f[i]
      <3> HIDE DEF T
      <3>. QED BY <1>2 DEF Solution
    <2>2. ASSUME NEW i \in first .. last PROVE i \in D /\ T[i][f[i - 1]] = f[i - 1] + values[i]
      BY <2>1
    <2>3. \A i \in first .. last : i > first - 1
      OBVIOUS
    <2> HIDE DEF T, D
    <2>. QED BY <2>1, <2>2, <2>3
  <1>4. w = [i \in D |-> step(w, i)]
    <2>1. \A i \in D : f[i] = step(f, i)
      <3>1. \A i \in D : i = first - 1 \/ i \in first .. last
        OBVIOUS
      <3>. QED BY <1>3, <3>1
    <2>2. f = [i \in D |-> f[i]]
      BY <1>3
    <2> HIDE DEF step, D
    <2>3. f = [i \in D |-> step(f, i)]
      BY <2>1, <2>2
    <2>. QED BY <2>3
  <1>5. Follows(first - 1, last, 0, T, f, w)
    <2>1. \A i \in first .. last : i \in D /\ ~(i < first) /\ i - 1 \in D
      OBVIOUS
    <2>2. \A i \in D : w[i] = step(w, i)
      <3> HIDE DEF w, step, D
      <3>. QED BY <1>4
    <2>3. w[first - 1] = 0
      BY <2>2
    <2>4. ASSUME NEW i \in first .. last, w[i - 1] = f[i - 1] PROVE w[i] = T[i][f[i - 1]]
      <3>1. w[i] = w[i - 1] + values[i]
        <4> HIDE DEF w, D
        <4>. QED BY <2>1, <2>2
      <3>2. f[i - 1] \in Int
        BY <1>3, <2>1
      <3>3. T[i][f[i - 1]] = f[i - 1] + values[i]
        BY <2>1, <3>2
      <3> HIDE DEF w, D, T
      <3>. QED BY <2>4, <3>1, <3>3
    <2>5. \A i \in D : i > first - 1 => i \in first .. last
      BY <1>0
    <2> HIDE DEF w, T
    <2>. QED BY <2>3, <2>4, <2>5 DEF Follows
  <1>6. SumOf(values, first, last) = w[last]
    BY DEF SumOf
  <1>7. w[last] = f[last]
    <2> HIDE DEF w, T
    <2>. QED BY <1>3, <1>5
  <1>8. SumFrom(values, first, last, f)
    BY <1>3 DEF SumFrom
  <1>. QED BY <1>6, <1>7, <1>8

(* Sums of the same values are the same.                                    *)
LEMMA SumOfSame ==
    ASSUME NEW s, NEW t, NEW first \in Int, NEW last \in Int, first - 1 <= last,
           \A i \in first .. last : s[i] \in Int /\ t[i] = s[i]
    PROVE  SumOf(s, first, last) = SumOf(t, first, last)
  <1>1. PICK f : SumFrom(s, first, last, f) /\ SumOf(s, first, last) = f[last]
    BY SumExists
  <1>2. PICK g : SumFrom(t, first, last, g) /\ SumOf(t, first, last) = g[last]
    BY SumExists
  <1> DEFINE S == {i \in first - 1 .. last : f[i] = g[i]}
  <1>3. first - 1 \in S
    BY <1>1, <1>2 DEF SumFrom
  <1>4. ASSUME NEW i \in first .. last, i - 1 \in S PROVE i \in S
    BY <1>1, <1>2, <1>4 DEF SumFrom
  <1>5. first - 1 .. last \subseteq S
    <2>1. \A i \in first - 1 .. last : i > first - 1 => i \in first .. last
      OBVIOUS
    <2> HIDE DEF S
    <2>2. Inductive(first - 1, last, S)
      BY <1>3, <1>4, <2>1 DEF Inductive
    <2>. QED BY <2>2, IntervalInduction
  <1>. QED BY <1>1, <1>2, <1>5

(* A sum grows by its last value, and shrinks by its first.                 *)
LEMMA SumMoves ==
    ASSUME NEW values, NEW first \in Int, NEW last \in Int, first <= last,
           \A i \in first .. last : values[i] \in Int
    PROVE  /\ SumOf(values, first, last) \in Int
           /\ SumOf(values, first, first - 1) = 0
           /\ SumOf(values, first, last) = SumOf(values, first, last - 1) + values[last]
           /\ SumOf(values, first + 1, last) = SumOf(values, first, last) - values[first]
  <1>1. PICK f : SumFrom(values, first, last, f) /\ SumOf(values, first, last) = f[last]
    BY SumExists
  <1>2. PICK g : SumFrom(values, first, last - 1, g) /\ SumOf(values, first, last - 1) = g[last - 1]
    BY SumExists
  <1>3. PICK h : SumFrom(values, first + 1, last, h) /\ SumOf(values, first + 1, last) = h[last]
    <2>1. \A i \in first + 1 .. last : values[i] \in Int
      OBVIOUS
    <2>2. first + 1 \in Int /\ (first + 1) - 1 <= last
      OBVIOUS
    <2>. QED BY <2>1, <2>2, SumExists
  <1>4. PICK z : SumFrom(values, first, first - 1, z) /\ SumOf(values, first, first - 1) = z[first - 1]
    <2>1. \A i \in first .. first - 1 : values[i] \in Int
      OBVIOUS
    <2>. QED BY <2>1, SumExists
  <1>5. first - 1 .. last - 1 \subseteq {i \in first - 1 .. last - 1 : f[i] = g[i]}
    <2> DEFINE S == {i \in first - 1 .. last - 1 : f[i] = g[i]}
    <2>1. first - 1 \in S
      BY <1>1, <1>2 DEF SumFrom
    <2>2. ASSUME NEW i \in first .. last - 1, i - 1 \in S PROVE i \in S
      BY <1>1, <1>2, <2>2 DEF SumFrom
    <2>4. \A i \in first - 1 .. last - 1 : i > first - 1 => i \in first .. last - 1
      OBVIOUS
    <2> HIDE DEF S
    <2>5. Inductive(first - 1, last - 1, S)
      BY <2>1, <2>2, <2>4 DEF Inductive
    <2>3. first - 1 .. last - 1 \subseteq S
      BY <2>5, IntervalInduction
    <2>. QED BY <2>3 DEF S
  <1>6. first .. last \subseteq {i \in first .. last : h[i] = f[i] - values[first]}
    <2> DEFINE S == {i \in first .. last : h[i] = f[i] - values[first]}
    <2>1. first \in S
      BY <1>1, <1>3 DEF SumFrom
    <2>2. ASSUME NEW i \in first + 1 .. last, i - 1 \in S PROVE i \in S
      <3>1. i \in first .. last /\ i - 1 \in first - 1 .. last /\ first \in first .. last
        OBVIOUS
      <3>2. h[i] = h[i - 1] + values[i] /\ f[i] = f[i - 1] + values[i]
        BY <1>1, <1>3, <3>1 DEF SumFrom
      <3>3. h[i - 1] = f[i - 1] - values[first] /\ f[i - 1] \in Int
        BY <1>1, <2>2, <3>1 DEF SumFrom
      <3>. QED BY <3>1, <3>2, <3>3
    <2>4. \A i \in first .. last : i > first => i \in first + 1 .. last
      OBVIOUS
    <2> HIDE DEF S
    <2>5. Inductive(first, last, S)
      BY <2>1, <2>2, <2>4 DEF Inductive
    <2>3. first .. last \subseteq S
      BY <2>5, IntervalInduction
    <2>. QED BY <2>3 DEF S
  <1>7. f[last] \in Int /\ f[last] = f[last - 1] + values[last] /\ f[last - 1] = g[last - 1]
    BY <1>1, <1>5 DEF SumFrom
  <1>8. h[last] = f[last] - values[first]
    BY <1>6
  <1>9. z[first - 1] = 0
    BY <1>4 DEF SumFrom
  <1>. QED BY <1>1, <1>2, <1>3, <1>4, <1>7, <1>8, <1>9

-----------------------------------------------------------------------------
(* The rolling sum is the sum of the window.                                *)
LEMMA RollingSumIs ==
    ASSUME NEW values \in Seq(Int), NEW period \in Nat \ {0}
    PROVE  \A i \in 0 .. Len(values) :
            RollingSum(values, period)[i] = SumOf(values, Most(1, i - period + 1), i)
  <1> DEFINE N == Len(values)
             D == 0 .. N
             step(f, i) == IF i = 0 THEN 0
                           ELSE f[i - 1] + values[i]
                                - (IF i > period THEN values[i - period] ELSE 0)
             T == [i \in D |-> [x \in Int |-> x + values[i]
                                 - (IF i > period THEN values[i - period] ELSE 0)]]
             w == CHOOSE f : f = [i \in D |-> step(f, i)]
             S == {i \in D : w[i] = SumOf(values, Most(1, i - period + 1), i)}
  <1>0. /\ N \in Nat /\ \A i \in 1 .. N : values[i] \in Int /\ i \in D /\ i - 1 \in D
        /\ \A i \in D : i > 0 => i \in 1 .. N
    OBVIOUS
  <1>1. Recurs(0, N, Int, 0, T)
    <2>1. ASSUME NEW i \in 1 .. N, NEW x \in Int
          PROVE  x + values[i] - (IF i > period THEN values[i - period] ELSE 0) \in Int
      OBVIOUS
    <2>2. \A i \in D : i > 0 => T[i] \in [Int -> Int]
      BY <1>0, <2>1
    <2> HIDE DEF T
    <2>. QED BY <1>0, <2>2 DEF Recurs
  <1>2. PICK f : Solution(0, N, Int, 0, T, f)
    <2> HIDE DEF T
    <2>. QED BY <1>1, Recursion
  <1>3. /\ f \in [D -> Int] /\ f[0] = 0 /\ \A i \in 1 .. N : f[i] = T[i][f[i - 1]]
    <2>1. \A i \in 1 .. N : i > 0
      OBVIOUS
    <2> HIDE DEF T
    <2>. QED BY <1>0, <1>2, <2>1 DEF Solution
  <1>4. f = [i \in D |-> step(f, i)]
    <2>1. \A i \in D : f[i] = step(f, i)
      <3>1. \A i \in D : i = 0 \/ (i \in 1 .. N /\ f[i - 1] \in Int)
        <4>1. \A i \in D : i = 0 \/ i > 0
          OBVIOUS
        <4> HIDE DEF T, D
        <4>. QED BY <1>0, <1>3, <4>1
      <3>. QED BY <1>0, <1>3, <3>1
    <2>2. f = [i \in D |-> f[i]]
      BY <1>3
    <2> HIDE DEF step, D
    <2>. QED BY <2>1, <2>2
  <1>5. w = [i \in D |-> step(w, i)]
    <2> HIDE DEF step, D
    <2>. QED BY <1>4
  <1>6. RollingSum(values, period) = w
    BY DEF RollingSum
  <1>7. \A i \in D : w[i] = step(w, i)
    <2> HIDE DEF w, step, D
    <2>. QED BY <1>5
  <1> HIDE DEF w, T
  <1>8. 0 \in S
    <2>1. w[0] = 0
      BY <1>0, <1>7
    <2>2. SumOf(values, 1, 0) = 0
      <3>1. PICK sum : SumFrom(values, 1, 0, sum) /\ SumOf(values, 1, 0) = sum[0]
        <4>1. \A i \in 1 .. 0 : values[i] \in Int
          OBVIOUS
        <4>. QED BY <4>1, SumExists
      <3>. QED BY <3>1 DEF SumFrom
    <2>3. Most(1, 0 - period + 1) = 1
      BY DEF Most
    <2>. QED BY <1>0, <2>1, <2>2, <2>3
  <1>9. ASSUME NEW i \in D, i > 0, i - 1 \in S PROVE i \in S
    <2>0. i \in 1 .. N /\ i # 0 /\ i - 1 \in D /\ i \in Nat
      BY <1>0, <1>9
    <2>1. w[i] = w[i - 1] + values[i] - (IF i > period THEN values[i - period] ELSE 0)
      BY <1>7, <2>0
    <2>2. w[i - 1] = SumOf(values, Most(1, i - period), i - 1)
      <3>1. (i - 1) - period + 1 = i - period
        OBVIOUS
      <3>. QED BY <1>9, <3>1
    <2>3. CASE i <= period
      <3>1. Most(1, i - period) = 1 /\ Most(1, i - period + 1) = 1
        BY <2>0, <2>3 DEF Most
      <3>2. \A j \in 1 .. i : values[j] \in Int
        BY <1>0, <2>0
      <3>3. SumOf(values, 1, i) = SumOf(values, 1, i - 1) + values[i] /\ SumOf(values, 1, i) \in Int
        BY <2>0, <3>2, SumMoves
      <3>4. SumOf(values, 1, i - 1) \in Int
        <4>1. PICK sum : SumFrom(values, 1, i - 1, sum) /\ SumOf(values, 1, i - 1) = sum[i - 1]
          <5>1. \A j \in 1 .. i - 1 : values[j] \in Int
            BY <2>0, <3>2
          <5>. QED BY <2>0, <5>1, SumExists
        <4>. QED BY <2>0, <4>1 DEF SumFrom
      <3>. QED BY <2>0, <2>1, <2>2, <2>3, <3>1, <3>2, <3>3, <3>4
    <2>4. CASE i > period
      <3> DEFINE k == i - period
      <3>1. k \in 1 .. i /\ Most(1, k) = k /\ Most(1, i - period + 1) = k + 1 /\ k \in Int /\ k <= i
        BY <2>0, <2>4 DEF Most
      <3>2. \A j \in k .. i : values[j] \in Int
        BY <1>0, <2>0, <3>1
      <3> HIDE DEF k
      <3>3. /\ SumOf(values, k, i) \in Int
            /\ SumOf(values, k, i) = SumOf(values, k, i - 1) + values[i]
            /\ SumOf(values, k + 1, i) = SumOf(values, k, i) - values[k]
        BY <2>0, <3>1, <3>2, SumMoves
      <3>4. w[i] = SumOf(values, k, i - 1) + values[i] - values[k]
        BY <2>1, <2>2, <2>4, <3>1 DEF k
      <3>5. values[k] \in Int /\ values[i] \in Int
        BY <3>1, <3>2
      <3>6. SumOf(values, k, i - 1) = SumOf(values, k, i) - values[i]
        <4>1. PICK sum : SumFrom(values, k, i - 1, sum) /\ SumOf(values, k, i - 1) = sum[i - 1]
          <5>1. \A j \in k .. i - 1 : values[j] \in Int
            BY <2>0, <3>1, <3>2
          <5>. QED BY <2>0, <3>1, <5>1, SumExists
        <4>2. SumOf(values, k, i - 1) \in Int
          BY <2>0, <3>1, <4>1 DEF SumFrom
        <4>. QED BY <3>3, <3>5, <4>2
      <3>7. w[i] = SumOf(values, k + 1, i)
        BY <3>3, <3>4, <3>5, <3>6
      <3>. QED BY <2>0, <3>1, <3>7
    <2>. QED BY <2>0, <2>3, <2>4
  <1>10. D \subseteq S
    <2> HIDE DEF S
    <2>1. Inductive(0, N, S)
      BY <1>0, <1>8, <1>9 DEF Inductive
    <2>. QED BY <2>1, IntervalInduction
  <1>. QED BY <1>6, <1>10

-----------------------------------------------------------------------------
Average == [status : {"AVAILABLE"}, num : Int, den : Int]
Move(x, value, weight, den) ==
    Available(weight * value * x.den + (den - weight) * x.num, den * x.den)

(* A moving average starts with the mean of its first values, and moves on  *)
(* with each next one.                                                      *)
Averages(values, period, weight, den, a) ==
    \A i \in 1 .. Len(values) :
        /\ i < period => a[i] = Warming
        /\ i = period => a[i] = Available(SumOf(values, 1, period), period)
        /\ i > period => a[i] = Move(a[i - 1], values[i], weight, den)
        /\ i >= period => a[i] \in Average

LEMMA SmoothedIs ==
    ASSUME NEW values \in Seq(Int), NEW period \in Nat \ {0}, NEW weight \in Int, NEW den \in Int
    PROVE  /\ Averages(values, period, weight, den, Smoothed(values, period, weight, den))
           /\ DOMAIN Smoothed(values, period, weight, den) = 1 .. Len(values)
  <1> DEFINE N == Len(values)
             D == 1 .. N
             V == Average \cup {Warming}
             step(f, i) == IF i < period THEN Warming
                           ELSE IF i = period THEN Available(SumOf(values, 1, period), period)
                           ELSE Move(f[i - 1], values[i], weight, den)
             next(i, x) == IF i < period THEN Warming
                           ELSE IF i = period THEN Available(SumOf(values, 1, period), period)
                           ELSE IF x = Warming THEN Warming ELSE Move(x, values[i], weight, den)
             v0 == IF 1 < period THEN Warming ELSE Available(SumOf(values, 1, period), period)
             T == [i \in D |-> [x \in V |-> next(i, x)]]
             w == CHOOSE f : f = [i \in D |-> step(f, i)]
  <1>0. N \in Nat /\ \A i \in 1 .. N : values[i] \in Int /\ i \in Nat
    OBVIOUS
  <1>1. Smoothed(values, period, weight, den) = w
    BY DEF Smoothed, Move
  <1>2. N >= period => Available(SumOf(values, 1, period), period) \in Average
    <2> SUFFICES ASSUME N >= period PROVE Available(SumOf(values, 1, period), period) \in Average
      OBVIOUS
    <2>1. \A j \in 1 .. period : values[j] \in Int
      BY <1>0
    <2>2. SumOf(values, 1, period) \in Int
      BY <2>1, SumMoves
    <2>. QED BY <2>2 DEF Available, Average
  <1>3. ASSUME NEW x \in Average, NEW i \in 1 .. N PROVE Move(x, values[i], weight, den) \in Average
    <2>1. x.num \in Int /\ x.den \in Int /\ values[i] \in Int
      BY <1>0 DEF Average
    <2>2. weight * values[i] * x.den + (den - weight) * x.num \in Int /\ den * x.den \in Int
      BY <2>1
    <2>. QED BY <2>2 DEF Available, Average, Move
  <1>4. ASSUME N >= 1
        PROVE  \E f : f = [i \in D |-> step(f, i)] /\ \A i \in D : i >= period => f[i] \in Average
    <2>1. Recurs(1, N, V, v0, T)
      <3>1. v0 \in V
        BY <1>2, <1>4
      <3>2. ASSUME NEW i \in 2 .. N, NEW x \in V PROVE next(i, x) \in V
        <4>1. i \in 1 .. N
          OBVIOUS
        <4>2. i = period => N >= period
          OBVIOUS
        <4>3. x # Warming => Move(x, values[i], weight, den) \in Average
          BY <1>3, <4>1
        <4>. QED BY <1>2, <4>2, <4>3
      <3>3. \A i \in D : i > 1 => i \in 2 .. N
        OBVIOUS
      <3>4. \A i \in D : i > 1 => T[i] \in [V -> V]
        <4> HIDE DEF V, next
        <4>. QED BY <3>2, <3>3
      <3> HIDE DEF V, T, v0
      <3>. QED BY <1>0, <1>4, <3>1, <3>4 DEF Recurs
    <2>2. PICK f : Solution(1, N, V, v0, T, f)
      <3> HIDE DEF T, V, v0
      <3>. QED BY <2>1, Recursion
    <2>3. f \in [D -> V] /\ f[1] = v0 /\ \A i \in 2 .. N : f[i] = next(i, f[i - 1])
      <3>1. f \in [D -> V] /\ f[1] = v0 /\ \A i \in 2 .. N : i - 1 \in D /\ f[i] = T[i][f[i - 1]]
        <4>1. \A i \in 2 .. N : i \in D /\ i > 1
          OBVIOUS
        <4> HIDE DEF T, V, v0
        <4>. QED BY <2>2, <4>1 DEF Solution
      <3>2. \A i \in 2 .. N : i \in D
        OBVIOUS
      <3> HIDE DEF V, v0, next
      <3>. QED BY <3>1, <3>2
    <2> DEFINE S == {i \in D : i >= period => f[i] \in Average}
    <2>4. D \subseteq S
      <3>1. 1 \in S
        BY <1>2, <1>4, <2>3
      <3>2. ASSUME NEW i \in D, i > 1, i - 1 \in S PROVE i \in S
        <4>1. i \in 2 .. N /\ i \in 1 .. N /\ f[i] = next(i, f[i - 1])
          BY <2>3, <3>2
        <4>2. i > period => f[i - 1] \in Average
          BY <3>2
        <4>3. \A x \in Average : x # Warming
          BY DEF Average, Warming
        <4>4. i > period => f[i] = Move(f[i - 1], values[i], weight, den) /\ f[i] \in Average
          BY <1>3, <4>1, <4>2, <4>3
        <4>5. i = period => f[i] = Available(SumOf(values, 1, period), period) /\ N >= period
          BY <4>1
        <4>. QED BY <1>2, <4>1, <4>4, <4>5
      <3> HIDE DEF S
      <3>3. Inductive(1, N, S)
        BY <1>0, <3>1, <3>2 DEF Inductive
      <3>. QED BY <3>3, IntervalInduction
    <2>5. \A i \in D : i >= period => f[i] \in Average
      BY <2>4
    <2>6. \A i \in D : f[i] = step(f, i)
      <3> SUFFICES ASSUME NEW i \in D PROVE f[i] = step(f, i)
        OBVIOUS
      <3>1. CASE i = 1
        BY <2>3, <3>1
      <3>2. CASE i # 1
        <4>1. i \in 2 .. N /\ i - 1 \in D /\ f[i] = next(i, f[i - 1])
          BY <2>3, <3>2
        <4>2. i > period => f[i - 1] # Warming
          <5>1. i > period => f[i - 1] \in Average
            BY <2>5, <4>1
          <5>. QED BY <5>1 DEF Average, Warming
        <4>. QED BY <4>1, <4>2
      <3>. QED BY <3>1, <3>2
    <2>7. f = [i \in D |-> f[i]]
      BY <2>3
    <2> HIDE DEF step, D
    <2>8. f = [i \in D |-> step(f, i)]
      BY <2>6, <2>7
    <2>. QED BY <2>5, <2>8
  <1>5. /\ w = [i \in D |-> step(w, i)]
        /\ \A i \in D : i >= period => w[i] \in Average
    <2>1. CASE N >= 1
      <3>1. PICK f : f = [i \in D |-> step(f, i)] /\ \A i \in D : i >= period => f[i] \in Average
        BY <1>4, <2>1
      <3>2. w = [i \in D |-> step(w, i)]
        <4> HIDE DEF step, D
        <4>. QED BY <3>1
      <3> DEFINE S == {i \in D : w[i] = f[i]}
      <3>3. \A i \in D : w[i] = step(w, i) /\ f[i] = step(f, i)
        <4> HIDE DEF step, D, w
        <4>. QED BY <3>1, <3>2
      <3>4. D \subseteq S
        <4> HIDE DEF w
        <4>1. 1 \in S
          BY <2>1, <3>3
        <4>2. ASSUME NEW i \in D, i > 1, i - 1 \in S PROVE i \in S
          BY <3>3, <4>2
        <4> HIDE DEF S
        <4>3. Inductive(1, N, S)
          BY <1>0, <4>1, <4>2 DEF Inductive
        <4>. QED BY <4>3, IntervalInduction
      <3> HIDE DEF w, step
      <3>. QED BY <3>1, <3>2, <3>4
    <2>2. CASE ~(N >= 1)
      <3>1. D = {}
        BY <1>0, <2>2
      <3>2. \E f : f = [i \in D |-> step(f, i)]
        <4> DEFINE f == [i \in D |-> Warming]
        <4>1. f = [i \in D |-> step(f, i)]
          BY <3>1
        <4>. QED BY <4>1
      <3>3. w = [i \in D |-> step(w, i)]
        <4> HIDE DEF step, D
        <4>. QED BY <3>2
      <3>. QED BY <3>1, <3>3
    <2>. QED BY <2>1, <2>2
  <1>6. DOMAIN w = D /\ \A i \in D : w[i] = step(w, i)
    <2> HIDE DEF w, step, D
    <2>. QED BY <1>5
  <1> HIDE DEF w
  <1>7. Averages(values, period, weight, den, w)
    BY <1>0, <1>5, <1>6 DEF Averages
  <1>. QED BY <1>1, <1>6, <1>7
-----------------------------------------------------------------------------
(* What a feature says of a value does not change with later values.        *)
LEMMA SmaBegins ==
    ASSUME NEW s \in Seq(Int), NEW t \in Seq(Int), Begins(s, t), NEW period \in Nat \ {0},
           NEW i \in 1 .. Len(s)
    PROVE  Sma(t, period)[i] = Sma(s, period)[i]
  <1>1. i \in 0 .. Len(s) /\ i \in 0 .. Len(t) /\ i \in DOMAIN s /\ i \in DOMAIN t
    BY DEF Begins
  <1> DEFINE first == Most(1, i - period + 1)
  <1>2. first \in Int /\ first - 1 <= i /\ i \in Int /\ first >= 1
    BY DEF Most
  <1>3. \A j \in first .. i : s[j] \in Int /\ t[j] = s[j]
    <2>1. \A j \in first .. i : j \in 1 .. Len(s)
      BY <1>2
    <2> HIDE DEF first
    <2>. QED BY <2>1 DEF Begins
  <1>4. SumOf(s, first, i) = SumOf(t, first, i)
    <2> HIDE DEF first
    <2>. QED BY <1>2, <1>3, SumOfSame
  <1>5. /\ RollingSum(s, period)[i] = SumOf(s, first, i)
        /\ RollingSum(t, period)[i] = SumOf(t, first, i)
    BY <1>1, RollingSumIs
  <1> HIDE DEF first
  <1>. QED BY <1>1, <1>4, <1>5 DEF Sma

LEMMA SmoothedBegins ==
    ASSUME NEW s \in Seq(Int), NEW t \in Seq(Int), Begins(s, t), NEW period \in Nat \ {0},
           NEW weight \in Int, NEW den \in Int
    PROVE  \A i \in 1 .. Len(s) :
            Smoothed(t, period, weight, den)[i] = Smoothed(s, period, weight, den)[i]
  <1> DEFINE a == Smoothed(s, period, weight, den)
             c == Smoothed(t, period, weight, den)
             S == {i \in 1 .. Len(s) : c[i] = a[i]}
  <1>1. /\ Averages(s, period, weight, den, a) /\ Averages(t, period, weight, den, c)
    BY SmoothedIs
  <1> HIDE DEF a, c
  <1>2. /\ Len(s) \in Nat /\ Len(t) \in Nat /\ Len(s) <= Len(t)
        /\ \A i \in 1 .. Len(s) : i \in 1 .. Len(t) /\ t[i] = s[i] /\ s[i] \in Int
    BY DEF Begins
  <1>3. \A i \in 1 .. Len(s) : i = period => SumOf(s, 1, period) = SumOf(t, 1, period)
    <2> SUFFICES ASSUME period \in 1 .. Len(s) PROVE SumOf(s, 1, period) = SumOf(t, 1, period)
      OBVIOUS
    <2>1. \A j \in 1 .. period : s[j] \in Int /\ t[j] = s[j]
      BY <1>2
    <2>. QED BY <2>1, SumOfSame
  <1>4. ASSUME NEW i \in 1 .. Len(s), i > 1 => i - 1 \in S PROVE i \in S
    <2>1. i > period => i > 1 /\ c[i - 1] = a[i - 1]
      BY <1>4
    <2>2. i < period \/ i = period \/ i > period
      OBVIOUS
    <2>. QED BY <1>1, <1>2, <1>3, <2>1, <2>2 DEF Averages
  <1>5. CASE Len(s) >= 1
    <2> HIDE DEF S
    <2>0. 1 \in 1 .. Len(s)
      BY <1>2, <1>5
    <2>1. 1 \in S
      BY <1>4, <2>0
    <2>2. \A i \in 1 .. Len(s) : i > 1 /\ i - 1 \in S => i \in S
      BY <1>4
    <2>3. Inductive(1, Len(s), S)
      BY <1>2, <1>5, <2>1, <2>2 DEF Inductive
    <2>4. 1 .. Len(s) \subseteq S
      BY <2>3, IntervalInduction
    <2>. QED BY <2>4 DEF S, a, c
  <1>6. CASE ~(Len(s) >= 1)
    BY <1>2, <1>6
  <1>. QED BY <1>5, <1>6

(* The changes of a series of closes, up and down.                          *)
Gains(closes) ==
    [i \in DOMAIN [j \in 1 .. Len(closes) - 1 |-> closes[j + 1] - closes[j]] |->
        Most([j \in 1 .. Len(closes) - 1 |-> closes[j + 1] - closes[j]][i], 0)]
Losses(closes) ==
    [i \in DOMAIN [j \in 1 .. Len(closes) - 1 |-> closes[j + 1] - closes[j]] |->
        Most(-[j \in 1 .. Len(closes) - 1 |-> closes[j + 1] - closes[j]][i], 0)]

LEMMA ChangesAre ==
    ASSUME NEW s \in Seq(Int), Len(s) > 0
    PROVE  /\ Gains(s) \in Seq(Int) /\ Losses(s) \in Seq(Int)
           /\ Len(Gains(s)) = Len(s) - 1 /\ Len(Losses(s)) = Len(s) - 1
           /\ \A i \in 1 .. Len(s) - 1 :
                /\ Gains(s)[i] = Most(s[i + 1] - s[i], 0)
                /\ Losses(s)[i] = Most(-(s[i + 1] - s[i]), 0)
                /\ Gains(s)[i] \in Nat /\ Losses(s)[i] \in Nat
  <1>1. PICK n \in Nat : n = Len(s) - 1
    OBVIOUS
  <1>2. /\ Gains(s) = [i \in 1 .. n |-> Most(s[i + 1] - s[i], 0)]
        /\ Losses(s) = [i \in 1 .. n |-> Most(-(s[i + 1] - s[i]), 0)]
    BY <1>1 DEF Gains, Losses
  <1>3. ASSUME NEW i \in 1 .. n
        PROVE  Most(s[i + 1] - s[i], 0) \in Nat /\ Most(-(s[i + 1] - s[i]), 0) \in Nat
    <2>1. s[i] \in Int /\ s[i + 1] \in Int
      BY <1>1
    <2>. QED BY <2>1 DEF Most
  <1>4. /\ Gains(s) \in [1 .. n -> Int] /\ Losses(s) \in [1 .. n -> Int]
    BY <1>2, <1>3
  <1>. QED BY <1>1, <1>2, <1>3, <1>4

LEMMA RsiIs ==
    ASSUME NEW s \in Seq(Int), NEW period \in Nat \ {0}, NEW i \in 1 .. Len(s)
    PROVE  Rsi(s, period)[i] =
            IF i <= period THEN Warming
            ELSE RsiValue(Smoothed(Gains(s), period, 1, period)[i - 1].num,
                          Smoothed(Losses(s), period, 1, period)[i - 1].num)
  BY DEF Rsi, Gains, Losses, WilderAverage

LEMMA RsiBegins ==
    ASSUME NEW s \in Seq(Int), NEW t \in Seq(Int), Begins(s, t), NEW period \in Nat \ {0},
           NEW i \in 1 .. Len(s)
    PROVE  Rsi(t, period)[i] = Rsi(s, period)[i]
  <1>1. Len(s) \in Nat /\ Len(t) \in Nat /\ Len(s) > 0 /\ Len(t) > 0 /\ i \in 1 .. Len(t)
        /\ Len(s) <= Len(t) /\ \A j \in 1 .. Len(s) : t[j] = s[j]
    BY DEF Begins
  <1>2. /\ Gains(s) \in Seq(Int) /\ Losses(s) \in Seq(Int)
        /\ Gains(t) \in Seq(Int) /\ Losses(t) \in Seq(Int)
        /\ Len(Gains(s)) = Len(s) - 1 /\ Len(Losses(s)) = Len(s) - 1
        /\ Begins(Gains(s), Gains(t)) /\ Begins(Losses(s), Losses(t))
    <2>1. ASSUME NEW j \in 1 .. Len(s) - 1
          PROVE  j \in 1 .. Len(t) - 1 /\ t[j] = s[j] /\ t[j + 1] = s[j + 1]
      <3>1. j \in 1 .. Len(s) /\ j + 1 \in 1 .. Len(s) /\ j \in 1 .. Len(t) - 1
        BY <1>1
      <3>. QED BY ONLY <1>1, <3>1
    <2>2. /\ Gains(s) \in Seq(Int) /\ Losses(s) \in Seq(Int)
          /\ Len(Gains(s)) = Len(s) - 1 /\ Len(Losses(s)) = Len(s) - 1
          /\ \A j \in 1 .. Len(s) - 1 : /\ Gains(s)[j] = Most(s[j + 1] - s[j], 0)
                                        /\ Losses(s)[j] = Most(-(s[j + 1] - s[j]), 0)
      BY <1>1, ChangesAre
    <2>3. /\ Gains(t) \in Seq(Int) /\ Losses(t) \in Seq(Int)
          /\ Len(Gains(t)) = Len(t) - 1 /\ Len(Losses(t)) = Len(t) - 1
          /\ \A j \in 1 .. Len(t) - 1 : /\ Gains(t)[j] = Most(t[j + 1] - t[j], 0)
                                        /\ Losses(t)[j] = Most(-(t[j + 1] - t[j]), 0)
      BY <1>1, ChangesAre
    <2>4. Begins(Gains(s), Gains(t)) /\ Begins(Losses(s), Losses(t))
      <3>1. Len(s) - 1 <= Len(t) - 1
        BY <1>1
      <3>. QED BY <2>1, <2>2, <2>3, <3>1 DEF Begins
    <2>. QED BY <2>2, <2>3, <2>4
  <1>3. i > period => i - 1 \in 1 .. Len(s) - 1
    OBVIOUS
  <1>4. i > period =>
            /\ Smoothed(Gains(t), period, 1, period)[i - 1]
                = Smoothed(Gains(s), period, 1, period)[i - 1]
            /\ Smoothed(Losses(t), period, 1, period)[i - 1]
                = Smoothed(Losses(s), period, 1, period)[i - 1]
    <2> SUFFICES ASSUME i > period
                 PROVE  /\ Smoothed(Gains(t), period, 1, period)[i - 1]
                            = Smoothed(Gains(s), period, 1, period)[i - 1]
                        /\ Smoothed(Losses(t), period, 1, period)[i - 1]
                            = Smoothed(Losses(s), period, 1, period)[i - 1]
      OBVIOUS
    <2>1. period \in Int /\ 1 \in Int /\ i - 1 \in 1 .. Len(Gains(s)) /\ i - 1 \in 1 .. Len(Losses(s))
      BY <1>2, <1>3
    <2>2. /\ \A j \in 1 .. Len(Gains(s)) : Smoothed(Gains(t), period, 1, period)[j]
                = Smoothed(Gains(s), period, 1, period)[j]
          /\ \A j \in 1 .. Len(Losses(s)) : Smoothed(Losses(t), period, 1, period)[j]
                = Smoothed(Losses(s), period, 1, period)[j]
      <3>1. \A j \in 1 .. Len(Gains(s)) : Smoothed(Gains(t), period, 1, period)[j]
                = Smoothed(Gains(s), period, 1, period)[j]
        BY <1>2, <2>1, SmoothedBegins
      <3>2. \A j \in 1 .. Len(Losses(s)) : Smoothed(Losses(t), period, 1, period)[j]
                = Smoothed(Losses(s), period, 1, period)[j]
        BY <1>2, <2>1, SmoothedBegins
      <3>. QED BY <3>1, <3>2
    <2>. QED BY <2>1, <2>2
  <1>5. i <= period \/ i > period
    OBVIOUS
  <1>6. /\ Rsi(s, period)[i] =
            IF i <= period THEN Warming
            ELSE RsiValue(Smoothed(Gains(s), period, 1, period)[i - 1].num,
                          Smoothed(Losses(s), period, 1, period)[i - 1].num)
        /\ Rsi(t, period)[i] =
            IF i <= period THEN Warming
            ELSE RsiValue(Smoothed(Gains(t), period, 1, period)[i - 1].num,
                          Smoothed(Losses(t), period, 1, period)[i - 1].num)
    BY <1>1, RsiIs
  <1>. QED BY <1>4, <1>5, <1>6

LEMMA ReturnsBegin ==
    ASSUME NEW s \in Seq(Int), NEW t \in Seq(Int), Begins(s, t), NEW period \in Nat \ {0},
           NEW i \in 1 .. Len(s)
    PROVE  Returns(t, period)[i] = Returns(s, period)[i]
  <1>1. i \in DOMAIN s /\ i \in DOMAIN t /\ t[i] = s[i]
    BY DEF Begins
  <1>2. ~(i <= period) => t[i - period] = s[i - period]
    BY DEF Begins
  <1>. QED BY <1>1, <1>2 DEF Returns

Squares(values) == [j \in DOMAIN values |-> values[j] * values[j]]

LEMMA ZScoreBegins ==
    ASSUME NEW s \in Seq(Int), NEW t \in Seq(Int), Begins(s, t), NEW period \in Nat \ {0},
           NEW i \in 1 .. Len(s)
    PROVE  ZScore(t, period)[i] = ZScore(s, period)[i]
  <1>1. i \in DOMAIN s /\ i \in DOMAIN t /\ t[i] = s[i]
    BY DEF Begins
  <1>2. ASSUME ~(i < period)
        PROVE  /\ SumOf(s, i - period + 1, i) = SumOf(t, i - period + 1, i)
               /\ SumOf(Squares(s), i - period + 1, i) = SumOf(Squares(t), i - period + 1, i)
    <2> DEFINE first == i - period + 1
    <2>1. first \in Int /\ i \in Int /\ first - 1 <= i /\ first >= 1
      BY <1>2
    <2>2. \A j \in first .. i : j \in DOMAIN s /\ j \in DOMAIN t /\ s[j] \in Int /\ t[j] = s[j]
      <3>1. \A j \in first .. i : j \in 1 .. Len(s)
        BY <2>1
      <3>2. \A j \in 1 .. Len(s) : j \in 1 .. Len(t) /\ t[j] = s[j] /\ s[j] \in Int
        BY DEF Begins
      <3> HIDE DEF first
      <3>. QED BY <3>1, <3>2
    <2>3. \A j \in first .. i : Squares(s)[j] \in Int /\ Squares(t)[j] = Squares(s)[j]
      <3>1. \A j \in first .. i : s[j] * s[j] \in Int
        BY <2>2
      <3> HIDE DEF first
      <3>. QED BY <2>2, <3>1 DEF Squares
    <2> HIDE DEF first
    <2>4. /\ SumOf(s, first, i) = SumOf(t, first, i)
          /\ SumOf(Squares(s), first, i) = SumOf(Squares(t), first, i)
      BY <2>1, <2>2, <2>3, SumOfSame
    <2>. QED BY <2>4 DEF first
  <1>. QED BY <1>1, <1>2 DEF ZScore, Squares
-----------------------------------------------------------------------------
(* The candidates of a rolling extreme after i values: positions inside of  *)
(* the window, each better than all that come after it, the last value      *)
(* among them, and one for every position of the window that covers it.     *)
Covers(a, b, highest) == IF highest THEN b <= a ELSE b >= a
AreCandidates(values, period, highest, i, c) ==
    /\ c \in Seq(Nat)
    /\ \A k \in 1 .. Len(c) : c[k] \in 1 .. i /\ c[k] > i - period
    /\ \A k, l \in 1 .. Len(c) :
        k < l => c[k] < c[l] /\ ~Covers(values[c[l]], values[c[k]], highest)
    /\ \A j \in 1 .. i : j > i - period =>
        \E k \in 1 .. Len(c) : c[k] >= j /\ Covers(values[c[k]], values[j], highest)

(* One step of the recurrence.                                              *)
Slide(values, period, highest, before, i) ==
    LET inside == {k \in DOMAIN before : before[k] > i - period}
        first == Min({Len(before) + 1} \cup inside)
        kept == {k \in first .. Len(before) :
                    ~(IF highest THEN values[before[k]] <= values[i] ELSE values[before[k]] >= values[i])}
        last == Max({first - 1} \cup kept)
    IN Append(SubSeq(before, first, last), i)

LEMMA LeastIs ==
    ASSUME NEW S \in SUBSET Nat, S # {}
    PROVE  Min(S) \in S /\ \A x \in S : Min(S) <= x
  <1>1. \E x \in S : \A y \in S : x <= y
    BY LeastNatural
  <1>. QED BY <1>1 DEF Min

LEMMA GreatestIs ==
    ASSUME NEW n \in Nat, NEW S \in SUBSET (0 .. n), S # {}
    PROVE  Max(S) \in S /\ \A x \in S : Max(S) >= x
  <1> DEFINE T == {n - x : x \in S}
  <1>1. T \in SUBSET Nat /\ T # {}
    <2>1. \A x \in S : x \in 0 .. n
      OBVIOUS
    <2>2. \A x \in 0 .. n : n - x \in Nat
      OBVIOUS
    <2>. QED BY <2>1, <2>2
  <1>2. PICK m \in T : \A y \in T : m <= y
    <2> HIDE DEF T
    <2>. QED BY <1>1, LeastNatural
  <1>3. PICK x \in S : m = n - x
    OBVIOUS
  <1>4. \A y \in S : x >= y
    <2> SUFFICES ASSUME NEW y \in S PROVE x >= y
      OBVIOUS
    <2>1. m <= n - y
      BY <1>2
    <2>. QED BY <1>3, <2>1
  <1>5. \E z \in S : \A y \in S : z >= y
    BY <1>4
  <1>. QED BY <1>5 DEF Max

(* The ends of what a step keeps.                                           *)
SlidesTo(values, period, highest, before, i, first, last) ==
    /\ first \in Int /\ last \in Int
    /\ 1 <= first /\ first <= Len(before) + 1 /\ first - 1 <= last /\ last <= Len(before)
    /\ Slide(values, period, highest, before, i) = Append(SubSeq(before, first, last), i)
    /\ \A k \in 1 .. Len(before) : before[k] > i - period => first <= k
    /\ first <= Len(before) => before[first] > i - period
    /\ \A k \in first .. Len(before) :
        ~Covers(values[i], values[before[k]], highest) => k <= last
    /\ last >= first => ~Covers(values[i], values[before[last]], highest)

LEMMA SlideIs ==
    ASSUME NEW values, NEW period, NEW highest, NEW before \in Seq(Nat), NEW i \in Nat
    PROVE  \E first, last : SlidesTo(values, period, highest, before, i, first, last)
  <1> DEFINE n == Len(before)
             inside == {k \in DOMAIN before : before[k] > i - period}
             heads == {n + 1} \cup inside
             first == Min(heads)
             kept == {k \in first .. n :
                        ~(IF highest THEN values[before[k]] <= values[i]
                                     ELSE values[before[k]] >= values[i])}
             tails == {first - 1} \cup kept
             last == Max(tails)
  <1>1. n \in Nat /\ DOMAIN before = 1 .. n
    OBVIOUS
  <1>2. heads \in SUBSET (1 .. n + 1) /\ heads \in SUBSET Nat /\ heads # {}
    BY <1>1
  <1>3. first \in heads /\ \A x \in heads : first <= x
    <2> HIDE DEF heads
    <2>. QED BY <1>2, LeastIs
  <1>4. first \in 1 .. n + 1
    <2> HIDE DEF heads, first
    <2>. QED BY <1>2, <1>3
  <1>5. \A k \in 1 .. n : before[k] > i - period => first <= k
    <2>1. \A k \in 1 .. n : before[k] > i - period => k \in heads
      BY <1>1
    <2> HIDE DEF heads, first
    <2>. QED BY <1>3, <2>1
  <1>6. first <= n => before[first] > i - period
    <2>1. first \in heads => first = n + 1 \/ before[first] > i - period
      OBVIOUS
    <2> HIDE DEF heads, first
    <2>. QED BY <1>1, <1>3, <2>1
  <1> HIDE DEF heads, first
  <1>7. tails \in SUBSET (0 .. n) /\ tails # {}
    BY <1>1, <1>4
  <1>8. last \in tails /\ \A x \in tails : last >= x
    <2> HIDE DEF tails
    <2>. QED BY <1>1, <1>7, GreatestIs
  <1>9. last \in first - 1 .. n
    <2>1. tails \subseteq first - 1 .. n
      BY <1>1, <1>4
    <2> HIDE DEF tails, last
    <2>. QED BY <1>8, <2>1
  <1>10. \A k \in first .. n : ~Covers(values[i], values[before[k]], highest) => k <= last
    <2>1. \A k \in first .. n : ~Covers(values[i], values[before[k]], highest) => k \in tails
      BY DEF Covers
    <2>2. \A k \in first .. n : k \in Nat
      BY <1>1, <1>4
    <2> HIDE DEF tails, last
    <2>. QED BY <1>8, <1>9, <1>4, <2>1, <2>2
  <1>11. last >= first => ~Covers(values[i], values[before[last]], highest)
    <2>1. last \in tails => last = first - 1 \/ ~Covers(values[i], values[before[last]], highest)
      BY DEF Covers
    <2> HIDE DEF tails, last
    <2>. QED BY <1>4, <1>8, <1>9, <2>1
  <1>12. Slide(values, period, highest, before, i) = Append(SubSeq(before, first, last), i)
    BY DEF Slide, first, heads
  <1> HIDE DEF last
  <1>13. SlidesTo(values, period, highest, before, i, first, last)
    BY <1>1, <1>4, <1>5, <1>6, <1>9, <1>10, <1>11, <1>12 DEF SlidesTo
  <1>. QED BY <1>13

(* What a step keeps, by position.                                          *)
LEMMA KeptIs ==
    ASSUME NEW before \in Seq(Nat), NEW i \in Nat, NEW first \in Int, NEW last \in Int,
           1 <= first, first <= Len(before) + 1, first - 1 <= last, last <= Len(before)
    PROVE  LET c == Append(SubSeq(before, first, last), i) IN
           /\ c \in Seq(Nat) /\ Len(c) = last - first + 2 /\ c[last - first + 2] = i
           /\ \A k \in 1 .. last - first + 1 :
                k + first - 1 \in 1 .. Len(before) /\ c[k] = before[k + first - 1]
  <1> DEFINE n == Len(before)
             t == SubSeq(before, first, last)
  <1>0. PICK m \in Nat : m = last - first + 1
    OBVIOUS
  <1>1. n \in Nat /\ first \in Nat /\ last \in Int
    OBVIOUS
  <1>2. \A k \in 1 .. m : /\ k + first - 1 \in 1 .. n /\ before[k + first - 1] \in Nat
                           /\ first + k - 1 = k + first - 1
    BY <1>0
  <1>3. t = [k \in 1 .. m |-> before[first + k - 1]]
    BY <1>0
  <1>4. t \in [1 .. m -> Nat] /\ \A k \in 1 .. m : t[k] = before[k + first - 1]
    <2> HIDE DEF t
    <2>. QED BY <1>2, <1>3
  <1> HIDE DEF t
  <1>5. t \in Seq(Nat) /\ Len(t) = m
    BY ONLY <1>4, m \in Nat
  <1>6. /\ Append(t, i) \in Seq(Nat) /\ Len(Append(t, i)) = m + 1 /\ Append(t, i)[m + 1] = i
        /\ \A k \in 1 .. m : Append(t, i)[k] = t[k]
    BY <1>5
  <1>7. last - first + 2 = m + 1
    BY <1>0, <1>1
  <1>. QED BY <1>0, <1>2, <1>4, <1>6, <1>7 DEF t
LEMMA CoversIs ==
    ASSUME NEW highest, NEW a \in Int, NEW b \in Int, NEW c \in Int
    PROVE  /\ Covers(a, a, highest)
           /\ ~Covers(a, b, highest) => Covers(b, a, highest)
           /\ Covers(a, b, highest) /\ Covers(b, c, highest) => Covers(a, c, highest)
           /\ ~Covers(a, b, highest) /\ ~Covers(b, c, highest) => ~Covers(a, c, highest)
  <1>1. CASE highest
    BY <1>1 DEF Covers
  <1>2. CASE ~highest
    BY <1>2 DEF Covers
  <1>. QED BY <1>1, <1>2

(* A step keeps the candidates what they are.                               *)
LEMMA SlideKeeps ==
    ASSUME NEW values, NEW period \in Nat \ {0}, NEW highest, NEW i \in Nat \ {0},
           \A j \in 1 .. i : values[j] \in Int,
           NEW before, AreCandidates(values, period, highest, i - 1, before)
    PROVE  AreCandidates(values, period, highest, i, Slide(values, period, highest, before, i))
  <1> DEFINE n == Len(before)
             C(x, y) == Covers(values[x], values[y], highest)
  <1>0. /\ before \in Seq(Nat)
        /\ \A k \in 1 .. n : before[k] \in 1 .. i - 1 /\ before[k] > (i - 1) - period
        /\ \A k, l \in 1 .. n : k < l => before[k] < before[l] /\ ~C(before[l], before[k])
        /\ \A j \in 1 .. i - 1 : j > (i - 1) - period =>
            \E k \in 1 .. n : before[k] >= j /\ C(before[k], j)
    BY DEF AreCandidates
  <1>1. n \in Nat /\ i \in Nat
    BY <1>0
  <1>2. PICK first, last : SlidesTo(values, period, highest, before, i, first, last)
    BY <1>0, <1>1, SlideIs
  <1>a. first \in Int /\ last \in Int /\ 1 <= first /\ first <= n + 1 /\ first - 1 <= last /\ last <= n
    BY <1>2 DEF SlidesTo
  <1>b. /\ \A k \in 1 .. n : before[k] > i - period => first <= k
        /\ first <= n => before[first] > i - period
        /\ \A k \in first .. n : ~C(i, before[k]) => k <= last
        /\ last >= first => ~C(i, before[last])
    BY <1>2 DEF SlidesTo
  <1> DEFINE c == Slide(values, period, highest, before, i)
             m == last - first + 1
  <1>3. /\ c \in Seq(Nat) /\ Len(c) = m + 1 /\ c[m + 1] = i
        /\ \A k \in 1 .. m : k + first - 1 \in 1 .. n /\ c[k] = before[k + first - 1]
    <2>1. last - first + 2 = m + 1
      BY <1>1, <1>a
    <2>2. c = Append(SubSeq(before, first, last), i)
      BY <1>2 DEF SlidesTo
    <2>3. LET e == Append(SubSeq(before, first, last), i) IN
            /\ e \in Seq(Nat) /\ Len(e) = last - first + 2 /\ e[last - first + 2] = i
            /\ \A k \in 1 .. last - first + 1 :
                k + first - 1 \in 1 .. Len(before) /\ e[k] = before[k + first - 1]
      BY <1>0, <1>1, <1>a, KeptIs
    <2> HIDE DEF c
    <2>. QED BY <2>1, <2>2, <2>3
  <1>4. /\ m \in Nat /\ first \in Nat /\ last \in Int /\ last <= n /\ first >= 1
        /\ \A k \in 1 .. m : /\ k + first - 1 \in first .. last
                             /\ \A l \in 1 .. m : k < l => k + first - 1 < l + first - 1
        /\ \A k \in 1 .. m + 1 : k \in 1 .. m \/ k = m + 1
    BY <1>1, <1>a
  <1> HIDE DEF c, m, n
  <1>5. \A x, y, z \in 1 .. i : /\ C(x, x) /\ (~C(x, y) => C(y, x))
                                /\ (C(x, y) /\ C(y, z) => C(x, z))
                                /\ (~C(x, y) /\ ~C(y, z) => ~C(x, z))
    BY CoversIs
  <1> HIDE DEF C
  <1>6. \A k \in 1 .. n : before[k] \in 1 .. i /\ before[k] < i
    BY <1>0, <1>1
  <1>7. i \in 1 .. i
    BY <1>1
  <1>8. \A k \in first .. last : k \in 1 .. n /\ before[k] > i - period /\ ~C(i, before[k])
    <2> SUFFICES ASSUME NEW k \in first .. last
                 PROVE  k \in 1 .. n /\ before[k] > i - period /\ ~C(i, before[k])
      OBVIOUS
    <2>1. k \in 1 .. n /\ first \in 1 .. n /\ last \in 1 .. n /\ last >= first
      BY <1>1, <1>4
    <2>2. k = first \/ before[first] < before[k]
      <3>1. k = first \/ first < k
        BY <1>4
      <3>. QED BY <1>0, <2>1, <3>1
    <2>3. before[k] > i - period
      <3>1. before[first] > i - period /\ before[k] \in Nat /\ before[first] \in Nat
        BY <1>1, <1>b, <1>4, <1>6, <2>1
      <3>. QED BY <1>1, <2>2, <3>1
    <2>4. ~C(i, before[last])
      BY <1>b, <2>1
    <2>5. k = last \/ ~C(before[last], before[k])
      <3>1. k = last \/ k < last
        BY <1>4
      <3>. QED BY <1>0, <2>1, <3>1
    <2>6. ~C(i, before[k])
      BY <1>5, <1>6, <1>7, <2>1, <2>4, <2>5
    <2>. QED BY <2>1, <2>3, <2>6
  <1>9. ASSUME NEW k \in 1 .. Len(c) PROVE c[k] \in 1 .. i /\ c[k] > i - period
    <2>1. CASE k \in 1 .. m
      BY <1>3, <1>4, <1>6, <1>8, <2>1
    <2>2. CASE k = m + 1
      BY <1>1, <1>3, <1>7, <2>2
    <2>. QED BY <1>3, <1>4, <2>1, <2>2
  <1>10. ASSUME NEW k \in 1 .. Len(c), NEW l \in 1 .. Len(c), k < l
         PROVE  c[k] < c[l] /\ ~C(c[l], c[k])
    <2>1. k \in 1 .. m
      BY <1>3, <1>4, <1>10
    <2>2. CASE l \in 1 .. m
      BY <1>0, <1>3, <1>4, <1>10, <2>1, <2>2
    <2>3. CASE l = m + 1
      BY <1>3, <1>4, <1>6, <1>8, <2>1, <2>3
    <2>. QED BY <1>3, <1>4, <2>2, <2>3
  <1>11. ASSUME NEW j \in 1 .. i, j > i - period
         PROVE  \E k \in 1 .. Len(c) : c[k] >= j /\ C(c[k], j)
    <2>0. m + 1 \in 1 .. Len(c) /\ c[m + 1] >= j
      BY <1>1, <1>3, <1>4
    <2>1. CASE j = i
      BY <1>3, <1>5, <1>7, <2>0, <2>1
    <2>2. CASE j # i
      <3>1. j \in 1 .. i - 1 /\ j > (i - 1) - period
        BY <1>1, <1>11, <2>2
      <3>2. PICK k \in 1 .. n : before[k] >= j /\ C(before[k], j)
        BY <1>0, <3>1
      <3>3. first <= k
        <4>1. before[k] > i - period
          BY <1>1, <1>6, <1>11, <3>2
        <4>. QED BY <1>b, <4>1
      <3>4. CASE k <= last
        <4>1. k - first + 1 \in 1 .. m /\ (k - first + 1) + first - 1 = k
          BY <1>1, <1>4, <3>3, <3>4 DEF m
        <4>2. c[k - first + 1] = before[k] /\ k - first + 1 \in 1 .. Len(c)
          BY <1>3, <1>4, <4>1
        <4>. QED BY <3>2, <4>2
      <3>5. CASE ~(k <= last)
        <4>1. k \in first .. n
          BY <1>1, <1>4, <3>3
        <4>2. C(i, before[k])
          BY <1>b, <3>5, <4>1
        <4>3. C(i, j)
          BY <1>5, <1>6, <1>7, <3>2, <4>2
        <4>. QED BY <1>3, <2>0, <4>3
      <3>. QED BY <3>4, <3>5
    <2>. QED BY <2>1, <2>2
  <1>. QED BY <1>3, <1>9, <1>10, <1>11 DEF AreCandidates, C, c

(* The recurrence has its candidates.                                       *)
LEMMA CandidatesAre ==
    ASSUME NEW values \in Seq(Int), NEW period \in Nat \ {0}, NEW highest
    PROVE  \A i \in 0 .. Len(values) :
            AreCandidates(values, period, highest, i, Candidates(values, period, highest)[i])
  <1> DEFINE N == Len(values)
             D == 0 .. N
             V == Seq(Nat)
             next(x, i) == Slide(values, period, highest, x, i)
             step(f, i) == IF i = 0 THEN <<>> ELSE next(f[i - 1], i)
             T == [i \in D |-> [x \in V |-> next(x, i)]]
             w == CHOOSE f : f = [i \in D |-> step(f, i)]
             S == {i \in D : AreCandidates(values, period, highest, i, w[i])}
  <1>0. /\ N \in Nat /\ <<>> \in V
        /\ \A i \in D : i \in Nat /\ (i > 0 => i \in Nat \ {0} /\ i - 1 \in D)
        /\ \A i \in D : i = 0 \/ i > 0
    OBVIOUS
  <1>1. Candidates(values, period, highest) = w
    BY DEF Candidates, Slide
  <1>2. ASSUME NEW x \in V, NEW i \in D PROVE next(x, i) \in V
    <2>1. i \in Nat
      OBVIOUS
    <2>2. PICK first, last : SlidesTo(values, period, highest, x, i, first, last)
      BY <2>1, SlideIs
    <2>3. Append(SubSeq(x, first, last), i) \in Seq(Nat)
      BY <2>1, <2>2, KeptIs DEF SlidesTo
    <2>. QED BY <2>2, <2>3 DEF SlidesTo
  <1>3. \E f : f = [i \in D |-> step(f, i)]
    <2>1. \A i \in D : T[i] \in [V -> V]
      <3> HIDE DEF V, D, next
      <3>. QED BY <1>2
    <2>2. Recurs(0, N, V, <<>>, T)
      <3> HIDE DEF V, T
      <3>. QED BY <1>0, <2>1 DEF Recurs
    <2>3. PICK f : Solution(0, N, V, <<>>, T, f)
      <3> HIDE DEF V, T
      <3>. QED BY <2>2, Recursion
    <2>4. f \in [D -> V] /\ f[0] = <<>> /\ \A i \in D : i > 0 => i - 1 \in D /\ f[i] = T[i][f[i - 1]]
      <3> HIDE DEF V, T
      <3>. QED BY <2>3 DEF Solution
    <2>5. \A i \in D : i > 0 => f[i] = next(f[i - 1], i)
      <3> HIDE DEF V, D, next
      <3>. QED BY <2>4
    <2>6. \A i \in D : i > 0 => i # 0
      OBVIOUS
    <2>7. f = [i \in D |-> step(f, i)]
      <3> HIDE DEF V, D, next
      <3>. QED BY <1>0, <2>4, <2>5, <2>6
    <2>. QED BY <2>7
  <1>4. w = [i \in D |-> step(w, i)]
    <2> HIDE DEF step, D
    <2>. QED BY <1>3
  <1>5. \A i \in D : w[i] = step(w, i)
    <2> HIDE DEF step, D, w
    <2>. QED BY <1>4
  <1> HIDE DEF w
  <1>6. 0 \in S
    <2>1. w[0] = <<>> /\ 0 \in D
      BY <1>0, <1>5
    <2>2. AreCandidates(values, period, highest, 0, <<>>)
      BY DEF AreCandidates
    <2>. QED BY <2>1, <2>2
  <1>7. ASSUME NEW i \in D, i > 0, i - 1 \in S PROVE i \in S
    <2>1. i \in Nat \ {0} /\ i # 0 /\ AreCandidates(values, period, highest, i - 1, w[i - 1])
      BY <1>0, <1>7
    <2>2. \A j \in 1 .. i : values[j] \in Int
      OBVIOUS
    <2>3. w[i] = Slide(values, period, highest, w[i - 1], i)
      BY <1>5, <2>1
    <2>4. AreCandidates(values, period, highest, i, w[i])
      BY <2>1, <2>2, <2>3, SlideKeeps
    <2>. QED BY <2>4
  <1>8. D \subseteq S
    <2> HIDE DEF S
    <2>1. Inductive(0, N, S)
      BY <1>0, <1>6, <1>7 DEF Inductive
    <2>. QED BY <2>1, IntervalInduction
  <1>. QED BY <1>1, <1>8

(* A rolling extreme is that of its window.                                 *)
LEMMA ExtremeIs ==
    ASSUME NEW values \in Seq(Int), NEW period \in Nat \ {0}, NEW highest,
           NEW i \in 1 .. Len(values)
    PROVE  /\ i < period => RollingExtreme(values, period, highest)[i] = Warming
           /\ i >= period => \E k \in i - period + 1 .. i :
                /\ RollingExtreme(values, period, highest)[i] = Available(values[k], 1)
                /\ \A j \in i - period + 1 .. i : Covers(values[k], values[j], highest)
  <1> DEFINE c == Candidates(values, period, highest)[i]
  <1>1. RollingExtreme(values, period, highest)[i]
            = IF i < period THEN Warming ELSE Available(values[Head(c)], 1)
    BY DEF RollingExtreme
  <1>2. AreCandidates(values, period, highest, i, c)
    BY CandidatesAre
  <1> HIDE DEF c
  <1>3. ASSUME i >= period
        PROVE  \E k \in i - period + 1 .. i :
                /\ RollingExtreme(values, period, highest)[i] = Available(values[k], 1)
                /\ \A j \in i - period + 1 .. i : Covers(values[k], values[j], highest)
    <2>1. /\ c \in Seq(Nat)
          /\ \A k \in 1 .. Len(c) : c[k] \in 1 .. i /\ c[k] > i - period
          /\ \A k \in 1 .. Len(c) : 1 < k => ~Covers(values[c[k]], values[c[1]], highest)
          /\ \A j \in 1 .. i : j > i - period =>
                \E k \in 1 .. Len(c) : Covers(values[c[k]], values[j], highest)
      <3>1. \A k \in 1 .. Len(c) : 1 < k => 1 \in 1 .. Len(c)
        BY <1>2 DEF AreCandidates
      <3>. QED BY <1>2, <3>1 DEF AreCandidates
    <2>2. 1 \in 1 .. Len(c) /\ Head(c) = c[1]
      <3>1. PICK k \in 1 .. Len(c) : TRUE
        <4>1. i \in 1 .. i /\ i > i - period
          OBVIOUS
        <4>. QED BY <2>1, <4>1
      <3>2. Len(c) \in Nat
        BY <2>1
      <3>3. 1 \in 1 .. Len(c) /\ c # <<>>
        BY <3>1, <3>2
      <3>. QED BY <2>1, <3>3
    <2>3. c[1] \in i - period + 1 .. i
      <3>1. c[1] \in 1 .. i /\ c[1] > i - period
        BY <2>1, <2>2
      <3>. QED BY <3>1
    <2>4. ASSUME NEW j \in i - period + 1 .. i PROVE Covers(values[c[1]], values[j], highest)
      <3>1. j \in 1 .. i /\ j > i - period
        BY <1>3
      <3>2. PICK k \in 1 .. Len(c) : Covers(values[c[k]], values[j], highest)
        BY <2>1, <3>1
      <3>3. k = 1 \/ 1 < k
        OBVIOUS
      <3>4. c[k] \in 1 .. Len(values) /\ c[1] \in 1 .. Len(values) /\ j \in 1 .. Len(values)
        <4>1. c[k] \in 1 .. i /\ c[1] \in 1 .. i
          BY <2>1, <2>2
        <4>. QED BY <3>1, <4>1
      <3>5. values[c[k]] \in Int /\ values[c[1]] \in Int /\ values[j] \in Int
        BY <3>4
      <3>6. k = 1 \/ ~Covers(values[c[k]], values[c[1]], highest)
        BY <2>1, <3>3
      <3>. QED BY <3>2, <3>5, <3>6, CoversIs
    <2>5. RollingExtreme(values, period, highest)[i] = Available(values[c[1]], 1)
      BY <1>1, <1>3, <2>2
    <2>. QED BY <2>3, <2>4, <2>5
  <1>. QED BY <1>1, <1>3

(* The extreme of the same window is the same.                              *)
LEMMA ExtremeBegins ==
    ASSUME NEW s \in Seq(Int), NEW t \in Seq(Int), Begins(s, t), NEW period \in Nat \ {0},
           NEW highest, NEW i \in 1 .. Len(s)
    PROVE  RollingExtreme(t, period, highest)[i] = RollingExtreme(s, period, highest)[i]
  <1>0. i \in 1 .. Len(t) /\ \A j \in 1 .. Len(s) : t[j] = s[j] /\ s[j] \in Int
    BY DEF Begins
  <1>1. CASE i < period
    BY <1>0, <1>1, ExtremeIs
  <1>2. CASE ~(i < period)
    <2> DEFINE W == i - period + 1 .. i
    <2>1. i >= period /\ \A j \in W : j \in 1 .. Len(s)
      BY <1>2
    <2>2. PICK k \in W : /\ RollingExtreme(s, period, highest)[i] = Available(s[k], 1)
                         /\ \A j \in W : Covers(s[k], s[j], highest)
      BY <2>1, ExtremeIs
    <2>3. PICK l \in W : /\ RollingExtreme(t, period, highest)[i] = Available(t[l], 1)
                         /\ \A j \in W : Covers(t[l], t[j], highest)
      BY <1>0, <2>1, ExtremeIs
    <2>4. t[l] = s[l] /\ t[k] = s[k] /\ s[k] \in Int /\ s[l] \in Int
      BY <1>0, <2>1
    <2>5. Covers(s[k], s[l], highest) /\ Covers(s[l], s[k], highest)
      BY <2>2, <2>3, <2>4
    <2>6. s[k] = s[l]
      <3> HIDE DEF W
      <3>1. CASE highest
        BY <2>4, <2>5, <3>1 DEF Covers
      <3>2. CASE ~highest
        BY <2>4, <2>5, <3>2 DEF Covers
      <3>. QED BY <3>1, <3>2
    <2>. QED BY <2>2, <2>3, <2>4, <2>6
  <1>. QED BY <1>1, <1>2
-----------------------------------------------------------------------------
Highs(history) == [i \in DOMAIN history |-> history[i].high]
Lows(history) == [i \in DOMAIN history |-> history[i].low]

(* The values of a series of bars, with another bar.                        *)
LEMMA ValuesAre ==
    ASSUME NEW history \in Seq(ValidBars)
    PROVE  /\ Closes(history) \in Seq(Int) /\ Len(Closes(history)) = Len(history)
           /\ Volumes(history) \in Seq(Int) /\ Len(Volumes(history)) = Len(history)
           /\ Highs(history) \in Seq(Int) /\ Len(Highs(history)) = Len(history)
           /\ Lows(history) \in Seq(Int) /\ Len(Lows(history)) = Len(history)
           /\ \A i \in 1 .. Len(history) :
                /\ history[i] \in ValidBars /\ history[i] \in BarType
                /\ Closes(history)[i] = history[i].close /\ Volumes(history)[i] = history[i].volume
                /\ Highs(history)[i] = history[i].high /\ Lows(history)[i] = history[i].low
  <1>1. PICK n \in Nat : n = Len(history) /\ DOMAIN history = 1 .. n
    OBVIOUS
  <1>2. \A i \in 1 .. n : history[i] \in ValidBars
    BY <1>1
  <1>3. \A i \in 1 .. n : history[i] \in BarType
    BY <1>2 DEF ValidBars
  <1>4. \A i \in 1 .. n : /\ history[i].close \in Int /\ history[i].volume \in Int
                          /\ history[i].high \in Int /\ history[i].low \in Int
    BY <1>3 DEF BarType
  <1>5. /\ Closes(history) \in [1 .. n -> Int] /\ Volumes(history) \in [1 .. n -> Int]
        /\ Highs(history) \in [1 .. n -> Int] /\ Lows(history) \in [1 .. n -> Int]
    BY <1>1, <1>4 DEF Closes, Volumes, Highs, Lows
  <1>6. \A f \in [1 .. n -> Int] : f \in Seq(Int) /\ Len(f) = n
    OBVIOUS
  <1>7. \A i \in 1 .. n :
                /\ Closes(history)[i] = history[i].close /\ Volumes(history)[i] = history[i].volume
                /\ Highs(history)[i] = history[i].high /\ Lows(history)[i] = history[i].low
    BY <1>1 DEF Closes, Volumes, Highs, Lows
  <1>. QED BY <1>1, <1>2, <1>3, <1>5, <1>6, <1>7

LEMMA OneMoreBar ==
    ASSUME NEW h \in Seq(ValidBars), NEW g \in Seq(ValidBars), Begins(h, g)
    PROVE  /\ Begins(Closes(h), Closes(g)) /\ Begins(Volumes(h), Volumes(g))
           /\ Begins(Highs(h), Highs(g)) /\ Begins(Lows(h), Lows(g))
  <1>1. Len(h) <= Len(g) /\ \A i \in 1 .. Len(h) : i \in 1 .. Len(g) /\ g[i] = h[i]
    BY DEF Begins
  <1>2. /\ Len(Closes(h)) = Len(h) /\ Len(Closes(g)) = Len(g)
        /\ Len(Volumes(h)) = Len(h) /\ Len(Volumes(g)) = Len(g)
        /\ Len(Highs(h)) = Len(h) /\ Len(Highs(g)) = Len(g)
        /\ Len(Lows(h)) = Len(h) /\ Len(Lows(g)) = Len(g)
    BY ValuesAre
  <1>3. /\ \A i \in 1 .. Len(h) :
                /\ Closes(h)[i] = h[i].close /\ Volumes(h)[i] = h[i].volume
                /\ Highs(h)[i] = h[i].high /\ Lows(h)[i] = h[i].low
        /\ \A i \in 1 .. Len(g) :
                /\ Closes(g)[i] = g[i].close /\ Volumes(g)[i] = g[i].volume
                /\ Highs(g)[i] = g[i].high /\ Lows(g)[i] = g[i].low
    BY ValuesAre
  <1>. QED BY <1>1, <1>2, <1>3 DEF Begins

(* The features of a series at a value it has had for longer.               *)
Longer(s, t, i) == s \in Seq(Int) /\ t \in Seq(Int) /\ Begins(s, t) /\ i \in 1 .. Len(s)

SameAt(s, t, i, period) ==
    /\ Sma(t, period)[i] = Sma(s, period)[i]
    /\ Ema(t, period)[i] = Ema(s, period)[i]
    /\ Rsi(t, period)[i] = Rsi(s, period)[i]
    /\ Returns(t, period)[i] = Returns(s, period)[i]
    /\ ZScore(t, period)[i] = ZScore(s, period)[i]
    /\ RollingHigh(t, period)[i] = RollingHigh(s, period)[i]
    /\ RollingLow(t, period)[i] = RollingLow(s, period)[i]

LEMMA GrownBegins ==
    ASSUME NEW s, NEW t, NEW i, Longer(s, t, i), NEW period \in Nat \ {0}
    PROVE  SameAt(s, t, i, period)
  <1>1. s \in Seq(Int) /\ t \in Seq(Int) /\ Begins(s, t) /\ i \in 1 .. Len(s)
    BY DEF Longer
  <1>2. Sma(t, period)[i] = Sma(s, period)[i]
    BY <1>1, SmaBegins
  <1>3. Smoothed(t, period, 2, period + 1)[i] = Smoothed(s, period, 2, period + 1)[i]
    <2>1. 2 \in Int /\ period + 1 \in Int
      OBVIOUS
    <2>. QED BY <1>1, <2>1, SmoothedBegins
  <1>4. Rsi(t, period)[i] = Rsi(s, period)[i]
    BY <1>1, RsiBegins
  <1>5. Returns(t, period)[i] = Returns(s, period)[i]
    BY <1>1, ReturnsBegin
  <1>6. ZScore(t, period)[i] = ZScore(s, period)[i]
    BY <1>1, ZScoreBegins
  <1>7. \A highest : RollingExtreme(t, period, highest)[i] = RollingExtreme(s, period, highest)[i]
    BY <1>1, ExtremeBegins
  <1>8. /\ RollingExtreme(t, period, TRUE)[i] = RollingExtreme(s, period, TRUE)[i]
        /\ RollingExtreme(t, period, FALSE)[i] = RollingExtreme(s, period, FALSE)[i]
    BY ONLY <1>7, Zenon
  <1>. QED BY <1>2, <1>3, <1>4, <1>5, <1>6, <1>8
           DEF Ema, RollingHigh, RollingLow, SameAt

(* The features that the evidence of a bar is read from.                    *)
SameFeatures(f, g, i) ==
    /\ g.sma[i] = f.sma[i] /\ g.ema[i] = f.ema[i] /\ g.rsi[i] = f.rsi[i]
    /\ g.return[i] = f.return[i] /\ g.volume[i] = f.volume[i] /\ g.zscore[i] = f.zscore[i]
    /\ Prior(g.high, i) = Prior(f.high, i) /\ Prior(g.low, i) = Prior(f.low, i)

LEMMA FeaturesBegin ==
    ASSUME ResearchAssumption,
           NEW h \in Seq(ValidBars), NEW g \in Seq(ValidBars), Begins(h, g), NEW i \in 1 .. Len(h)
    PROVE  SameFeatures(Features(h), Features(g), i)
  <1>1. \A kind \in Kinds : Period[kind] \in Nat \ {0}
    BY DEF ResearchAssumption
  <1>2. /\ Begins(Closes(h), Closes(g)) /\ Begins(Volumes(h), Volumes(g))
        /\ Begins(Highs(h), Highs(g)) /\ Begins(Lows(h), Lows(g))
    BY OneMoreBar
  <1>3. /\ Closes(h) \in Seq(Int) /\ Volumes(h) \in Seq(Int)
        /\ Highs(h) \in Seq(Int) /\ Lows(h) \in Seq(Int)
        /\ Closes(g) \in Seq(Int) /\ Volumes(g) \in Seq(Int)
        /\ Highs(g) \in Seq(Int) /\ Lows(g) \in Seq(Int)
        /\ i \in 1 .. Len(Closes(h)) /\ i \in 1 .. Len(Volumes(h))
        /\ i > 1 => i - 1 \in 1 .. Len(Highs(h)) /\ i - 1 \in 1 .. Len(Lows(h))
    BY ValuesAre
  <1>4. /\ Period["sma"] \in Nat \ {0} /\ Period["ema"] \in Nat \ {0} /\ Period["rsi"] \in Nat \ {0}
        /\ Period["high"] \in Nat \ {0} /\ Period["low"] \in Nat \ {0}
        /\ Period["return"] \in Nat \ {0} /\ Period["volume"] \in Nat \ {0}
        /\ Period["zscore"] \in Nat \ {0}
    BY <1>1 DEF Kinds
  <1>5. Longer(Closes(h), Closes(g), i) /\ Longer(Volumes(h), Volumes(g), i)
    BY <1>2, <1>3 DEF Longer
  <1>6. i > 1 => Longer(Highs(h), Highs(g), i - 1) /\ Longer(Lows(h), Lows(g), i - 1)
    BY <1>2, <1>3 DEF Longer
  <1>7. /\ SameAt(Closes(h), Closes(g), i, Period["sma"])
        /\ SameAt(Closes(h), Closes(g), i, Period["ema"])
        /\ SameAt(Closes(h), Closes(g), i, Period["rsi"])
        /\ SameAt(Closes(h), Closes(g), i, Period["return"])
        /\ SameAt(Volumes(h), Volumes(g), i, Period["volume"])
        /\ SameAt(Volumes(h), Volumes(g), i, Period["zscore"])
    BY ONLY <1>4, <1>5, GrownBegins
  <1>8. i > 1 => /\ SameAt(Highs(h), Highs(g), i - 1, Period["high"])
                 /\ SameAt(Lows(h), Lows(g), i - 1, Period["low"])
    BY ONLY <1>4, <1>6, GrownBegins
  <1>9. i = 1 \/ i > 1
    OBVIOUS
  <1>. QED BY <1>7, <1>8, <1>9 DEF SameAt, SameFeatures, Features, Prior, Highs, Lows

(* What an analysis says of a bar.                                          *)
SameVerdicts(h, g, i) ==
    /\ Analyze(g).evidence[i] = Analyze(h).evidence[i]
    /\ Analyze(g).setups[i] = Analyze(h).setups[i]
    /\ Analyze(g).regime[i] = Analyze(h).regime[i]

LEMMA VerdictsBegin ==
    ASSUME ResearchAssumption,
           NEW h \in Seq(ValidBars), NEW g \in Seq(ValidBars), Begins(h, g), NEW i \in 1 .. Len(h)
    PROVE  SameVerdicts(h, g, i)
  <1> DEFINE e == Features(h)
             f == Features(g)
  <1>1. SameFeatures(e, f, i)
    BY FeaturesBegin
  <1>2. i \in DOMAIN h /\ i \in DOMAIN g /\ g[i] = h[i]
    BY DEF Begins
  <1> HIDE DEF e, f
  <1>3. \A key \in EvidenceKeys : Sources(key, f, i) = Sources(key, e, i)
    BY <1>1 DEF Sources, SameFeatures, EvidenceKeys
  <1>4. Evidence(g, f)[i] = Evidence(h, e)[i]
    BY <1>2, <1>3 DEF Evidence
  <1>5. i \in DOMAIN Evidence(g, f) /\ i \in DOMAIN Evidence(h, e)
    BY <1>2 DEF Evidence
  <1>6. Setups(Evidence(g, f))[i] = Setups(Evidence(h, e))[i]
    BY <1>4, <1>5 DEF Setups
  <1>7. Regime(g, f)[i] = Regime(h, e)[i]
    BY <1>1, <1>2 DEF Regime, SameFeatures
  <1>8. /\ Analyze(g).evidence = Evidence(g, f) /\ Analyze(h).evidence = Evidence(h, e)
        /\ Analyze(g).setups = Setups(Evidence(g, f)) /\ Analyze(h).setups = Setups(Evidence(h, e))
        /\ Analyze(g).regime = Regime(g, f) /\ Analyze(h).regime = Regime(h, e)
    BY DEF Analyze, e, f
  <1>. QED BY <1>4, <1>6, <1>7, <1>8 DEF SameVerdicts

LEMMA Appended ==
    ASSUME NEW S, NEW s \in Seq(S), NEW x \in S
    PROVE  Append(s, x) \in Seq(S) /\ Begins(s, Append(s, x)) /\ Len(Append(s, x)) = Len(s) + 1
  BY DEF Begins

(* For any bars: another bar changes no evidence, setup or regime of a bar  *)
(* before it, however the features slide, smooth and rank.                  *)
THEOREM NothingRepaints == SeriesAssumption /\ ResearchAssumption /\ SeriesSpec => NoRepaint
  <1> DEFINE Kept == \A i \in DOMAIN bars :
                        /\ research'.evidence[i] = research.evidence[i]
                        /\ research'.setups[i] = research.setups[i]
                        /\ research'.regime[i] = research.regime[i]
  <1>1. ASSUME SeriesInv, SeriesNext PROVE Kept
    <2>1. PICK b \in Bars : bars' = Append(bars, b) /\ research' = Analyze(bars')
      BY <1>1 DEF SeriesNext, AddBar
    <2>2. /\ SeriesAssumption /\ ResearchAssumption /\ bars \in Seq(ValidBars)
          /\ research = Analyze(bars)
      BY <1>1 DEF SeriesInv
    <2>3. bars' \in Seq(ValidBars) /\ Begins(bars, bars')
      BY <2>1, <2>2, Appended DEF SeriesAssumption
    <2>4. \A i \in 1 .. Len(bars) : SameVerdicts(bars, bars', i)
      BY <2>2, <2>3, VerdictsBegin
    <2>5. DOMAIN bars = 1 .. Len(bars)
      BY <2>2
    <2>. QED BY <2>1, <2>2, <2>4, <2>5 DEF SameVerdicts
  <1>2. SeriesInv /\ [SeriesNext]_seriesVars => [Kept]_seriesVars
    BY <1>1
  <1> HIDE DEF Kept
  <1>3. SeriesAssumption /\ ResearchAssumption /\ SeriesSpec => [][Kept]_seriesVars
    BY <1>2, SeriesInvariant, PTL DEF SeriesSpec
  <1>. QED BY <1>3 DEF NoRepaint, Kept

-----------------------------------------------------------------------------
(* Another bar changes no trade that ended by itself, or before the series. *)
LEMMA TradeGrows ==
    ASSUME SeriesAssumption, NEW h \in Seq(ValidBars), NEW g \in Seq(ValidBars), Begins(h, g),
           NEW s \in 1 .. Len(h) - 1, NEW key \in Keys
    PROVE  LET t == Trade(h, s, key)
               u == Trade(g, s, key)
           IN /\ u.entry = t.entry
              /\ u = t \/ (t.result = "timeout" /\ t.exit = Len(h))
  <1> DEFINE t == Trade(h, s, key)
             u == Trade(g, s, key)
             Stop(i) == StopHit(h[i], h[s + 1].open, key)
             Target(i) == TargetHit(h[i], h[s + 1].open, key)
  <1>0. /\ Len(h) \in Nat /\ Len(g) \in Nat /\ Len(h) <= Len(g) /\ MaxHold \in Nat \ {0}
        /\ \A i \in 1 .. Len(h) : g[i] = h[i]
        /\ s \in 1 .. Len(g) - 1 /\ s + 1 \in 1 .. Len(h)
    BY DEF Begins, SeriesAssumption
  <1>1. /\ t \in TradeType /\ t.signal = s /\ t.entry = s + 1 /\ t.exit \in s + 1 .. Len(h)
        /\ t.exit <= s + MaxHold
        /\ \A i \in s + 1 .. t.exit - 1 : ~Stop(i) /\ ~Target(i)
        /\ Stop(t.exit) <=> t.result = "loss"
        /\ t.result = "timeout" => t.exit = Least(s + MaxHold, Len(h)) /\ ~Target(t.exit)
        /\ t.result = "win" => Target(t.exit)
    BY TradeIs
  <1>2. /\ u \in TradeType /\ u.signal = s /\ u.entry = s + 1 /\ u.exit \in s + 1 .. Len(g)
        /\ u.exit <= s + MaxHold
        /\ \A i \in s + 1 .. u.exit - 1 : i <= Len(h) => ~Stop(i) /\ ~Target(i)
        /\ u.exit <= Len(h) => /\ Stop(u.exit) <=> u.result = "loss"
                               /\ u.result = "timeout" => ~Target(u.exit)
                               /\ u.result = "win" => Target(u.exit)
        /\ u.result = "timeout" => u.exit = Least(s + MaxHold, Len(g))
    <2>1. /\ u \in TradeType /\ u.signal = s /\ u.entry = s + 1 /\ u.exit \in s + 1 .. Len(g)
          /\ u.exit <= s + MaxHold
          /\ \A i \in s + 1 .. u.exit - 1 :
                ~StopHit(g[i], g[s + 1].open, key) /\ ~TargetHit(g[i], g[s + 1].open, key)
          /\ StopHit(g[u.exit], g[s + 1].open, key) <=> u.result = "loss"
          /\ u.result = "timeout" => /\ u.exit = Least(s + MaxHold, Len(g))
                                     /\ ~TargetHit(g[u.exit], g[s + 1].open, key)
          /\ u.result = "win" => TargetHit(g[u.exit], g[s + 1].open, key)
      BY <1>0, TradeIs
    <2>2. \A i \in s + 1 .. Len(h) :
            /\ StopHit(g[i], g[s + 1].open, key) <=> Stop(i)
            /\ TargetHit(g[i], g[s + 1].open, key) <=> Target(i)
      <3>1. \A i \in s + 1 .. Len(h) : i \in 1 .. Len(h)
        OBVIOUS
      <3>. QED BY <1>0, <3>1
    <2>3. \A i \in s + 1 .. u.exit - 1 : i <= Len(h) => i \in s + 1 .. Len(h)
      BY <1>0, <2>1
    <2>4. u.exit <= Len(h) => u.exit \in s + 1 .. Len(h)
      BY <1>0, <2>1
    <2> HIDE DEF u, Stop, Target
    <2>. QED BY <2>1, <2>2, <2>3, <2>4
  <1> HIDE DEF t, u, Stop, Target
  <1>3. /\ t.result \in {"win", "loss", "timeout"} /\ u.result \in {"win", "loss", "timeout"}
        /\ t.exit \in Nat /\ u.exit \in Nat
    BY <1>1, <1>2 DEF TradeType
  <1>4. ASSUME ~(t.result = "timeout" /\ t.exit = Len(h))
        PROVE  u.exit = t.exit /\ u.result = t.result
    <2>1. CASE t.result # "timeout"
      <3>1. Stop(t.exit) \/ Target(t.exit)
        BY <1>1, <1>3, <2>1
      <3>2. ~(t.exit < u.exit)
        <4> SUFFICES ASSUME t.exit < u.exit PROVE FALSE
          OBVIOUS
        <4>1. t.exit \in s + 1 .. u.exit - 1 /\ t.exit <= Len(h)
          BY <1>0, <1>1, <1>3
        <4>. QED BY <1>2, <3>1, <4>1
      <3>3. ~(u.exit < t.exit)
        <4> SUFFICES ASSUME u.exit < t.exit PROVE FALSE
          OBVIOUS
        <4>1. u.exit \in s + 1 .. t.exit - 1 /\ u.exit <= Len(h)
          BY <1>0, <1>1, <1>2, <1>3
        <4>2. ~Stop(u.exit) /\ ~Target(u.exit)
          BY <1>1, <4>1
        <4>3. u.result = "timeout"
          BY <1>2, <1>3, <4>1, <4>2
        <4>4. u.exit = Least(s + MaxHold, Len(g))
          BY <1>2, <4>3
        <4>. QED BY <1>0, <1>1, <1>3, <4>4 DEF Least
      <3>4. u.exit = t.exit /\ u.exit <= Len(h)
        BY <1>0, <1>1, <1>3, <3>2, <3>3
      <3>. QED BY <1>1, <1>2, <1>3, <2>1, <3>4
    <2>2. CASE t.result = "timeout"
      <3>1. t.exit = s + MaxHold /\ t.exit < Len(h) /\ ~Stop(t.exit) /\ ~Target(t.exit)
        BY <1>0, <1>1, <1>3, <1>4, <2>2 DEF Least
      <3>2. ~(u.exit < t.exit)
        <4> SUFFICES ASSUME u.exit < t.exit PROVE FALSE
          OBVIOUS
        <4>1. u.exit \in s + 1 .. t.exit - 1 /\ u.exit <= Len(h)
          BY <1>0, <1>1, <1>2, <1>3
        <4>2. ~Stop(u.exit) /\ ~Target(u.exit)
          BY <1>1, <4>1
        <4>3. u.exit = Least(s + MaxHold, Len(g))
          BY <1>2, <1>3, <4>1, <4>2
        <4>. QED BY <1>0, <1>3, <3>1, <4>3 DEF Least
      <3>3. u.exit = t.exit /\ u.exit <= Len(h)
        BY <1>0, <1>2, <1>3, <3>1, <3>2
      <3>4. u.result = "timeout"
        BY <1>2, <1>3, <3>1, <3>3
      <3>. QED BY <2>2, <3>3, <3>4
    <2>. QED BY <2>1, <2>2
  <1>5. u = t \/ (t.result = "timeout" /\ t.exit = Len(h))
    <2>1. u.exit = t.exit /\ u.result = t.result => u = t
      BY <1>1, <1>2 DEF TradeType
    <2>. QED BY <1>4, <2>1
  <1>. QED BY <1>1, <1>2, <1>5 DEF t, u

(* Trades after another bar, in a series that had n bars.                   *)
GoesOn(before, after, n) ==
    /\ Len(before) <= Len(after)
    /\ \A m \in 1 .. Len(before) :
        /\ after[m].entry = before[m].entry
        /\ after[m] = before[m] \/ (m = Len(before) /\ before[m].result = "timeout"
                                    /\ before[m].exit = n)

LEMMA FirstGoesOn ==
    ASSUME NEW n, NEW t \in TradeType, NEW rest \in Seq(TradeType), NEW more \in Seq(TradeType),
           GoesOn(rest, more, n)
    PROVE  GoesOn(<<t>> \o rest, <<t>> \o more, n)
  <1> DEFINE x == <<t>> \o rest
             y == <<t>> \o more
  <1>1. /\ Len(x) = Len(rest) + 1 /\ Len(y) = Len(more) + 1 /\ Len(rest) \in Nat /\ Len(more) \in Nat
        /\ x[1] = t /\ y[1] = t
        /\ \A m \in 1 .. Len(rest) : x[m + 1] = rest[m]
        /\ \A m \in 1 .. Len(more) : y[m + 1] = more[m]
    OBVIOUS
  <1>2. Len(rest) <= Len(more)
    BY DEF GoesOn
  <1> HIDE DEF x, y
  <1>3. ASSUME NEW m \in 1 .. Len(x)
        PROVE  /\ y[m].entry = x[m].entry
               /\ y[m] = x[m] \/ (m = Len(x) /\ x[m].result = "timeout" /\ x[m].exit = n)
    <2>1. CASE m = 1
      BY <1>1, <2>1
    <2>2. CASE m # 1
      <3> DEFINE k == m - 1
      <3>1. k \in 1 .. Len(rest) /\ k \in 1 .. Len(more) /\ k + 1 = m /\ (k = Len(rest) => m = Len(x))
        BY <1>1, <1>2, <2>2
      <3> HIDE DEF k
      <3>2. x[m] = rest[k] /\ y[m] = more[k]
        BY <1>1, <3>1
      <3>3. /\ more[k].entry = rest[k].entry
            /\ more[k] = rest[k] \/ (k = Len(rest) /\ rest[k].result = "timeout" /\ rest[k].exit = n)
        BY <3>1 DEF GoesOn
      <3>. QED BY <3>1, <3>2, <3>3
    <2>. QED BY <2>1, <2>2
  <1>4. Len(x) <= Len(y)
    BY <1>1, <1>2
  <1>. QED BY <1>3, <1>4 DEF GoesOn, x, y

LEMMA TradesGoOn ==
    ASSUME SeriesAssumption, NEW h \in Seq(ValidBars), NEW g \in Seq(ValidBars), Begins(h, g),
           Len(g) = Len(h) + 1, NEW key \in Keys, NEW old, NEW new,
           \A s \in 1 .. Len(h) : new[s][key] = old[s][key]
    PROVE  GoesOn(Trades(h, old, key, 1), Trades(g, new, key, 1), Len(h))
  <1> DEFINE N == Len(h)
             D == 1 .. N + 1
             r == [s \in D |-> N + 1 - s]
  <1>1. PICK f : Walk(h, old, key, 1, f) /\ Trades(h, old, key, 1) = f[Most(1, 1 - 1)]
    BY Walks
  <1>2. PICK e : Walk(g, new, key, 1, e) /\ Trades(g, new, key, 1) = e[Most(1, 1 - 1)]
    BY Walks
  <1>3. Most(1, 1 - 1) = 1
    BY DEF Most
  <1>4. N \in Nat /\ \A s \in 1 .. N : g[s] = h[s]
    BY DEF Begins
  <1>5. /\ \A s \in D : f[s] \in Seq(TradeType) /\ f[s] = WalkStep(h, old, key, 1, f, s)
        /\ \A s \in D : e[s] \in Seq(TradeType) /\ e[s] = WalkStep(g, new, key, 1, e, s)
    <2>1. \A s \in D : s \in 1 .. Len(g) + 1
      BY <1>4
    <2>. QED BY <1>1, <1>2, <2>1 DEF Walk
  <1> DEFINE S == {s \in D : GoesOn(f[s], e[s], N)}
  <1>6. ASSUME NEW s \in D, s >= N PROVE s \in S
    <2>1. f[s] = <<>>
      BY <1>5, <1>6 DEF WalkStep
    <2>2. Len(e[s]) \in Nat
      BY <1>5
    <2>. QED BY <2>1, <2>2 DEF GoesOn
  <1>7. ASSUME NEW s \in D, ~(s >= N), \A j \in D : j > s => j \in S PROVE s \in S
    <2>1. s + 1 \in D /\ s + 2 \in D /\ s \in 1 .. N - 1 /\ s \in 1 .. N /\ s + 1 \in 1 .. N
          /\ ~(s >= Len(g)) /\ ~(s + 1 < 1)
      BY <1>4, <1>7
    <2>2. new[s][key] = old[s][key] /\ g[s + 1] = h[s + 1]
      BY <1>4, <2>1
    <2>3. GoesOn(f[s + 1], e[s + 1], N) /\ GoesOn(f[s + 2], e[s + 2], N)
      BY <1>7, <2>1
    <2>4. CASE old[s][key] # "ACTIVE"
      <3>1. f[s] = f[s + 1] /\ e[s] = e[s + 1]
        BY <1>5, <1>7, <2>1, <2>2, <2>4 DEF WalkStep
      <3>. QED BY <2>3, <3>1
    <2>5. CASE old[s][key] = "ACTIVE" /\ h[s + 1].open <= 0
      <3>1. f[s] = f[s + 2] /\ e[s] = e[s + 2]
        BY <1>5, <1>7, <2>1, <2>2, <2>5 DEF WalkStep
      <3>. QED BY <2>3, <3>1
    <2>6. CASE old[s][key] = "ACTIVE" /\ ~(h[s + 1].open <= 0)
      <3> DEFINE t == Trade(h, s, key)
                 u == Trade(g, s, key)
      <3>1. f[s] = <<t>> \o f[Resume(t)] /\ e[s] = <<u>> \o e[Resume(u)]
        BY <1>5, <1>7, <2>1, <2>2, <2>6 DEF WalkStep
      <3>2. /\ t \in TradeType /\ t.exit \in s + 1 .. N /\ Resume(t) \in D /\ Resume(t) > s
        <4>1. t \in TradeType /\ t.exit \in s + 1 .. N
          BY <2>1, TradeIs
        <4>. QED BY <1>4, <4>1 DEF Resume
      <3>3. u \in TradeType /\ e[Resume(u)] \in Seq(TradeType)
        <4>1. s \in 1 .. Len(g) - 1
          BY <1>4, <2>1
        <4>2. u \in TradeType /\ u.exit \in s + 1 .. Len(g)
          BY <4>1, TradeIs
        <4>3. Resume(u) \in 1 .. Len(g) + 1
          BY <1>4, <4>2 DEF Resume
        <4>. QED BY <1>2, <4>2, <4>3 DEF Walk
      <3>4. u.entry = t.entry /\ (u = t \/ (t.result = "timeout" /\ t.exit = N))
        BY <2>1, TradeGrows
      <3>5. GoesOn(f[Resume(t)], e[Resume(t)], N) /\ f[Resume(t)] \in Seq(TradeType)
            /\ e[Resume(t)] \in Seq(TradeType)
        BY <1>5, <1>7, <3>2
      <3> HIDE DEF t, u
      <3>6. CASE u = t
        <4>1. GoesOn(<<t>> \o f[Resume(t)], <<t>> \o e[Resume(t)], N)
          BY <3>2, <3>5, FirstGoesOn
        <4>. QED BY <3>1, <3>6, <4>1
      <3>7. CASE t.result = "timeout" /\ t.exit = N
        <4>1. f[Resume(t)] = <<>>
          <5>1. Resume(t) \in D /\ Resume(t) >= N
            BY <1>4, <3>2, <3>7 DEF Resume
          <5>. QED BY <1>5, <5>1 DEF WalkStep
        <4>2. Len(f[s]) = 1 /\ f[s][1] = t
          BY <3>1, <3>2, <4>1
        <4>3. Len(e[s]) >= 1 /\ e[s][1] = u
          BY <3>1, <3>3
        <4>4. GoesOn(f[s], e[s], N)
          BY <3>4, <3>7, <4>2, <4>3 DEF GoesOn
        <4>. QED BY <4>4
      <3>. QED BY <3>4, <3>6, <3>7
    <2>. QED BY <2>4, <2>5, <2>6
  <1>8. ASSUME NEW s \in D, \A j \in D : r[j] < r[s] => j \in S PROVE s \in S
    <2>1. \A j \in D : j > s => r[j] < r[s]
      BY <1>4
    <2>2. \A j \in D : j > s => j \in S
      BY <1>8, <2>1
    <2> HIDE DEF S, r
    <2>. QED BY <1>6, <1>7, <2>2
  <1>9. D \subseteq S
    <2>1. r \in [D -> Nat]
      BY <1>4
    <2> HIDE DEF S, r, D
    <2>. QED BY <1>8, <2>1, RankInduction
  <1>10. 1 \in D
    BY <1>4
  <1>. QED BY <1>1, <1>2, <1>3, <1>9, <1>10

(* For any bars: another bar changes no trade of the backtest, except that  *)
(* one that the end of the series cut off goes on.                          *)
THEOREM TradesAreFinal == SeriesAssumption /\ ResearchAssumption /\ SeriesSpec => PastTradesAreFinal
  <1> DEFINE Kept ==
        \A key \in Keys :
            LET before == research.trades[key]
                after == research'.trades[key]
            IN \A n \in DOMAIN before :
                /\ n \in DOMAIN after
                /\ after[n].entry = before[n].entry
                /\ after[n] = before[n] \/ (n = Len(before) /\ before[n].result = "timeout"
                                            /\ before[n].exit = Len(bars))
  <1>1. ASSUME SeriesInv, SeriesNext PROVE Kept
    <2>1. PICK b \in Bars : bars' = Append(bars, b) /\ research' = Analyze(bars')
      BY <1>1 DEF SeriesNext, AddBar
    <2>2. /\ SeriesAssumption /\ ResearchAssumption /\ bars \in Seq(ValidBars)
          /\ research = Analyze(bars)
      BY <1>1 DEF SeriesInv
    <2>3. bars' \in Seq(ValidBars) /\ Begins(bars, bars') /\ Len(bars') = Len(bars) + 1
      BY <2>1, <2>2, Appended DEF SeriesAssumption
    <2>4. \A i \in 1 .. Len(bars) : research'.setups[i] = research.setups[i]
      BY <2>1, <2>2, <2>3, VerdictsBegin DEF SameVerdicts
    <2>5. ASSUME NEW key \in Keys
          PROVE  LET before == research.trades[key]
                     after == research'.trades[key]
                 IN \A n \in DOMAIN before :
                    /\ n \in DOMAIN after
                    /\ after[n].entry = before[n].entry
                    /\ after[n] = before[n] \/ (n = Len(before) /\ before[n].result = "timeout"
                                                /\ before[n].exit = Len(bars))
      <3> DEFINE before == Trades(bars, research.setups, key, 1)
                 after == Trades(bars', research'.setups, key, 1)
      <3>1. research.trades[key] = before /\ research'.trades[key] = after
        BY <2>1, <2>2 DEF Analyze
      <3>2. GoesOn(before, after, Len(bars))
        BY <2>2, <2>3, <2>4, TradesGoOn
      <3>3. before \in Seq(TradeType) /\ after \in Seq(TradeType)
        <4>1. Most(1, 1 - 1) = 1
          BY DEF Most
        <4>2. 1 \in 1 .. Len(bars) + 1 /\ 1 \in 1 .. Len(bars') + 1
          BY <2>2, <2>3
        <4>3. before \in Seq(TradeType)
          <5>1. PICK f : Walk(bars, research.setups, key, 1, f) /\ before = f[Most(1, 1 - 1)]
            BY <2>2, Walks
          <5>. QED BY <4>1, <4>2, <5>1 DEF Walk
        <4>4. after \in Seq(TradeType)
          <5>1. PICK f : Walk(bars', research'.setups, key, 1, f) /\ after = f[Most(1, 1 - 1)]
            BY <2>2, <2>3, Walks
          <5>. QED BY <4>1, <4>2, <5>1 DEF Walk
        <4>. QED BY <4>3, <4>4
      <3> HIDE DEF before, after
      <3>4. DOMAIN before = 1 .. Len(before) /\ DOMAIN after = 1 .. Len(after)
            /\ Len(before) \in Nat /\ Len(after) \in Nat
        BY <3>3
      <3>5. \A n \in 1 .. Len(before) : n \in 1 .. Len(after)
        <4>1. Len(before) <= Len(after)
          BY ONLY <3>2 DEF GoesOn
        <4>. QED BY ONLY <3>4, <4>1
      <3>. QED BY <3>1, <3>2, <3>4, <3>5 DEF GoesOn
    <2>. QED BY <2>5
  <1>2. SeriesInv /\ [SeriesNext]_seriesVars => [Kept]_seriesVars
    BY <1>1
  <1> HIDE DEF Kept
  <1>3. SeriesAssumption /\ ResearchAssumption /\ SeriesSpec => [][Kept]_seriesVars
    BY <1>2, SeriesInvariant, PTL DEF SeriesSpec
  <1>. QED BY <1>3 DEF PastTradesAreFinal, Kept

(* For any bars: what the research said of the past is final.               *)
THEOREM FinalResearch == SeriesAssumption /\ ResearchAssumption /\ SeriesSpec => ResearchIsFinal
  BY NothingRepaints, TradesAreFinal DEF ResearchIsFinal
-----------------------------------------------------------------------------
(* Products, for the solver.                                                *)
LEMMA Product ==
    ASSUME NEW a \in Int, NEW b \in Int, NEW c \in Nat, a <= b
    PROVE  a * c \in Int /\ b * c \in Int /\ a * c <= b * c
  OBVIOUS

LEMMA SumBounds ==
    ASSUME NEW values, NEW n \in Nat, \A i \in 1 .. n : values[i] \in Int, NEW m \in Int
    PROVE  /\ (\A i \in 1 .. n : values[i] <= m) => SumOf(values, 1, n) <= m * n
           /\ (\A i \in 1 .. n : values[i] >= m) => SumOf(values, 1, n) >= m * n
  <1>1. PICK sum : SumFrom(values, 1, n, sum) /\ SumOf(values, 1, n) = sum[n]
    BY SumExists
  <1>2. /\ sum[0] = 0 /\ \A i \in 0 .. n : sum[i] \in Int
        /\ \A i \in 0 .. n : i > 0 => i \in 1 .. n /\ i - 1 \in 0 .. n /\ sum[i] = sum[i - 1] + values[i]
    BY <1>1 DEF SumFrom
  <1>3. \A i \in 0 .. n : m * i \in Int /\ m * i = m * (i - 1) + m
    OBVIOUS
  <1>4. m * 0 = 0
    OBVIOUS
  <1>5. ASSUME \A i \in 1 .. n : values[i] <= m PROVE sum[n] <= m * n
    <2> DEFINE S == {i \in 0 .. n : sum[i] <= m * i}
    <2>1. 0 \in S
      BY <1>2, <1>4
    <2>2. ASSUME NEW i \in 0 .. n, i > 0, i - 1 \in S PROVE i \in S
      <3>1. sum[i - 1] <= m * (i - 1) /\ values[i] <= m /\ sum[i] = sum[i - 1] + values[i]
        BY <1>2, <1>5, <2>2
      <3>2. sum[i] <= m * (i - 1) + m
        <4>1. sum[i - 1] \in Int /\ values[i] \in Int /\ m * (i - 1) \in Int
          BY <1>2, <2>2
        <4>. QED BY <3>1, <4>1
      <3>. QED BY <1>3, <3>2
    <2> HIDE DEF S
    <2>3. Inductive(0, n, S)
      BY <2>1, <2>2 DEF Inductive
    <2>4. n \in S
      BY <2>3, IntervalInduction
    <2>. QED BY <2>4 DEF S
  <1>6. ASSUME \A i \in 1 .. n : values[i] >= m PROVE sum[n] >= m * n
    <2> DEFINE S == {i \in 0 .. n : sum[i] >= m * i}
    <2>1. 0 \in S
      BY <1>2, <1>4
    <2>2. ASSUME NEW i \in 0 .. n, i > 0, i - 1 \in S PROVE i \in S
      <3>1. sum[i - 1] >= m * (i - 1) /\ values[i] >= m /\ sum[i] = sum[i - 1] + values[i]
        BY <1>2, <1>6, <2>2
      <3>2. sum[i] >= m * (i - 1) + m
        <4>1. sum[i - 1] \in Int /\ values[i] \in Int /\ m * (i - 1) \in Int
          BY <1>2, <2>2
        <4>. QED BY <3>1, <4>1
      <3>. QED BY <1>3, <3>2
    <2> HIDE DEF S
    <2>3. Inductive(0, n, S)
      BY <2>1, <2>2 DEF Inductive
    <2>4. n \in S
      BY <2>3, IntervalInduction
    <2>. QED BY <2>4 DEF S
  <1>. QED BY <1>1, <1>5, <1>6

(* A moving average stays on its side of a bound of its values.             *)
Positive(x) == x.num \in Int /\ x.den \in Nat /\ x.den > 0
NotOver(x, m) == x.num <= m * x.den
NotUnder(x, m) == x.num >= m * x.den

LEMMA MoveIs ==
    ASSUME NEW x, Positive(x), NEW value \in Int, NEW weight \in Nat, NEW den \in Nat \ {0},
           weight <= den, NEW m \in Int
    PROVE  LET y == Move(x, value, weight, den) IN
           /\ Positive(y)
           /\ value <= m /\ NotOver(x, m) => NotOver(y, m)
           /\ value >= m /\ NotUnder(x, m) => NotUnder(y, m)
  <1> DEFINE a == x.num
             d == x.den
             rest == den - weight
  <1>1. a \in Int /\ d \in Nat /\ d > 0 /\ rest \in Nat
    BY DEF Positive
  <1>2. Move(x, value, weight, den)
            = [status |-> "AVAILABLE", num |-> weight * value * d + rest * a, den |-> den * d]
    BY DEF Move, Available
  <1> HIDE DEF a, d, rest
  <1>3. /\ weight * value * d \in Int /\ rest * a \in Int /\ den * d \in Nat /\ den * d > 0
        /\ weight * d \in Nat /\ m * (den * d) \in Int
    BY <1>1
  <1>4. m * (den * d) = m * (weight * d) + (m * d) * rest
    <2>1. den = weight + rest
      BY DEF rest
    <2>. QED BY ONLY <1>1, <2>1, m \in Int, weight \in Nat
  <1>5. weight * value * d = value * (weight * d) /\ rest * a = a * rest /\ m * d \in Int
    BY <1>1
  <1>6. value <= m => value * (weight * d) <= m * (weight * d)
    BY <1>3, Product
  <1>7. m <= value => m * (weight * d) <= value * (weight * d)
    BY <1>3, Product
  <1>8. a <= m * d => a * rest <= (m * d) * rest
    BY <1>1, <1>5, Product
  <1>9. m * d <= a => (m * d) * rest <= a * rest
    BY <1>1, <1>5, Product
  <1>10. /\ value * (weight * d) \in Int /\ m * (weight * d) \in Int
         /\ a * rest \in Int /\ (m * d) * rest \in Int
    BY <1>1, <1>3
  <1> DEFINE y == [status |-> "AVAILABLE", num |-> weight * value * d + rest * a, den |-> den * d]
  <1>11. y.num = value * (weight * d) + a * rest /\ y.den = den * d
    BY <1>5
  <1> HIDE DEF y
  <1>12. Positive(y)
    BY <1>3, <1>10, <1>11 DEF Positive
  <1>13. value <= m /\ NotOver(x, m) => NotOver(y, m)
    <2>1. NotOver(x, m) => a <= m * d
      BY DEF NotOver, a, d
    <2>. QED BY <1>4, <1>6, <1>8, <1>10, <1>11, <2>1 DEF NotOver
  <1>14. value >= m /\ NotUnder(x, m) => NotUnder(y, m)
    <2>1. NotUnder(x, m) => m * d <= a
      BY <1>1, <1>5 DEF NotUnder, a, d
    <2>. QED BY <1>4, <1>7, <1>9, <1>10, <1>11, <2>1 DEF NotUnder
  <1>. QED BY <1>2, <1>12, <1>13, <1>14 DEF y

LEMMA SmoothedBounds ==
    ASSUME NEW values \in Seq(Int), NEW period \in Nat \ {0}, NEW weight \in Nat,
           NEW den \in Nat \ {0}, weight <= den, NEW i \in 1 .. Len(values), i >= period,
           NEW m \in Int
    PROVE  LET x == Smoothed(values, period, weight, den)[i] IN
           /\ Positive(x)
           /\ (\A j \in 1 .. i : values[j] <= m) => NotOver(x, m)
           /\ (\A j \in 1 .. i : values[j] >= m) => NotUnder(x, m)
  <1> DEFINE a == Smoothed(values, period, weight, den)
             Bounded(k) == /\ Positive(a[k])
                           /\ (\A j \in 1 .. i : values[j] <= m) => NotOver(a[k], m)
                           /\ (\A j \in 1 .. i : values[j] >= m) => NotUnder(a[k], m)
             S == {k \in period .. i : Bounded(k)}
  <1>1. Averages(values, period, weight, den, a)
    BY SmoothedIs
  <1> HIDE DEF a
  <1>2. i \in Nat /\ period \in Nat /\ \A k \in period .. i : k \in 1 .. Len(values) /\ k \in 1 .. i
                                                            /\ values[k] \in Int
    OBVIOUS
  <1>3. period \in S
    <2>1. a[period] = Available(SumOf(values, 1, period), period)
      <3>1. period \in 1 .. Len(values)
        BY <1>2
      <3>. QED BY <1>1, <3>1 DEF Averages
    <2>2. \A j \in 1 .. period : values[j] \in Int /\ j \in 1 .. i
      BY <1>2
    <2>3. SumOf(values, 1, period) \in Int
      BY <2>2, SumMoves
    <2>4. /\ (\A j \in 1 .. period : values[j] <= m) => SumOf(values, 1, period) <= m * period
          /\ (\A j \in 1 .. period : values[j] >= m) => SumOf(values, 1, period) >= m * period
      BY <2>2, SumBounds
    <2>5. /\ a[period].num = SumOf(values, 1, period) /\ a[period].den = period
      BY <2>1 DEF Available
    <2>6. Positive(a[period])
      BY <1>2, <2>3, <2>5 DEF Positive
    <2>7. Bounded(period)
      BY <2>2, <2>4, <2>5, <2>6 DEF NotOver, NotUnder
    <2>8. period \in period .. i
      BY <1>2
    <2>. QED BY <2>7, <2>8
  <1>4. ASSUME NEW k \in period .. i, k > period, k - 1 \in S PROVE k \in S
    <2>1. a[k] = Move(a[k - 1], values[k], weight, den)
      BY <1>1, <1>2, <1>4 DEF Averages
    <2>2. Bounded(k - 1)
      BY <1>4
    <2>3. LET y == Move(a[k - 1], values[k], weight, den) IN
           /\ Positive(y)
           /\ values[k] <= m /\ NotOver(a[k - 1], m) => NotOver(y, m)
           /\ values[k] >= m /\ NotUnder(a[k - 1], m) => NotUnder(y, m)
      BY <1>2, <2>2, MoveIs
    <2>4. Bounded(k)
      BY <1>2, <2>1, <2>2, <2>3
    <2>. QED BY <2>4
  <1>5. i \in S
    <2> HIDE DEF S
    <2>1. Inductive(period, i, S)
      BY <1>2, <1>3, <1>4 DEF Inductive
    <2>2. i \in period .. i
      BY <1>2
    <2>. QED BY <2>1, <2>2, IntervalInduction
  <1>. QED BY <1>5 DEF a

(* A series has a greatest and a least value so far.                        *)
LEMMA Extremes ==
    ASSUME NEW values \in Seq(Int), NEW n \in 1 .. Len(values)
    PROVE  /\ \E j \in 1 .. n : \A k \in 1 .. n : values[k] <= values[j]
           /\ \E j \in 1 .. n : \A k \in 1 .. n : values[k] >= values[j]
  <1> DEFINE Has(i) == /\ \E j \in 1 .. i : \A k \in 1 .. i : values[k] <= values[j]
                       /\ \E j \in 1 .. i : \A k \in 1 .. i : values[k] >= values[j]
             S == {i \in 1 .. n : Has(i)}
  <1>0. n \in Nat /\ n >= 1 /\ \A i \in 1 .. n : i \in Nat /\ values[i] \in Int
    OBVIOUS
  <1>1. 1 \in S
    <2>1. Has(1)
      BY <1>0
    <2>. QED BY <1>0, <2>1
  <1>2. ASSUME NEW i \in 1 .. n, i > 1, i - 1 \in S PROVE i \in S
    <2>1. PICK p \in 1 .. i - 1 : \A k \in 1 .. i - 1 : values[k] <= values[p]
      BY <1>2
    <2>2. PICK q \in 1 .. i - 1 : \A k \in 1 .. i - 1 : values[k] >= values[q]
      BY <1>2
    <2>3. /\ p \in 1 .. i /\ q \in 1 .. i /\ i \in 1 .. i
          /\ \A k \in 1 .. i : (k = i \/ k \in 1 .. i - 1) /\ values[k] \in Int
      BY <1>0
    <2>4. \E j \in 1 .. i : \A k \in 1 .. i : values[k] <= values[j]
      <3>1. CASE values[i] <= values[p]
        BY <2>1, <2>3, <3>1
      <3>2. CASE ~(values[i] <= values[p])
        <4>1. \A k \in 1 .. i : values[k] <= values[i]
          BY <2>1, <2>3, <3>2
        <4>. QED BY <2>3, <4>1
      <3>. QED BY <3>1, <3>2
    <2>5. \E j \in 1 .. i : \A k \in 1 .. i : values[k] >= values[j]
      <3>1. CASE values[i] >= values[q]
        BY <2>2, <2>3, <3>1
      <3>2. CASE ~(values[i] >= values[q])
        <4>1. \A k \in 1 .. i : values[k] >= values[i]
          BY <2>2, <2>3, <3>2
        <4>. QED BY <2>3, <4>1
      <3>. QED BY <3>1, <3>2
    <2>. QED BY <2>4, <2>5
  <1>3. n \in S
    <2> HIDE DEF S
    <2>1. Inductive(1, n, S)
      BY <1>0, <1>1, <1>2 DEF Inductive
    <2>. QED BY <1>0, <2>1, IntervalInduction
  <1>. QED BY <1>3

LEMMA WilderAtZero ==
    ASSUME NEW u \in Seq(Int), NEW period \in Nat \ {0}, NEW k \in 1 .. Len(u), k >= period
    PROVE  LET x == Smoothed(u, period, 1, period)[k] IN
           /\ Positive(x)
           /\ (\A j \in 1 .. k : u[j] >= 0) => NotUnder(x, 0)
           /\ (\A j \in 1 .. k : u[j] <= 0) => NotOver(x, 0)
  <1>1. 1 \in Nat /\ 1 <= period /\ 0 \in Int
    OBVIOUS
  <1>2. \A m \in Int :
           LET x == Smoothed(u, period, 1, period)[k] IN
           /\ Positive(x)
           /\ (\A j \in 1 .. k : u[j] <= m) => NotOver(x, m)
           /\ (\A j \in 1 .. k : u[j] >= m) => NotUnder(x, m)
    BY <1>1, SmoothedBounds
  <1>. QED BY <1>1, <1>2

(* The strength of gains over all movement, between 0 and 100 and 50 for    *)
(* none.                                                                    *)
Strength(x) == Positive(x) /\ NotOver(x, 100) /\ NotUnder(x, 0)

LEMMA RsiBounds ==
    ASSUME NEW s \in Seq(Int), NEW period \in Nat \ {0}, NEW i \in 1 .. Len(s), i > period
    PROVE  /\ Strength(Rsi(s, period)[i])
           /\ (\A j \in 1 .. i : s[j] = s[1]) => Rsi(s, period)[i] = Available(50, 1)
  <1> DEFINE u == Gains(s)
             d == Losses(s)
             k == i - 1
             x == Smoothed(u, period, 1, period)[k]
             y == Smoothed(d, period, 1, period)[k]
  <1>1. /\ u \in Seq(Int) /\ d \in Seq(Int) /\ Len(u) = Len(s) - 1 /\ Len(d) = Len(s) - 1
        /\ \A j \in 1 .. Len(s) - 1 :
            /\ u[j] = Most(s[j + 1] - s[j], 0) /\ d[j] = Most(-(s[j + 1] - s[j]), 0)
            /\ u[j] \in Nat /\ d[j] \in Nat
    BY ChangesAre
  <1>2. Rsi(s, period)[i] = RsiValue(x.num, y.num)
    BY RsiIs
  <1> HIDE DEF u, d
  <1>3. /\ k \in 1 .. Len(u) /\ k \in 1 .. Len(d) /\ k >= period
        /\ \A j \in 1 .. k : j \in 1 .. Len(s) - 1 /\ j \in 1 .. i /\ j + 1 \in 1 .. i
    BY <1>1
  <1> HIDE DEF k
  <1>4. /\ Positive(x)
        /\ (\A j \in 1 .. k : u[j] >= 0) => NotUnder(x, 0)
        /\ (\A j \in 1 .. k : u[j] <= 0) => NotOver(x, 0)
    BY <1>1, <1>3, WilderAtZero
  <1>5. /\ Positive(y)
        /\ (\A j \in 1 .. k : d[j] >= 0) => NotUnder(y, 0)
        /\ (\A j \in 1 .. k : d[j] <= 0) => NotOver(y, 0)
    BY <1>1, <1>3, WilderAtZero
  <1> HIDE DEF x, y
  <1>6. x.num \in Nat /\ y.num \in Nat
    <2>1. \A j \in 1 .. k : u[j] >= 0 /\ d[j] >= 0
      BY <1>1, <1>3
    <2>2. NotUnder(x, 0) /\ NotUnder(y, 0)
      BY <1>4, <1>5, <2>1
    <2>. QED BY <1>4, <1>5, <2>2 DEF Positive, NotUnder
  <1>7. Strength(RsiValue(x.num, y.num))
    <2>1. CASE x.num = 0 /\ y.num = 0
      <3>1. RsiValue(x.num, y.num).num = 50 /\ RsiValue(x.num, y.num).den = 1
        BY <2>1 DEF RsiValue, Available
      <3>. QED BY <3>1 DEF Strength, Positive, NotOver, NotUnder
    <2>2. CASE ~(x.num = 0 /\ y.num = 0)
      <3> DEFINE z == RsiValue(x.num, y.num)
      <3>1. z.num = 100 * x.num /\ z.den = x.num + y.num
        BY <2>2 DEF RsiValue, Available
      <3> HIDE DEF z
      <3>2. /\ z.num \in Int /\ z.den \in Nat /\ z.den > 0
            /\ z.num <= 100 * z.den /\ z.num >= 0 * z.den
        BY <1>6, <2>2, <3>1
      <3>3. Strength(z)
        BY <3>2 DEF Strength, Positive, NotOver, NotUnder
      <3>. QED BY <3>3 DEF z
    <2>. QED BY <2>1, <2>2
  <1>8. ASSUME \A j \in 1 .. i : s[j] = s[1] PROVE RsiValue(x.num, y.num) = Available(50, 1)
    <2>1. ASSUME NEW j \in 1 .. k PROVE u[j] <= 0 /\ d[j] <= 0
      <3>1. j \in 1 .. i /\ j + 1 \in 1 .. i /\ 1 \in 1 .. Len(s)
        BY <1>3
      <3>2. s[j] = s[1] /\ s[j + 1] = s[1] /\ s[1] \in Int
        BY <1>8, <3>1
      <3>3. s[j + 1] - s[j] = 0 /\ -(s[j + 1] - s[j]) = 0
        BY <3>2
      <3>4. u[j] = Most(0, 0) /\ d[j] = Most(0, 0)
        BY <1>1, <1>3, <3>3
      <3>. QED BY <3>4 DEF Most
    <2>2. NotOver(x, 0) /\ NotOver(y, 0)
      BY <1>4, <1>5, <2>1
    <2>3. x.num = 0 /\ y.num = 0
      BY <1>4, <1>5, <1>6, <2>2 DEF NotOver, Positive
    <2>. QED BY <2>3 DEF RsiValue
  <1>. QED BY <1>2, <1>7, <1>8

(* What a rolling high and low are, with the direction filled in.           *)
LEMMA HighIs ==
    ASSUME NEW values \in Seq(Int), NEW period \in Nat \ {0}, NEW i \in 1 .. Len(values)
    PROVE  /\ i < period => RollingHigh(values, period)[i] = Warming
           /\ i >= period => \E k \in i - period + 1 .. i :
                /\ RollingHigh(values, period)[i] = Available(values[k], 1)
                /\ \A j \in i - period + 1 .. i : values[k] >= values[j]
  <1>1. \A highest :
           /\ i < period => RollingExtreme(values, period, highest)[i] = Warming
           /\ i >= period => \E k \in i - period + 1 .. i :
                /\ RollingExtreme(values, period, highest)[i] = Available(values[k], 1)
                /\ \A j \in i - period + 1 .. i : Covers(values[k], values[j], highest)
    BY ExtremeIs
  <1>2. /\ i < period => RollingExtreme(values, period, TRUE)[i] = Warming
        /\ i >= period => \E k \in i - period + 1 .. i :
                /\ RollingExtreme(values, period, TRUE)[i] = Available(values[k], 1)
                /\ \A j \in i - period + 1 .. i : Covers(values[k], values[j], TRUE)
    BY ONLY <1>1, Zenon
  <1>3. ASSUME i >= period
        PROVE  \E k \in i - period + 1 .. i :
                /\ RollingHigh(values, period)[i] = Available(values[k], 1)
                /\ \A j \in i - period + 1 .. i : values[k] >= values[j]
    <2>1. PICK k \in i - period + 1 .. i :
                /\ RollingExtreme(values, period, TRUE)[i] = Available(values[k], 1)
                /\ \A j \in i - period + 1 .. i : Covers(values[k], values[j], TRUE)
      BY ONLY <1>2, <1>3
    <2>2. RollingHigh(values, period)[i] = Available(values[k], 1)
      BY ONLY <2>1 DEF RollingHigh
    <2>3. \A j \in i - period + 1 .. i : values[j] <= values[k]
      BY ONLY <2>1 DEF Covers
    <2>4. \A j \in i - period + 1 .. i : j \in 1 .. Len(values) /\ values[j] \in Int
      BY <1>3
    <2>. QED BY <2>2, <2>3, <2>4
  <1>. QED BY <1>2, <1>3 DEF RollingHigh

LEMMA LowIs ==
    ASSUME NEW values \in Seq(Int), NEW period \in Nat \ {0}, NEW i \in 1 .. Len(values)
    PROVE  /\ i < period => RollingLow(values, period)[i] = Warming
           /\ i >= period => \E k \in i - period + 1 .. i :
                /\ RollingLow(values, period)[i] = Available(values[k], 1)
                /\ \A j \in i - period + 1 .. i : values[k] <= values[j]
  <1>1. \A highest :
           /\ i < period => RollingExtreme(values, period, highest)[i] = Warming
           /\ i >= period => \E k \in i - period + 1 .. i :
                /\ RollingExtreme(values, period, highest)[i] = Available(values[k], 1)
                /\ \A j \in i - period + 1 .. i : Covers(values[k], values[j], highest)
    BY ExtremeIs
  <1>2. /\ i < period => RollingExtreme(values, period, FALSE)[i] = Warming
        /\ i >= period => \E k \in i - period + 1 .. i :
                /\ RollingExtreme(values, period, FALSE)[i] = Available(values[k], 1)
                /\ \A j \in i - period + 1 .. i : Covers(values[k], values[j], FALSE)
    BY ONLY <1>1, Zenon
  <1>3. ASSUME i >= period
        PROVE  \E k \in i - period + 1 .. i :
                /\ RollingLow(values, period)[i] = Available(values[k], 1)
                /\ \A j \in i - period + 1 .. i : values[k] <= values[j]
    <2>1. PICK k \in i - period + 1 .. i :
                /\ RollingExtreme(values, period, FALSE)[i] = Available(values[k], 1)
                /\ \A j \in i - period + 1 .. i : Covers(values[k], values[j], FALSE)
      BY ONLY <1>2, <1>3
    <2>2. RollingLow(values, period)[i] = Available(values[k], 1)
      BY ONLY <2>1 DEF RollingLow
    <2>3. \A j \in i - period + 1 .. i : values[j] >= values[k]
      BY ONLY <2>1 DEF Covers
    <2>4. \A j \in i - period + 1 .. i : j \in 1 .. Len(values) /\ values[j] \in Int
      BY <1>3
    <2>. QED BY <2>2, <2>3, <2>4
  <1>. QED BY <1>2, <1>3 DEF RollingLow

(* For a series of ints: the sums, extremes and averages are their own.     *)
LEMMA SmaIs ==
    ASSUME NEW values \in Seq(Int), NEW period \in Nat \ {0}, NEW i \in 1 .. Len(values)
    PROVE  Sma(values, period)[i] = IF i < period THEN Warming
                                    ELSE Available(SumOf(values, i - period + 1, i), period)
  <1>1. i >= period => Most(1, i - period + 1) = i - period + 1
    BY DEF Most
  <1>2. i \in 0 .. Len(values) /\ i \in DOMAIN values
    OBVIOUS
  <1>3. RollingSum(values, period)[i] = SumOf(values, Most(1, i - period + 1), i)
    BY <1>2, RollingSumIs
  <1>4. i < period \/ i >= period
    OBVIOUS
  <1>. QED BY <1>1, <1>2, <1>3, <1>4 DEF Sma

LEMMA EmaIs ==
    ASSUME NEW values \in Seq(Int), NEW period \in Nat \ {0}, NEW i \in 1 .. Len(values)
    PROVE  /\ i < period => Ema(values, period)[i] = Warming
           /\ i >= period => /\ Ema(values, period)[i] \in Average
                             /\ Positive(Ema(values, period)[i])
                             /\ \E j \in 1 .. i : ~Above(Ema(values, period)[i], values[j])
                             /\ \E j \in 1 .. i : ~Below(Ema(values, period)[i], values[j])
  <1> DEFINE x == Ema(values, period)[i]
  <1>1. x = Smoothed(values, period, 2, period + 1)[i]
    BY DEF Ema
  <1>2. /\ 2 \in Nat /\ 2 \in Int /\ period + 1 \in Nat \ {0} /\ period + 1 \in Int
        /\ 2 <= period + 1
    OBVIOUS
  <1>3. Averages(values, period, 2, period + 1, Smoothed(values, period, 2, period + 1))
    BY <1>2, SmoothedIs
  <1>4. i < period => x = Warming
    BY <1>1, <1>3 DEF Averages
  <1>5. i >= period => x \in Average
    BY <1>1, <1>3 DEF Averages
  <1>6. ASSUME i >= period
        PROVE  /\ Positive(x)
               /\ \A m \in Int : /\ (\A j \in 1 .. i : values[j] <= m) => NotOver(x, m)
                                 /\ (\A j \in 1 .. i : values[j] >= m) => NotUnder(x, m)
    <2>1. \A m \in Int :
            LET y == Smoothed(values, period, 2, period + 1)[i] IN
            /\ Positive(y)
            /\ (\A j \in 1 .. i : values[j] <= m) => NotOver(y, m)
            /\ (\A j \in 1 .. i : values[j] >= m) => NotUnder(y, m)
      BY <1>2, <1>6, SmoothedBounds
    <2>2. 0 \in Int
      OBVIOUS
    <2>. QED BY <1>1, <2>1, <2>2
  <1> HIDE DEF x
  <1>7. ASSUME i >= period
        PROVE  /\ \E j \in 1 .. i : ~Above(x, values[j])
               /\ \E j \in 1 .. i : ~Below(x, values[j])
    <2>0. \A j \in 1 .. i : values[j] \in Int
      OBVIOUS
    <2>1. PICK p \in 1 .. i : \A k \in 1 .. i : values[k] <= values[p]
      BY Extremes
    <2>2. PICK q \in 1 .. i : \A k \in 1 .. i : values[k] >= values[q]
      BY Extremes
    <2>3. Positive(x) /\ NotOver(x, values[p]) /\ NotUnder(x, values[q])
      BY <1>6, <1>7, <2>0, <2>1, <2>2
    <2>4. values[p] * x.den \in Int /\ values[q] * x.den \in Int /\ x.num \in Int
      BY <2>0, <2>3 DEF Positive
    <2>5. ~Above(x, values[p]) /\ ~Below(x, values[q])
      BY <2>3, <2>4 DEF Above, Below, NotOver, NotUnder
    <2>. QED BY <2>5
  <1>. QED BY <1>4, <1>5, <1>6, <1>7 DEF x

-----------------------------------------------------------------------------
(* The features of a series of bars at one of them.                         *)
Meant(history, f, i) ==
    LET Within(period) == i - period + 1 .. i IN
    /\ i >= Period["sma"] =>
        f.sma[i].num = SumOf(Closes(history), i - Period["sma"] + 1, i)
    /\ i >= Period["high"] =>
        /\ \E j \in Within(Period["high"]) : f.high[i].num = Highs(history)[j]
        /\ \A j \in Within(Period["high"]) : f.high[i].num >= Highs(history)[j]
    /\ i >= Period["low"] =>
        /\ \E j \in Within(Period["low"]) : f.low[i].num = Lows(history)[j]
        /\ \A j \in Within(Period["low"]) : f.low[i].num <= Lows(history)[j]
    /\ i >= Period["ema"] =>
        /\ \E j \in 1 .. i : ~Above(f.ema[i], history[j].close)
        /\ \E j \in 1 .. i : ~Below(f.ema[i], history[j].close)
    /\ i > Period["rsi"] =>
        /\ ~Above(f.rsi[i], 100) /\ ~Below(f.rsi[i], 0)
        /\ (\A j \in 1 .. i : history[j].close = history[1].close) =>
            ~Above(f.rsi[i], 50) /\ ~Below(f.rsi[i], 50)

LEMMA FeaturesAre ==
    ASSUME ResearchAssumption, NEW h \in Seq(ValidBars), NEW i \in 1 .. Len(h)
    PROVE  Meant(h, Features(h), i)
  <1> DEFINE f == Features(h)
             c == Closes(h)
             W(period) == i - period + 1 .. i
  <1>1. /\ Period["sma"] \in Nat \ {0} /\ Period["ema"] \in Nat \ {0} /\ Period["rsi"] \in Nat \ {0}
        /\ Period["high"] \in Nat \ {0} /\ Period["low"] \in Nat \ {0}
    BY DEF ResearchAssumption, Kinds
  <1>2. /\ c \in Seq(Int) /\ Len(c) = Len(h) /\ i \in 1 .. Len(c)
        /\ Highs(h) \in Seq(Int) /\ i \in 1 .. Len(Highs(h))
        /\ Lows(h) \in Seq(Int) /\ i \in 1 .. Len(Lows(h))
        /\ \A j \in 1 .. Len(h) : c[j] = h[j].close
    BY ValuesAre
  <1>3. /\ f.sma = Sma(c, Period["sma"]) /\ f.ema = Ema(c, Period["ema"])
        /\ f.rsi = Rsi(c, Period["rsi"])
        /\ f.high = RollingHigh(Highs(h), Period["high"])
        /\ f.low = RollingLow(Lows(h), Period["low"])
    BY DEF Features, Highs, Lows
  <1> HIDE DEF f, c
  <1>4. \A j \in 1 .. i : j \in 1 .. Len(h) /\ c[j] = h[j].close /\ c[j] \in Int
    <2>1. \A j \in 1 .. i : j \in 1 .. Len(h)
      OBVIOUS
    <2>. QED BY <1>2, <2>1
  <1>5. i >= Period["sma"] => f.sma[i].num = SumOf(c, i - Period["sma"] + 1, i)
    <2> DEFINE p == Period["sma"]
    <2>0. p \in Nat \ {0}
      BY <1>1
    <2> HIDE DEF p
    <2>1. Sma(c, p)[i] = IF i < p THEN Warming ELSE Available(SumOf(c, i - p + 1, i), p)
      BY <1>2, <2>0, SmaIs
    <2>2. i >= p => ~(i < p)
      BY <2>0
    <2>. QED BY <1>3, <2>1, <2>2 DEF p, Available
  <1>6. i >= Period["high"] =>
            /\ \E j \in W(Period["high"]) : f.high[i].num = Highs(h)[j]
            /\ \A j \in W(Period["high"]) : f.high[i].num >= Highs(h)[j]
    <2> DEFINE p == Period["high"]
    <2>0. p \in Nat \ {0}
      BY <1>1
    <2> HIDE DEF p
    <2> SUFFICES ASSUME i >= p
                 PROVE  /\ \E j \in W(p) : f.high[i].num = Highs(h)[j]
                        /\ \A j \in W(p) : f.high[i].num >= Highs(h)[j]
      BY DEF p
    <2>1. PICK k \in W(p) : /\ RollingHigh(Highs(h), p)[i] = Available(Highs(h)[k], 1)
                            /\ \A j \in W(p) : Highs(h)[k] >= Highs(h)[j]
      BY <1>2, <2>0, HighIs
    <2>2. f.high[i].num = Highs(h)[k]
      BY <1>3, <2>1 DEF Available, p
    <2>. QED BY <2>1, <2>2
  <1>7. i >= Period["low"] =>
            /\ \E j \in W(Period["low"]) : f.low[i].num = Lows(h)[j]
            /\ \A j \in W(Period["low"]) : f.low[i].num <= Lows(h)[j]
    <2> DEFINE p == Period["low"]
    <2>0. p \in Nat \ {0}
      BY <1>1
    <2> HIDE DEF p
    <2> SUFFICES ASSUME i >= p
                 PROVE  /\ \E j \in W(p) : f.low[i].num = Lows(h)[j]
                        /\ \A j \in W(p) : f.low[i].num <= Lows(h)[j]
      BY DEF p
    <2>1. PICK k \in W(p) : /\ RollingLow(Lows(h), p)[i] = Available(Lows(h)[k], 1)
                            /\ \A j \in W(p) : Lows(h)[k] <= Lows(h)[j]
      BY <1>2, <2>0, LowIs
    <2>2. f.low[i].num = Lows(h)[k]
      BY <1>3, <2>1 DEF Available, p
    <2>. QED BY <2>1, <2>2
  <1>8. i >= Period["ema"] => /\ \E j \in 1 .. i : ~Above(f.ema[i], h[j].close)
                              /\ \E j \in 1 .. i : ~Below(f.ema[i], h[j].close)
    <2> DEFINE p == Period["ema"]
    <2>0. p \in Nat \ {0}
      BY <1>1
    <2> HIDE DEF p
    <2>1. i >= p => /\ \E j \in 1 .. i : ~Above(Ema(c, p)[i], c[j])
                    /\ \E j \in 1 .. i : ~Below(Ema(c, p)[i], c[j])
      BY <1>2, <2>0, EmaIs
    <2>. QED BY <1>3, <1>4, <2>1 DEF p
  <1>9. i > Period["rsi"] =>
            /\ ~Above(f.rsi[i], 100) /\ ~Below(f.rsi[i], 0)
            /\ (\A j \in 1 .. i : h[j].close = h[1].close) =>
                ~Above(f.rsi[i], 50) /\ ~Below(f.rsi[i], 50)
    <2> DEFINE p == Period["rsi"]
    <2>0. p \in Nat \ {0}
      BY <1>1
    <2> HIDE DEF p
    <2> SUFFICES ASSUME i > p
                 PROVE  /\ ~Above(f.rsi[i], 100) /\ ~Below(f.rsi[i], 0)
                        /\ (\A j \in 1 .. i : h[j].close = h[1].close) =>
                            ~Above(f.rsi[i], 50) /\ ~Below(f.rsi[i], 50)
      BY DEF p
    <2> DEFINE x == f.rsi[i]
    <2>1. Strength(x) /\ ((\A j \in 1 .. i : c[j] = c[1]) => x = Available(50, 1))
      <3>1. /\ Strength(Rsi(c, p)[i])
            /\ (\A j \in 1 .. i : c[j] = c[1]) => Rsi(c, p)[i] = Available(50, 1)
        BY <1>2, <2>0, RsiBounds
      <3>. QED BY <1>3, <3>1 DEF p
    <2> HIDE DEF x
    <2>2. ~Above(x, 100) /\ ~Below(x, 0)
      <3>1. x.num \in Int /\ x.den \in Nat /\ x.num <= 100 * x.den /\ x.num >= 0 * x.den
        BY ONLY <2>1 DEF Strength, Positive, NotOver, NotUnder
      <3>. QED BY <3>1 DEF Above, Below
    <2>3. x = Available(50, 1) => ~Above(x, 50) /\ ~Below(x, 50)
      BY DEF Available, Above, Below
    <2>4. (\A j \in 1 .. i : h[j].close = h[1].close) => (\A j \in 1 .. i : c[j] = c[1])
      <3>1. 1 \in 1 .. i
        OBVIOUS
      <3>. QED BY <1>4, <3>1
    <2>5. (\A j \in 1 .. i : h[j].close = h[1].close) => ~Above(x, 50) /\ ~Below(x, 50)
      BY <2>1, <2>3, <2>4
    <2>. QED BY <2>2, <2>5 DEF x
  <1>. QED BY <1>5, <1>6, <1>7, <1>8, <1>9 DEF Meant, f, c

LEMMA MeantInv ==
    ASSUME SeriesInv
    PROVE  FeaturesMeanWhatTheySay
  <1>1. /\ SeriesAssumption /\ ResearchAssumption /\ bars \in Seq(ValidBars)
        /\ research.features = Features(bars) /\ DOMAIN bars = 1 .. Len(bars)
    BY DEF SeriesInv, Analyze
  <1>2. \A i \in DOMAIN bars : Meant(bars, research.features, i)
    BY <1>1, FeaturesAre
  <1>. QED BY ONLY <1>2, Zenon DEF FeaturesMeanWhatTheySay, Meant, Highs, Lows

-----------------------------------------------------------------------------
(* A value warms up before its time, and is a fraction or undefined from    *)
(* then on.                                                                 *)
WarmBy(x, i, first) ==
    /\ i < first => x = Warming
    /\ i >= first => x.status = "UNDEFINED" \/ (x.status = "AVAILABLE" /\ x.num \in Int /\ x.den \in Int)

LEMMA ReadySeries ==
    ASSUME NEW s \in Seq(Int), NEW period \in Nat \ {0}, NEW i \in 1 .. Len(s)
    PROVE  /\ WarmBy(Sma(s, period)[i], i, period) /\ WarmBy(Ema(s, period)[i], i, period)
           /\ WarmBy(Rsi(s, period)[i], i, period + 1)
           /\ WarmBy(Returns(s, period)[i], i, period + 1)
           /\ WarmBy(ZScore(s, period)[i], i, period)
           /\ WarmBy(RollingHigh(s, period)[i], i, period)
           /\ WarmBy(RollingLow(s, period)[i], i, period)
  <1>0. /\ i \in Nat /\ period \in Nat /\ i \in DOMAIN s /\ s[i] \in Int
        /\ (i < period + 1 <=> i <= period) /\ (i >= period + 1 <=> ~(i <= period))
        /\ (i >= period <=> ~(i < period))
    OBVIOUS
  <1>1. \A a, b \in Int : LET x == Available(a, b)
                          IN x.status = "AVAILABLE" /\ x.num \in Int /\ x.den \in Int
    BY DEF Available
  <1>2. Undefined.status = "UNDEFINED"
    BY DEF Undefined
  <1>3. ASSUME i >= period
        PROVE  /\ SumOf(s, i - period + 1, i) \in Int
               /\ SumOf(Squares(s), i - period + 1, i) \in Int
    <2> DEFINE first == i - period + 1
    <2>1. first \in Int /\ first <= i /\ i \in Int
      OBVIOUS
    <2>2. \A j \in first .. i : j \in DOMAIN s /\ s[j] \in Int
      BY <1>3
    <2> HIDE DEF first
    <2>3. \A j \in first .. i : Squares(s)[j] \in Int
      <3>1. \A j \in first .. i : s[j] * s[j] \in Int
        BY <2>2
      <3>. QED BY <2>2, <3>1 DEF Squares
    <2>4. SumOf(s, first, i) \in Int /\ SumOf(Squares(s), first, i) \in Int
      BY <2>1, <2>2, <2>3, SumMoves
    <2>. QED BY <2>4 DEF first
  <1>4. WarmBy(Sma(s, period)[i], i, period)
    <2>1. Sma(s, period)[i] = IF i < period THEN Warming
                              ELSE Available(SumOf(s, i - period + 1, i), period)
      BY SmaIs
    <2>. QED BY <1>0, <1>1, <1>3, <2>1 DEF WarmBy
  <1>5. WarmBy(Ema(s, period)[i], i, period)
    <2>1. /\ i < period => Ema(s, period)[i] = Warming
          /\ i >= period => Ema(s, period)[i] \in Average
      BY EmaIs
    <2>. QED BY <2>1 DEF WarmBy, Average
  <1>6. WarmBy(Rsi(s, period)[i], i, period + 1)
    <2>1. i <= period => Rsi(s, period)[i] = Warming
      BY RsiIs
    <2>2. ~(i <= period) => /\ Rsi(s, period)[i].status = "AVAILABLE"
                            /\ Rsi(s, period)[i].num \in Int /\ Rsi(s, period)[i].den \in Int
      <3> SUFFICES ASSUME i > period
                   PROVE  /\ Rsi(s, period)[i].status = "AVAILABLE"
                          /\ Rsi(s, period)[i].num \in Int /\ Rsi(s, period)[i].den \in Int
        BY <1>0
      <3>1. Strength(Rsi(s, period)[i])
        BY RsiBounds
      <3>2. Rsi(s, period)[i].status = "AVAILABLE"
        <4>1. \A gain, loss : RsiValue(gain, loss).status = "AVAILABLE"
          BY DEF RsiValue, Available
        <4>2. \E gain, loss : Rsi(s, period)[i] = RsiValue(gain, loss)
          <5>1. Rsi(s, period)[i] = RsiValue(Smoothed(Gains(s), period, 1, period)[i - 1].num,
                                             Smoothed(Losses(s), period, 1, period)[i - 1].num)
            BY <1>0, RsiIs
          <5>. QED BY ONLY <5>1
        <4>. QED BY <4>1, <4>2
      <3>. QED BY ONLY <3>1, <3>2 DEF Strength, Positive
    <2>. QED BY <1>0, <2>1, <2>2 DEF WarmBy
  <1>7. WarmBy(Returns(s, period)[i], i, period + 1)
    <2>1. Returns(s, period)[i] = IF i <= period THEN Warming
                                  ELSE IF s[i - period] = 0 THEN Undefined
                                  ELSE Available(s[i] - s[i - period], s[i - period])
      BY <1>0 DEF Returns
    <2>2. ~(i <= period) => s[i - period] \in Int /\ s[i] - s[i - period] \in Int
      OBVIOUS
    <2>. QED BY <1>0, <1>1, <1>2, <2>1, <2>2 DEF WarmBy
  <1>8. WarmBy(ZScore(s, period)[i], i, period)
    <2> DEFINE sum == SumOf(s, i - period + 1, i)
               squares == SumOf(Squares(s), i - period + 1, i)
               variance == period * squares - sum * sum
    <2>1. ZScore(s, period)[i] = IF i < period THEN Warming
                                 ELSE IF variance = 0 THEN Undefined
                                 ELSE Available(period * s[i] - sum, variance)
      BY <1>0 DEF ZScore, Squares
    <2>2. i >= period => variance \in Int /\ period * s[i] - sum \in Int
      <3>1. i >= period => sum \in Int /\ squares \in Int
        BY <1>3
      <3> HIDE DEF sum, squares
      <3>. QED BY <1>0, <3>1
    <2> HIDE DEF variance, sum
    <2>. QED BY <1>0, <1>1, <1>2, <2>1, <2>2 DEF WarmBy
  <1>9. \A k \in i - period + 1 .. i : i >= period => s[k] \in Int
    OBVIOUS
  <1>10. WarmBy(RollingHigh(s, period)[i], i, period)
    <2>1. /\ i < period => RollingHigh(s, period)[i] = Warming
          /\ i >= period => \E k \in i - period + 1 .. i :
                RollingHigh(s, period)[i] = Available(s[k], 1)
      BY HighIs
    <2>. QED BY <1>1, <1>9, <2>1 DEF WarmBy
  <1>11. WarmBy(RollingLow(s, period)[i], i, period)
    <2>1. /\ i < period => RollingLow(s, period)[i] = Warming
          /\ i >= period => \E k \in i - period + 1 .. i :
                RollingLow(s, period)[i] = Available(s[k], 1)
      BY LowIs
    <2>. QED BY <1>1, <1>9, <2>1 DEF WarmBy
  <1>. QED BY <1>4, <1>5, <1>6, <1>7, <1>8, <1>10, <1>11

(* The features that the evidence of a bar is read from.                    *)
AllReady(f, i) ==
    /\ WarmBy(f.sma[i], i, Period["sma"]) /\ WarmBy(f.ema[i], i, Period["ema"])
    /\ WarmBy(f.rsi[i], i, Period["rsi"] + 1) /\ WarmBy(f.return[i], i, Period["return"] + 1)
    /\ WarmBy(f.volume[i], i, Period["volume"]) /\ WarmBy(f.zscore[i], i, Period["zscore"])
    /\ WarmBy(Prior(f.high, i), i, Period["high"] + 1) /\ WarmBy(Prior(f.low, i), i, Period["low"] + 1)

LEMMA FeaturesReady ==
    ASSUME ResearchAssumption, NEW h \in Seq(ValidBars), NEW i \in 1 .. Len(h)
    PROVE  AllReady(Features(h), i)
  <1> DEFINE c == Closes(h)
             v == Volumes(h)
             f == Features(h)
  <1>1. /\ Period["sma"] \in Nat \ {0} /\ Period["ema"] \in Nat \ {0} /\ Period["rsi"] \in Nat \ {0}
        /\ Period["high"] \in Nat \ {0} /\ Period["low"] \in Nat \ {0}
        /\ Period["return"] \in Nat \ {0} /\ Period["volume"] \in Nat \ {0}
        /\ Period["zscore"] \in Nat \ {0}
    BY DEF ResearchAssumption, Kinds
  <1>2. /\ c \in Seq(Int) /\ i \in 1 .. Len(c) /\ v \in Seq(Int) /\ i \in 1 .. Len(v)
        /\ Highs(h) \in Seq(Int) /\ Len(Highs(h)) = Len(h)
        /\ Lows(h) \in Seq(Int) /\ Len(Lows(h)) = Len(h)
    BY ValuesAre
  <1>3. /\ f.sma = Sma(c, Period["sma"]) /\ f.ema = Ema(c, Period["ema"])
        /\ f.rsi = Rsi(c, Period["rsi"]) /\ f.return = Returns(c, Period["return"])
        /\ f.volume = Sma(v, Period["volume"]) /\ f.zscore = ZScore(v, Period["zscore"])
        /\ f.high = RollingHigh(Highs(h), Period["high"])
        /\ f.low = RollingLow(Lows(h), Period["low"])
    BY DEF Features, Highs, Lows
  <1> HIDE DEF f, c, v
  <1>4. \A p \in Nat \ {0} :
            /\ WarmBy(Sma(c, p)[i], i, p) /\ WarmBy(Ema(c, p)[i], i, p)
            /\ WarmBy(Rsi(c, p)[i], i, p + 1) /\ WarmBy(Returns(c, p)[i], i, p + 1)
    BY <1>2, ReadySeries
  <1>5. \A p \in Nat \ {0} : WarmBy(Sma(v, p)[i], i, p) /\ WarmBy(ZScore(v, p)[i], i, p)
    BY <1>2, ReadySeries
  <1>6. ASSUME NEW p \in Nat \ {0}
        PROVE  /\ WarmBy(Prior(RollingHigh(Highs(h), p), i), i, p + 1)
               /\ WarmBy(Prior(RollingLow(Lows(h), p), i), i, p + 1)
    <2>1. CASE i = 1
      BY <2>1 DEF Prior, WarmBy
    <2>2. CASE i # 1
      <3>1. PICK k \in 1 .. Len(h) : k = i - 1
        BY <2>2
      <3>2. k \in 1 .. Len(Highs(h)) /\ k \in 1 .. Len(Lows(h))
        BY <1>2
      <3>3. /\ WarmBy(RollingHigh(Highs(h), p)[k], k, p) /\ WarmBy(RollingLow(Lows(h), p)[k], k, p)
        BY <1>2, <3>2, ReadySeries
      <3>4. (k < p <=> i < p + 1) /\ (k >= p <=> i >= p + 1)
        BY <3>1
      <3>. QED BY <2>2, <3>1, <3>3, <3>4 DEF Prior, WarmBy
    <2>. QED BY <2>1, <2>2
  <1>. QED BY <1>1, <1>3, <1>4, <1>5, <1>6 DEF AllReady, f

(* A rule has its operands from some bar on.                                *)
LEMMA EvidenceWarms ==
    ASSUME ResearchAssumption, NEW h \in Seq(ValidBars),
           NEW i \in 1 .. Len(h), NEW j \in 1 .. Len(h), i < j, NEW key \in EvidenceKeys,
           EvaluateRule(key, h[j], Sources(key, Features(h), j)) = "WARMING_UP"
    PROVE  EvaluateRule(key, h[i], Sources(key, Features(h), i)) = "WARMING_UP"
  <1> DEFINE f == Features(h)
  <1>1. AllReady(f, i) /\ AllReady(f, j)
    BY FeaturesReady
  <1>2. /\ Period["sma"] \in Nat /\ Period["ema"] \in Nat /\ Period["rsi"] + 1 \in Nat
        /\ Period["high"] + 1 \in Nat /\ Period["low"] + 1 \in Nat
        /\ Period["return"] + 1 \in Nat /\ Period["volume"] \in Nat
        /\ Period["zscore"] \in Nat
    BY DEF ResearchAssumption, Kinds
  <1>3. ASSUME NEW x, NEW y, NEW p \in Nat, WarmBy(x, i, p), WarmBy(y, j, p), y.status = "WARMING_UP"
        PROVE  x.status = "WARMING_UP"
    BY <1>3 DEF WarmBy, Warming
  <1> HIDE DEF f
  <1>4. /\ f.sma[j].status = "WARMING_UP" => f.sma[i].status = "WARMING_UP"
        /\ f.ema[j].status = "WARMING_UP" => f.ema[i].status = "WARMING_UP"
        /\ f.rsi[j].status = "WARMING_UP" => f.rsi[i].status = "WARMING_UP"
        /\ f.return[j].status = "WARMING_UP" => f.return[i].status = "WARMING_UP"
        /\ f.volume[j].status = "WARMING_UP" => f.volume[i].status = "WARMING_UP"
        /\ f.zscore[j].status = "WARMING_UP" => f.zscore[i].status = "WARMING_UP"
        /\ Prior(f.high, j).status = "WARMING_UP" => Prior(f.high, i).status = "WARMING_UP"
        /\ Prior(f.low, j).status = "WARMING_UP" => Prior(f.low, i).status = "WARMING_UP"
    BY <1>1, <1>2, <1>3 DEF AllReady
  <1>5. \A n \in DOMAIN Sources(key, f, j) :
            /\ n \in DOMAIN Sources(key, f, i)
            /\ Sources(key, f, j)[n].status = "WARMING_UP" => Sources(key, f, i)[n].status = "WARMING_UP"
    BY <1>4 DEF Sources, EvidenceKeys
  <1>6. \A bar, ops : EvaluateRule(key, bar, ops) = "WARMING_UP"
                        <=> \E n \in DOMAIN ops : ops[n].status = "WARMING_UP"
    BY DEF EvaluateRule, Availability
  <1>. QED BY <1>5, <1>6 DEF f

LEMMA WarmthInv ==
    ASSUME SeriesInv
    PROVE  WarmsUpOnce
  <1>1. /\ SeriesAssumption /\ ResearchAssumption /\ bars \in Seq(ValidBars)
        /\ research.evidence = Evidence(bars, Features(bars)) /\ DOMAIN bars = 1 .. Len(bars)
    BY DEF SeriesInv, Analyze
  <1>2. \A i \in DOMAIN bars :
            /\ DOMAIN research.evidence[i] = EvidenceKeys
            /\ \A key \in EvidenceKeys :
                research.evidence[i][key] = EvaluateRule(key, bars[i], Sources(key, Features(bars), i))
    BY <1>1 DEF Evidence
  <1>. QED BY <1>1, <1>2, EvidenceWarms DEF WarmsUpOnce

-----------------------------------------------------------------------------
(* A rule that is active holds, of operands that are there.                 *)
LEMMA ActiveMeans ==
    ASSUME NEW key, NEW bar, NEW ops, EvaluateRule(key, bar, ops) = "ACTIVE"
    PROVE  /\ Holds(key, bar, ops)
           /\ \A n \in DOMAIN ops : ops[n].status # "WARMING_UP" /\ ops[n].status # "UNDEFINED"
  <1>1. \A n \in DOMAIN ops : ops[n].status \in {ops[m].status : m \in DOMAIN ops}
    OBVIOUS
  <1>. QED BY <1>1 DEF EvaluateRule, Availability

Fraction(x) == x.status = "AVAILABLE" /\ x.num \in Int /\ x.den \in Int

LEMMA ReadyMeans ==
    ASSUME NEW x, NEW i \in Nat, NEW p \in Nat, WarmBy(x, i, p),
           x.status # "WARMING_UP", x.status # "UNDEFINED"
    PROVE  Fraction(x) /\ i >= p
  BY DEF WarmBy, Fraction, Warming

(* What active evidence says of the features.                               *)
Says(f, bar, i, e) ==
    /\ e.PRICE_ABOVE_SMA = "ACTIVE" => Fraction(f.sma[i]) /\ Below(f.sma[i], bar.close)
    /\ e.PRICE_BELOW_SMA = "ACTIVE" => Fraction(f.sma[i]) /\ Above(f.sma[i], bar.close)
    /\ e.EMA_ABOVE_SMA = "ACTIVE" =>
        Fraction(f.sma[i]) /\ Fraction(f.ema[i]) /\ Exceeds(f.ema[i], f.sma[i])
    /\ e.EMA_BELOW_SMA = "ACTIVE" =>
        Fraction(f.sma[i]) /\ Fraction(f.ema[i]) /\ Exceeds(f.sma[i], f.ema[i])
    /\ e.RSI_OVERBOUGHT = "ACTIVE" => i > Period["rsi"] /\ ~Below(f.rsi[i], Overbought)
    /\ e.RSI_OVERSOLD = "ACTIVE" => i > Period["rsi"] /\ ~Above(f.rsi[i], Oversold)
    /\ e.RSI_MIDRANGE = "ACTIVE" =>
        i > Period["rsi"] /\ Above(f.rsi[i], Oversold) /\ Below(f.rsi[i], Overbought)
    /\ e.CLOSE_BREAKOUT_ABOVE_PRIOR_HIGH = "ACTIVE" =>
        i > Period["high"] /\ Below(Prior(f.high, i), bar.close)
    /\ e.CLOSE_BREAKDOWN_BELOW_PRIOR_LOW = "ACTIVE" =>
        i > Period["low"] /\ Above(Prior(f.low, i), bar.close)
    /\ e.VOLUME_ZSCORE_HIGH = "ACTIVE" => Fraction(f.zscore[i]) /\ f.zscore[i].num > 0
    /\ e.VOLUME_ZSCORE_LOW = "ACTIVE" => Fraction(f.zscore[i]) /\ f.zscore[i].num < 0

LEMMA EvidenceSays ==
    ASSUME ResearchAssumption, NEW f, NEW bar, NEW i \in Nat, AllReady(f, i)
    PROVE  Says(f, bar, i, [key \in EvidenceKeys |-> EvaluateRule(key, bar, Sources(key, f, i))])
  <1> DEFINE e == [key \in EvidenceKeys |-> EvaluateRule(key, bar, Sources(key, f, i))]
  <1>1. /\ Period["sma"] \in Nat /\ Period["ema"] \in Nat /\ Period["rsi"] \in Nat
        /\ Period["high"] \in Nat /\ Period["low"] \in Nat /\ Period["zscore"] \in Nat
        /\ Period["rsi"] + 1 \in Nat /\ Period["high"] + 1 \in Nat /\ Period["low"] + 1 \in Nat
    BY DEF ResearchAssumption, Kinds
  <1>2. ASSUME NEW key \in EvidenceKeys, e[key] = "ACTIVE"
        PROVE  /\ Holds(key, bar, Sources(key, f, i))
               /\ \A n \in DOMAIN Sources(key, f, i) :
                    /\ Sources(key, f, i)[n].status # "WARMING_UP"
                    /\ Sources(key, f, i)[n].status # "UNDEFINED"
    BY <1>2, ActiveMeans
  <1> DEFINE There(x) == x.status # "WARMING_UP" /\ x.status # "UNDEFINED"
  <1>3. /\ There(f.sma[i]) => Fraction(f.sma[i])
        /\ There(f.ema[i]) => Fraction(f.ema[i])
        /\ There(f.zscore[i]) => Fraction(f.zscore[i])
        /\ There(f.rsi[i]) => i >= Period["rsi"] + 1
        /\ There(Prior(f.high, i)) => i >= Period["high"] + 1
        /\ There(Prior(f.low, i)) => i >= Period["low"] + 1
    <2>1. ASSUME NEW x, NEW p \in Nat, WarmBy(x, i, p), There(x) PROVE Fraction(x) /\ i >= p
      BY <2>1, ReadyMeans
    <2> HIDE DEF There
    <2>. QED BY <1>1, <2>1 DEF AllReady
  <1>4. /\ i >= Period["rsi"] + 1 => i > Period["rsi"]
        /\ i >= Period["high"] + 1 => i > Period["high"]
        /\ i >= Period["low"] + 1 => i > Period["low"]
    BY <1>1
  <1> HIDE DEF e, There
  <1>5. /\ e["PRICE_ABOVE_SMA"] = "ACTIVE" => There(f.sma[i]) /\ Below(f.sma[i], bar.close)
        /\ e["PRICE_BELOW_SMA"] = "ACTIVE" => There(f.sma[i]) /\ Above(f.sma[i], bar.close)
    BY <1>2 DEF EvidenceKeys, Sources, Holds, There
  <1>6. /\ e["EMA_ABOVE_SMA"] = "ACTIVE" =>
            There(f.sma[i]) /\ There(f.ema[i]) /\ Exceeds(f.ema[i], f.sma[i])
        /\ e["EMA_BELOW_SMA"] = "ACTIVE" =>
            There(f.sma[i]) /\ There(f.ema[i]) /\ Exceeds(f.sma[i], f.ema[i])
    BY <1>2 DEF EvidenceKeys, Sources, Holds, There
  <1>7. /\ e["RSI_OVERBOUGHT"] = "ACTIVE" => There(f.rsi[i]) /\ ~Below(f.rsi[i], Overbought)
        /\ e["RSI_OVERSOLD"] = "ACTIVE" => There(f.rsi[i]) /\ ~Above(f.rsi[i], Oversold)
        /\ e["RSI_MIDRANGE"] = "ACTIVE" =>
            There(f.rsi[i]) /\ Above(f.rsi[i], Oversold) /\ Below(f.rsi[i], Overbought)
    BY <1>2 DEF EvidenceKeys, Sources, Holds, There
  <1>8. /\ e["CLOSE_BREAKOUT_ABOVE_PRIOR_HIGH"] = "ACTIVE" =>
            There(Prior(f.high, i)) /\ Below(Prior(f.high, i), bar.close)
        /\ e["CLOSE_BREAKDOWN_BELOW_PRIOR_LOW"] = "ACTIVE" =>
            There(Prior(f.low, i)) /\ Above(Prior(f.low, i), bar.close)
    BY <1>2 DEF EvidenceKeys, Sources, Holds, There
  <1>9. /\ e["VOLUME_ZSCORE_HIGH"] = "ACTIVE" => There(f.zscore[i]) /\ f.zscore[i].num > 0
        /\ e["VOLUME_ZSCORE_LOW"] = "ACTIVE" => There(f.zscore[i]) /\ f.zscore[i].num < 0
    BY <1>2 DEF EvidenceKeys, Sources, Holds, There
  <1>10. Says(f, bar, i, e)
    BY <1>3, <1>4, <1>5, <1>6, <1>7, <1>8, <1>9 DEF Says
  <1>. QED BY <1>10 DEF e

(* The prior extremes and the return of a bar.                              *)
LEMMA PriorsAre ==
    ASSUME ResearchAssumption, NEW h \in Seq(ValidBars), NEW i \in 1 .. Len(h)
    PROVE  LET f == Features(h) IN
           /\ i > Period["high"] =>
                /\ Prior(f.high, i).num \in Int /\ Prior(f.high, i).den = 1
                /\ \A j \in i - Period["high"] .. i - 1 : Prior(f.high, i).num >= h[j].high
           /\ i > Period["low"] =>
                /\ Prior(f.low, i).num \in Int /\ Prior(f.low, i).den = 1
                /\ \A j \in i - Period["low"] .. i - 1 : Prior(f.low, i).num <= h[j].low
           /\ f.return[i].status = "AVAILABLE" =>
                /\ i > Period["return"]
                /\ f.return[i].num = h[i].close - h[i - Period["return"]].close
           /\ i > Period["rsi"] => Strength(f.rsi[i])
  <1> DEFINE f == Features(h)
             p == Period["high"]
             q == Period["low"]
             r == Period["return"]
             c == Closes(h)
  <1>1. p \in Nat \ {0} /\ q \in Nat \ {0} /\ r \in Nat \ {0} /\ Period["rsi"] \in Nat \ {0}
    BY DEF ResearchAssumption, Kinds
  <1>2. /\ Highs(h) \in Seq(Int) /\ Len(Highs(h)) = Len(h)
        /\ Lows(h) \in Seq(Int) /\ Len(Lows(h)) = Len(h)
        /\ c \in Seq(Int) /\ Len(c) = Len(h)
        /\ \A j \in 1 .. Len(h) : /\ Highs(h)[j] = h[j].high /\ Lows(h)[j] = h[j].low
                                  /\ c[j] = h[j].close
    BY ValuesAre
  <1>3. /\ f.high = RollingHigh(Highs(h), p) /\ f.low = RollingLow(Lows(h), q)
        /\ f.return = Returns(c, r) /\ f.rsi = Rsi(c, Period["rsi"])
    BY DEF Features, Highs, Lows
  <1> HIDE DEF f, p, q, r, c
  <1>4. i > p => /\ Prior(f.high, i).num \in Int /\ Prior(f.high, i).den = 1
                 /\ \A j \in i - p .. i - 1 : Prior(f.high, i).num >= h[j].high
    <2> SUFFICES ASSUME i > p
                 PROVE  /\ Prior(f.high, i).num \in Int /\ Prior(f.high, i).den = 1
                        /\ \A j \in i - p .. i - 1 : Prior(f.high, i).num >= h[j].high
      OBVIOUS
    <2>1. PICK n \in 1 .. Len(h) : n = i - 1 /\ n >= p /\ i # 1
      BY <1>1
    <2>2. n \in 1 .. Len(Highs(h))
      BY <1>2
    <2>3. PICK k \in n - p + 1 .. n :
                /\ RollingHigh(Highs(h), p)[n] = Available(Highs(h)[k], 1)
                /\ \A j \in n - p + 1 .. n : Highs(h)[k] >= Highs(h)[j]
      BY <1>1, <1>2, <2>1, <2>2, HighIs
    <2>4. Prior(f.high, i) = Available(Highs(h)[k], 1)
      BY <1>3, <2>1, <2>3 DEF Prior
    <2>5. \A j \in i - p .. i - 1 : j \in n - p + 1 .. n /\ j \in 1 .. Len(h)
      BY <1>1, <2>1
    <2>6. Highs(h)[k] \in Int
      <3>1. k \in 1 .. Len(h)
        BY <1>1, <2>1
      <3>2. k \in 1 .. Len(Highs(h))
        BY <1>2, <3>1
      <3>. QED BY <1>2, <3>2
    <2>7. \A j \in i - p .. i - 1 : Highs(h)[k] >= h[j].high
      BY <1>2, <2>3, <2>5
    <2>. QED BY <2>4, <2>6, <2>7 DEF Available
  <1>5. i > q => /\ Prior(f.low, i).num \in Int /\ Prior(f.low, i).den = 1
                 /\ \A j \in i - q .. i - 1 : Prior(f.low, i).num <= h[j].low
    <2> SUFFICES ASSUME i > q
                 PROVE  /\ Prior(f.low, i).num \in Int /\ Prior(f.low, i).den = 1
                        /\ \A j \in i - q .. i - 1 : Prior(f.low, i).num <= h[j].low
      OBVIOUS
    <2>1. PICK n \in 1 .. Len(h) : n = i - 1 /\ n >= q /\ i # 1
      BY <1>1
    <2>2. n \in 1 .. Len(Lows(h))
      BY <1>2
    <2>3. PICK k \in n - q + 1 .. n :
                /\ RollingLow(Lows(h), q)[n] = Available(Lows(h)[k], 1)
                /\ \A j \in n - q + 1 .. n : Lows(h)[k] <= Lows(h)[j]
      BY <1>1, <1>2, <2>1, <2>2, LowIs
    <2>4. Prior(f.low, i) = Available(Lows(h)[k], 1)
      BY <1>3, <2>1, <2>3 DEF Prior
    <2>5. \A j \in i - q .. i - 1 : j \in n - q + 1 .. n /\ j \in 1 .. Len(h)
      BY <1>1, <2>1
    <2>6. Lows(h)[k] \in Int
      <3>1. k \in 1 .. Len(h)
        BY <1>1, <2>1
      <3>2. k \in 1 .. Len(Lows(h))
        BY <1>2, <3>1
      <3>. QED BY <1>2, <3>2
    <2>7. \A j \in i - q .. i - 1 : Lows(h)[k] <= h[j].low
      BY <1>2, <2>3, <2>5
    <2>. QED BY <2>4, <2>6, <2>7 DEF Available
  <1>6. f.return[i].status = "AVAILABLE" =>
            i > r /\ f.return[i].num = h[i].close - h[i - r].close
    <2>1. f.return[i] = IF i <= r THEN Warming ELSE IF c[i - r] = 0 THEN Undefined
                        ELSE Available(c[i] - c[i - r], c[i - r])
      <3>1. i \in DOMAIN c
        BY <1>2
      <3>. QED BY <1>3, <3>1 DEF Returns
    <2>2. ~(i <= r) => i > r /\ i - r \in 1 .. Len(h)
      BY <1>1
    <2>. QED BY <1>2, <2>1, <2>2 DEF Warming, Undefined, Available
  <1>7. i > Period["rsi"] => Strength(f.rsi[i])
    <2>1. i \in 1 .. Len(c)
      BY <1>2
    <2>2. i > Period["rsi"] => Strength(Rsi(c, Period["rsi"])[i])
      BY <1>1, <1>2, <2>1, RsiBounds
    <2>. QED BY <1>3, <2>2
  <1>. QED BY <1>4, <1>5, <1>6, <1>7 DEF f, p, q, r

(* A rule of one operand that is there.                                     *)
LEMMA OneOperand ==
    ASSUME NEW key, NEW bar, NEW value, NEW x, x = Available(value, 1)
    PROVE  /\ EvaluateRule(key, bar, <<x>>) = "ACTIVE" => Holds(key, bar, <<x>>)
           /\ Holds(key, bar, <<x>>) => EvaluateRule(key, bar, <<x>>) = "ACTIVE"
  <1>1. \A n \in DOMAIN <<x>> : <<x>>[n].status = "AVAILABLE"
    BY DEF Available
  <1>2. Availability({<<x>>[n].status : n \in DOMAIN <<x>>}) = "AVAILABLE"
    BY <1>1 DEF Availability
  <1>. QED BY <1>2 DEF EvaluateRule

(* The rules of the breakouts.                                              *)
LEMMA RuleIs ==
    ASSUME NEW bar, bar.close \in Int, NEW value \in Int, NEW x, x = Available(value, 1)
    PROVE  /\ Holds("CLOSE_BREAKOUT_ABOVE_PRIOR_HIGH", bar, <<x>>) => value < bar.close
           /\ value < bar.close => Holds("CLOSE_BREAKOUT_ABOVE_PRIOR_HIGH", bar, <<x>>)
           /\ Holds("CLOSE_BREAKDOWN_BELOW_PRIOR_LOW", bar, <<x>>) => value > bar.close
           /\ value > bar.close => Holds("CLOSE_BREAKDOWN_BELOW_PRIOR_LOW", bar, <<x>>)
  <1>1. x.num = value /\ x.den = 1
    BY DEF Available
  <1>2. /\ Below(x, bar.close) => value < bar.close
        /\ value < bar.close => Below(x, bar.close)
        /\ Above(x, bar.close) => value > bar.close
        /\ value > bar.close => Above(x, bar.close)
    BY <1>1 DEF Below, Above
  <1>3. /\ Holds("CLOSE_BREAKOUT_ABOVE_PRIOR_HIGH", bar, <<x>>) => Below(x, bar.close)
        /\ Below(x, bar.close) => Holds("CLOSE_BREAKOUT_ABOVE_PRIOR_HIGH", bar, <<x>>)
        /\ Holds("CLOSE_BREAKDOWN_BELOW_PRIOR_LOW", bar, <<x>>) => Above(x, bar.close)
        /\ Above(x, bar.close) => Holds("CLOSE_BREAKDOWN_BELOW_PRIOR_LOW", bar, <<x>>)
    BY DEF Holds
  <1>. QED BY ONLY <1>2, <1>3

(* A prior extreme is one of the bars before, and beyond them all.          *)
LEMMA PriorIs ==
    ASSUME ResearchAssumption, NEW h \in Seq(ValidBars), NEW i \in 1 .. Len(h)
    PROVE  /\ i > Period["high"] => \E k \in i - Period["high"] .. i - 1 :
                /\ Prior(Features(h).high, i) = Available(h[k].high, 1)
                /\ \A j \in i - Period["high"] .. i - 1 : h[k].high >= h[j].high
           /\ i > Period["low"] => \E k \in i - Period["low"] .. i - 1 :
                /\ Prior(Features(h).low, i) = Available(h[k].low, 1)
                /\ \A j \in i - Period["low"] .. i - 1 : h[k].low <= h[j].low
  <1> DEFINE f == Features(h)
             p == Period["high"]
             q == Period["low"]
  <1>1. p \in Nat \ {0} /\ q \in Nat \ {0}
    BY DEF ResearchAssumption, Kinds
  <1>2. /\ Highs(h) \in Seq(Int) /\ Len(Highs(h)) = Len(h)
        /\ Lows(h) \in Seq(Int) /\ Len(Lows(h)) = Len(h)
        /\ \A j \in 1 .. Len(h) : Highs(h)[j] = h[j].high /\ Lows(h)[j] = h[j].low
    BY ValuesAre
  <1>3. f.high = RollingHigh(Highs(h), p) /\ f.low = RollingLow(Lows(h), q)
    BY DEF Features, Highs, Lows
  <1> HIDE DEF f, p, q
  <1>4. ASSUME i > p
        PROVE  \E k \in i - p .. i - 1 :
                    /\ Prior(f.high, i) = Available(h[k].high, 1)
                    /\ \A j \in i - p .. i - 1 : h[k].high >= h[j].high
    <2>1. PICK n \in 1 .. Len(h) : n = i - 1 /\ n >= p /\ i # 1
      BY <1>1, <1>4
    <2>2. PICK k \in n - p + 1 .. n :
                /\ RollingHigh(Highs(h), p)[n] = Available(Highs(h)[k], 1)
                /\ \A j \in n - p + 1 .. n : Highs(h)[k] >= Highs(h)[j]
      <3>1. n \in 1 .. Len(Highs(h))
        BY <1>2
      <3>2. n >= p => \E k \in n - p + 1 .. n :
                /\ RollingHigh(Highs(h), p)[n] = Available(Highs(h)[k], 1)
                /\ \A j \in n - p + 1 .. n : Highs(h)[k] >= Highs(h)[j]
        BY ONLY <1>1, <1>2, <3>1, HighIs
      <3>. QED BY ONLY <2>1, <3>2
    <2>3. k \in i - p .. i - 1 /\ \A j \in i - p .. i - 1 : j \in n - p + 1 .. n /\ j \in 1 .. Len(h)
      BY <1>1, <2>1
    <2>4. Prior(f.high, i) = Available(h[k].high, 1)
      <3>1. Prior(f.high, i) = RollingHigh(Highs(h), p)[n]
        BY <1>3, <2>1 DEF Prior
      <3>2. Highs(h)[k] = h[k].high
        BY <1>2, <2>3
      <3>. QED BY ONLY <2>2, <3>1, <3>2
    <2>5. \A j \in i - p .. i - 1 : h[k].high >= h[j].high
      BY <1>2, <2>2, <2>3
    <2>. QED BY <2>3, <2>4, <2>5
  <1>5. ASSUME i > q
        PROVE  \E k \in i - q .. i - 1 :
                    /\ Prior(f.low, i) = Available(h[k].low, 1)
                    /\ \A j \in i - q .. i - 1 : h[k].low <= h[j].low
    <2>1. PICK n \in 1 .. Len(h) : n = i - 1 /\ n >= q /\ i # 1
      BY <1>1, <1>5
    <2>2. PICK k \in n - q + 1 .. n :
                /\ RollingLow(Lows(h), q)[n] = Available(Lows(h)[k], 1)
                /\ \A j \in n - q + 1 .. n : Lows(h)[k] <= Lows(h)[j]
      <3>1. n \in 1 .. Len(Lows(h))
        BY <1>2
      <3>2. n >= q => \E k \in n - q + 1 .. n :
                /\ RollingLow(Lows(h), q)[n] = Available(Lows(h)[k], 1)
                /\ \A j \in n - q + 1 .. n : Lows(h)[k] <= Lows(h)[j]
        BY ONLY <1>1, <1>2, <3>1, LowIs
      <3>. QED BY ONLY <2>1, <3>2
    <2>3. k \in i - q .. i - 1 /\ \A j \in i - q .. i - 1 : j \in n - q + 1 .. n /\ j \in 1 .. Len(h)
      BY <1>1, <2>1
    <2>4. Prior(f.low, i) = Available(h[k].low, 1)
      <3>1. Prior(f.low, i) = RollingLow(Lows(h), q)[n]
        BY <1>3, <2>1 DEF Prior
      <3>2. Lows(h)[k] = h[k].low
        BY <1>2, <2>3
      <3>. QED BY ONLY <2>2, <3>1, <3>2
    <2>5. \A j \in i - q .. i - 1 : h[k].low <= h[j].low
      BY <1>2, <2>2, <2>3
    <2>. QED BY <2>3, <2>4, <2>5
  <1>. QED BY <1>4, <1>5 DEF f, p, q

LEMMA BreakoutsInv ==
    ASSUME SeriesInv
    PROVE  BreakoutsBreakOut
  <1> DEFINE f == Features(bars)
             Up == "CLOSE_BREAKOUT_ABOVE_PRIOR_HIGH"
             Down == "CLOSE_BREAKDOWN_BELOW_PRIOR_LOW"
  <1>1. /\ SeriesAssumption /\ ResearchAssumption /\ bars \in Seq(ValidBars)
        /\ DOMAIN bars = 1 .. Len(bars) /\ research.evidence = Evidence(bars, f)
    BY DEF SeriesInv, Analyze
  <1> HIDE DEF f
  <1> SUFFICES ASSUME NEW i \in DOMAIN bars
               PROVE  /\ i > Period["high"] =>
                            (research.evidence[i][Up] = "ACTIVE"
                              <=> \A j \in i - Period["high"] .. i - 1 : bars[j].high < bars[i].close)
                      /\ i > Period["low"] =>
                            (research.evidence[i][Down] = "ACTIVE"
                              <=> \A j \in i - Period["low"] .. i - 1 : bars[j].low > bars[i].close)
    BY DEF BreakoutsBreakOut
  <1>2. /\ research.evidence[i][Up] = EvaluateRule(Up, bars[i], <<Prior(f.high, i)>>)
        /\ research.evidence[i][Down] = EvaluateRule(Down, bars[i], <<Prior(f.low, i)>>)
    BY <1>1 DEF Evidence, EvidenceKeys, Sources
  <1>3. /\ Period["high"] \in Nat \ {0} /\ Period["low"] \in Nat \ {0}
        /\ i \in 1 .. Len(bars) /\ Len(bars) \in Nat
    BY <1>1 DEF ResearchAssumption, Kinds
  <1>4. /\ \A j \in 1 .. Len(bars) : bars[j].high \in Int /\ bars[j].low \in Int
        /\ bars[i].close \in Int
    <2>1. \A j \in 1 .. Len(bars) : bars[j] \in BarType
      BY <1>1, ValuesAre
    <2>2. \A b \in BarType : b.high \in Int /\ b.low \in Int /\ b.close \in Int
      BY DEF BarType
    <2>. QED BY <1>3, <2>1, <2>2
  <1>5. ASSUME i > Period["high"]
        PROVE  research.evidence[i][Up] = "ACTIVE"
                  <=> \A j \in i - Period["high"] .. i - 1 : bars[j].high < bars[i].close
    <2>1. PICK k \in i - Period["high"] .. i - 1 :
                /\ Prior(f.high, i) = Available(bars[k].high, 1)
                /\ \A j \in i - Period["high"] .. i - 1 : bars[k].high >= bars[j].high
      BY <1>1, <1>3, <1>5, PriorIs DEF f
    <2>2. /\ research.evidence[i][Up] = "ACTIVE" => Holds(Up, bars[i], <<Prior(f.high, i)>>)
          /\ Holds(Up, bars[i], <<Prior(f.high, i)>>) => research.evidence[i][Up] = "ACTIVE"
      BY <1>2, <2>1, OneOperand
    <2>3. \A j \in i - Period["high"] .. i - 1 : j \in 1 .. Len(bars)
      BY <1>3, <1>5
    <2>4. /\ Holds(Up, bars[i], <<Prior(f.high, i)>>) => bars[k].high < bars[i].close
          /\ bars[k].high < bars[i].close => Holds(Up, bars[i], <<Prior(f.high, i)>>)
      <3>1. bars[k].high \in Int
        BY <1>4, <2>3
      <3>. QED BY <1>4, <2>1, <3>1, RuleIs
    <2>5. bars[k].high < bars[i].close =>
              \A j \in i - Period["high"] .. i - 1 : bars[j].high < bars[i].close
      BY <1>4, <2>1, <2>3
    <2>6. (\A j \in i - Period["high"] .. i - 1 : bars[j].high < bars[i].close)
              => bars[k].high < bars[i].close
      OBVIOUS
    <2>. QED BY ONLY <2>2, <2>4, <2>5, <2>6
  <1>6. ASSUME i > Period["low"]
        PROVE  research.evidence[i][Down] = "ACTIVE"
                  <=> \A j \in i - Period["low"] .. i - 1 : bars[j].low > bars[i].close
    <2>1. PICK k \in i - Period["low"] .. i - 1 :
                /\ Prior(f.low, i) = Available(bars[k].low, 1)
                /\ \A j \in i - Period["low"] .. i - 1 : bars[k].low <= bars[j].low
      BY <1>1, <1>3, <1>6, PriorIs DEF f
    <2>2. /\ research.evidence[i][Down] = "ACTIVE" => Holds(Down, bars[i], <<Prior(f.low, i)>>)
          /\ Holds(Down, bars[i], <<Prior(f.low, i)>>) => research.evidence[i][Down] = "ACTIVE"
      BY <1>2, <2>1, OneOperand
    <2>3. \A j \in i - Period["low"] .. i - 1 : j \in 1 .. Len(bars)
      BY <1>3, <1>6
    <2>4. /\ Holds(Down, bars[i], <<Prior(f.low, i)>>) => bars[k].low > bars[i].close
          /\ bars[k].low > bars[i].close => Holds(Down, bars[i], <<Prior(f.low, i)>>)
      <3>1. bars[k].low \in Int
        BY <1>4, <2>3
      <3>. QED BY <1>4, <2>1, <3>1, RuleIs
    <2>5. bars[k].low > bars[i].close =>
              \A j \in i - Period["low"] .. i - 1 : bars[j].low > bars[i].close
      BY <1>4, <2>1, <2>3
    <2>6. (\A j \in i - Period["low"] .. i - 1 : bars[j].low > bars[i].close)
              => bars[k].low > bars[i].close
      OBVIOUS
    <2>. QED BY ONLY <2>2, <2>4, <2>5, <2>6
  <1>. QED BY <1>5, <1>6

(* Evidence of one bar, pair by pair.                                       *)
Apart(e) ==
    /\ ~(e.PRICE_ABOVE_SMA = "ACTIVE" /\ e.PRICE_BELOW_SMA = "ACTIVE")
    /\ ~(e.EMA_ABOVE_SMA = "ACTIVE" /\ e.EMA_BELOW_SMA = "ACTIVE")
    /\ ~(e.CLOSE_BREAKOUT_ABOVE_PRIOR_HIGH = "ACTIVE" /\ e.CLOSE_BREAKDOWN_BELOW_PRIOR_LOW = "ACTIVE")
    /\ ~(e.RSI_OVERBOUGHT = "ACTIVE" /\ e.RSI_OVERSOLD = "ACTIVE")
    /\ ~(e.RSI_OVERBOUGHT = "ACTIVE" /\ e.RSI_MIDRANGE = "ACTIVE")
    /\ ~(e.RSI_OVERSOLD = "ACTIVE" /\ e.RSI_MIDRANGE = "ACTIVE")
    /\ ~(e.VOLUME_ZSCORE_HIGH = "ACTIVE" /\ e.VOLUME_ZSCORE_LOW = "ACTIVE")

LEMMA EvidenceApart ==
    ASSUME ResearchAssumption, NEW h \in Seq(ValidBars), NEW i \in 1 .. Len(h), NEW e,
           Says(Features(h), h[i], i, e)
    PROVE  Apart(e)
  <1> DEFINE f == Features(h)
             close == h[i].close
  <1>1. close \in Int /\ \A j \in 1 .. Len(h) : h[j].low \in Int /\ h[j].high \in Int /\ h[j].low <= h[j].high
    <2>1. \A j \in 1 .. Len(h) : h[j] \in ValidBars /\ h[j] \in BarType
      BY ValuesAre
    <2>2. \A b \in ValidBars : b \in BarType => /\ b.low \in Int /\ b.high \in Int /\ b.close \in Int
                                           /\ b.low <= b.high
      <3>1. \A b \in ValidBars : b.low <= b.open /\ b.open <= b.high
        BY DEF ValidBars
      <3>. QED BY <3>1 DEF BarType
    <2>. QED BY <2>1, <2>2
  <1>2. /\ i > Period["high"] =>
            /\ Prior(f.high, i).num \in Int /\ Prior(f.high, i).den = 1
            /\ \A j \in i - Period["high"] .. i - 1 : Prior(f.high, i).num >= h[j].high
        /\ i > Period["low"] =>
            /\ Prior(f.low, i).num \in Int /\ Prior(f.low, i).den = 1
            /\ \A j \in i - Period["low"] .. i - 1 : Prior(f.low, i).num <= h[j].low
        /\ i > Period["rsi"] => Strength(f.rsi[i])
    BY PriorsAre
  <1>3. Period["high"] \in Nat \ {0} /\ Period["low"] \in Nat \ {0}
    BY DEF ResearchAssumption, Kinds
  <1>4. Says(f, h[i], i, e)
    OBVIOUS
  <1> HIDE DEF f, close
  <1>5. ASSUME NEW x, Fraction(x), Below(x, close), Above(x, close) PROVE FALSE
    <2>1. x.num \in Int /\ close * x.den \in Int
      BY <1>1, <1>5 DEF Fraction
    <2>. QED BY <1>5, <2>1 DEF Above, Below
  <1>6. ASSUME NEW x, NEW y, Fraction(x), Fraction(y), Exceeds(x, y), Exceeds(y, x) PROVE FALSE
    <2>1. x.num * y.den \in Int /\ y.num * x.den \in Int
      BY <1>6 DEF Fraction
    <2>. QED BY <1>6, <2>1 DEF Exceeds
  <1>7. ~(e.PRICE_ABOVE_SMA = "ACTIVE" /\ e.PRICE_BELOW_SMA = "ACTIVE")
    BY <1>4, <1>5 DEF Says, close
  <1>8. ~(e.EMA_ABOVE_SMA = "ACTIVE" /\ e.EMA_BELOW_SMA = "ACTIVE")
    BY <1>4, <1>6 DEF Says
  <1>9. ~(e.VOLUME_ZSCORE_HIGH = "ACTIVE" /\ e.VOLUME_ZSCORE_LOW = "ACTIVE")
    <2>1. \A x : Fraction(x) /\ x.num > 0 /\ x.num < 0 => FALSE
      BY DEF Fraction
    <2>. QED BY <1>4, <2>1 DEF Says
  <1>10. ~(e.CLOSE_BREAKOUT_ABOVE_PRIOR_HIGH = "ACTIVE" /\ e.CLOSE_BREAKDOWN_BELOW_PRIOR_LOW = "ACTIVE")
    <2> SUFFICES ASSUME i > Period["high"], Below(Prior(f.high, i), close),
                        i > Period["low"], Above(Prior(f.low, i), close)
                 PROVE  FALSE
      BY <1>4 DEF Says, close
    <2> DEFINE x == Prior(f.high, i)
               y == Prior(f.low, i)
    <2>1. /\ i - 1 \in i - Period["high"] .. i - 1 /\ i - 1 \in i - Period["low"] .. i - 1
          /\ i - 1 \in 1 .. Len(h)
      BY <1>3
    <2>2. x.num \in Int /\ x.den = 1 /\ y.num \in Int /\ y.den = 1
          /\ x.num >= h[i - 1].high /\ y.num <= h[i - 1].low
      BY <1>2, <2>1
    <2>3. h[i - 1].low \in Int /\ h[i - 1].high \in Int /\ h[i - 1].low <= h[i - 1].high
      BY <1>1, <2>1
    <2>4. x.num < close * x.den /\ y.num > close * y.den
      BY DEF Above, Below
    <2> HIDE DEF x, y
    <2>. QED BY <1>1, <2>2, <2>3, <2>4
  <1>11. /\ ~(e.RSI_OVERBOUGHT = "ACTIVE" /\ e.RSI_OVERSOLD = "ACTIVE")
         /\ ~(e.RSI_OVERBOUGHT = "ACTIVE" /\ e.RSI_MIDRANGE = "ACTIVE")
         /\ ~(e.RSI_OVERSOLD = "ACTIVE" /\ e.RSI_MIDRANGE = "ACTIVE")
    <2> DEFINE x == f.rsi[i]
    <2>1. i > Period["rsi"] => /\ x.num \in Int /\ x.den \in Nat /\ x.den > 0
      BY <1>2 DEF Strength, Positive
    <2> HIDE DEF x
    <2>2. Oversold \in Nat /\ Overbought \in Nat /\ Oversold < Overbought
      BY DEF ResearchAssumption
    <2>3. i > Period["rsi"] => /\ Oversold * x.den \in Int /\ Overbought * x.den \in Int
                               /\ Oversold * x.den < Overbought * x.den
      BY <2>1, <2>2
    <2>4. /\ e.RSI_OVERBOUGHT = "ACTIVE" => i > Period["rsi"] /\ ~(x.num < Overbought * x.den)
          /\ e.RSI_OVERSOLD = "ACTIVE" => i > Period["rsi"] /\ ~(x.num > Oversold * x.den)
          /\ e.RSI_MIDRANGE = "ACTIVE" =>
                i > Period["rsi"] /\ x.num > Oversold * x.den /\ x.num < Overbought * x.den
      BY <1>4 DEF Says, x, Above, Below
    <2>. QED BY <2>1, <2>3, <2>4
  <1>. QED BY <1>7, <1>8, <1>9, <1>10, <1>11 DEF Apart

(* A setup never stands against the trend.                                  *)
LEMMA SetupsTrend ==
    ASSUME ResearchAssumption, RegimeAssumption,
           NEW h \in Seq(ValidBars), NEW i \in 1 .. Len(h), NEW e, Says(Features(h), h[i], i, e)
    PROVE  LET regime == Derive(h[i].close, Features(h).sma[i], Features(h).return[i]) IN
           /\ e.PRICE_ABOVE_SMA = "ACTIVE" /\ e.CLOSE_BREAKOUT_ABOVE_PRIOR_HIGH = "ACTIVE" =>
                regime \in {"UPWARD", "UNDEFINED", "WARMING_UP"}
           /\ e.PRICE_BELOW_SMA = "ACTIVE" /\ e.CLOSE_BREAKDOWN_BELOW_PRIOR_LOW = "ACTIVE" =>
                regime \in {"DOWNWARD", "UNDEFINED", "WARMING_UP"}
  <1> DEFINE f == Features(h)
             close == h[i].close
             sma == f.sma[i]
             return == f.return[i]
             x == Prior(f.high, i)
             y == Prior(f.low, i)
             p == Period["high"]
             q == Period["low"]
             r == Period["return"]
             regime == Derive(close, sma, return)
  <1>1. close \in Int /\ \A j \in 1 .. Len(h) : /\ h[j].low \in Int /\ h[j].high \in Int
                                                /\ h[j].close \in Int
                                                /\ h[j].low <= h[j].close /\ h[j].close <= h[j].high
    <2>1. \A j \in 1 .. Len(h) : h[j] \in ValidBars /\ h[j] \in BarType
      BY ValuesAre
    <2>2. \A b \in ValidBars : b \in BarType => /\ b.low \in Int /\ b.high \in Int /\ b.close \in Int
                                           /\ b.low <= b.close /\ b.close <= b.high
      <3>1. \A b \in ValidBars : b.low <= b.close /\ b.close <= b.high
        BY DEF ValidBars
      <3>. QED BY <3>1 DEF BarType
    <2>. QED BY <2>1, <2>2
  <1>2. /\ i > p => x.num \in Int /\ x.den = 1 /\ \A j \in i - p .. i - 1 : x.num >= h[j].high
        /\ i > q => y.num \in Int /\ y.den = 1 /\ \A j \in i - q .. i - 1 : y.num <= h[j].low
        /\ return.status = "AVAILABLE" => i > r /\ return.num = close - h[i - r].close
    BY PriorsAre
  <1>3. p \in Nat \ {0} /\ q \in Nat \ {0} /\ r \in Nat \ {0} /\ r <= p /\ r <= q
    BY DEF ResearchAssumption, Kinds, RegimeAssumption
  <1>4. /\ e.PRICE_ABOVE_SMA = "ACTIVE" => Fraction(sma) /\ Below(sma, close)
        /\ e.PRICE_BELOW_SMA = "ACTIVE" => Fraction(sma) /\ Above(sma, close)
        /\ e.CLOSE_BREAKOUT_ABOVE_PRIOR_HIGH = "ACTIVE" => i > p /\ Below(x, close)
        /\ e.CLOSE_BREAKDOWN_BELOW_PRIOR_LOW = "ACTIVE" => i > q /\ Above(y, close)
    BY DEF Says
  <1>5. return.status \in {"WARMING_UP", "UNDEFINED", "AVAILABLE"}
    <2>1. WarmBy(return, i, r + 1) /\ i \in Nat
      BY FeaturesReady DEF AllReady
    <2>2. i < r + 1 \/ i >= r + 1
      BY <1>3
    <2>. QED BY <2>1, <2>2 DEF WarmBy, Warming
  <1> HIDE DEF f, close, sma, return, x, y, p, q, r, regime
  <1>6. ASSUME i > p, Below(x, close), return.status = "AVAILABLE" PROVE return.num > 0
    <2>1. i > r /\ i - r \in i - p .. i - 1 /\ i - r \in 1 .. Len(h)
      BY <1>2, <1>3, <1>6
    <2>2. x.num >= h[i - r].high /\ x.num \in Int /\ x.num < close * 1
      BY <1>2, <1>6, <2>1 DEF Below
    <2>3. h[i - r].close <= h[i - r].high /\ h[i - r].close \in Int /\ h[i - r].high \in Int
      BY <1>1, <2>1
    <2>. QED BY <1>1, <1>2, <1>6, <2>2, <2>3
  <1>7. ASSUME i > q, Above(y, close), return.status = "AVAILABLE" PROVE return.num < 0
    <2>1. i > r /\ i - r \in i - q .. i - 1 /\ i - r \in 1 .. Len(h)
      BY <1>2, <1>3, <1>7
    <2>2. y.num <= h[i - r].low /\ y.num \in Int /\ y.num > close * 1
      BY <1>2, <1>7, <2>1 DEF Above
    <2>3. h[i - r].low <= h[i - r].close /\ h[i - r].close \in Int /\ h[i - r].low \in Int
      BY <1>1, <2>1
    <2>. QED BY <1>1, <1>2, <1>7, <2>2, <2>3
  <1>8. Fraction(sma) => ~(Below(sma, close) /\ Above(sma, close)) /\ sma.status = "AVAILABLE"
    <2>1. Fraction(sma) => sma.num \in Int /\ close * sma.den \in Int
      BY <1>1 DEF Fraction
    <2>. QED BY <2>1 DEF Below, Above, Fraction
  <1>9. sma.status = "AVAILABLE" /\ return.status # "AVAILABLE" =>
            regime \in {"UNDEFINED", "WARMING_UP"}
    BY <1>5 DEF regime, Derive, Availability
  <1>10. sma.status = "AVAILABLE" /\ return.status = "AVAILABLE" =>
            /\ Below(sma, close) /\ return.num > 0 => regime = "UPWARD"
            /\ ~Below(sma, close) /\ Above(sma, close) /\ return.num < 0 => regime = "DOWNWARD"
    BY DEF regime, Derive, Availability
  <1>11. e.PRICE_ABOVE_SMA = "ACTIVE" /\ e.CLOSE_BREAKOUT_ABOVE_PRIOR_HIGH = "ACTIVE" =>
            regime \in {"UPWARD", "UNDEFINED", "WARMING_UP"}
    BY <1>4, <1>6, <1>8, <1>9, <1>10
  <1>12. e.PRICE_BELOW_SMA = "ACTIVE" /\ e.CLOSE_BREAKDOWN_BELOW_PRIOR_LOW = "ACTIVE" =>
            regime \in {"DOWNWARD", "UNDEFINED", "WARMING_UP"}
    BY <1>4, <1>7, <1>8, <1>9, <1>10
  <1>. QED BY <1>11, <1>12 DEF regime, close, sma, return, f

LEMMA EvidenceInv ==
    ASSUME SeriesInv, RegimeAssumption
    PROVE  EvidenceIsConsistent
  <1> DEFINE f == Features(bars)
  <1>1. /\ SeriesAssumption /\ ResearchAssumption /\ bars \in Seq(ValidBars)
        /\ DOMAIN bars = 1 .. Len(bars) /\ Len(bars) \in Nat
        /\ research.evidence = Evidence(bars, f)
        /\ research.setups = Setups(research.evidence)
        /\ research.regime = Regime(bars, f)
    BY DEF SeriesInv, Analyze
  <1> SUFFICES ASSUME NEW i \in DOMAIN bars
               PROVE  LET evidence == research.evidence[i]
                          setups == research.setups[i]
                          regime == research.regime[i]
                          Active(keys) == {key \in keys : evidence[key] = "ACTIVE"}
                          OneAtMost(keys) == \A a, b \in Active(keys) : a = b
                      IN
                      /\ OneAtMost({"PRICE_ABOVE_SMA", "PRICE_BELOW_SMA"})
                      /\ OneAtMost({"EMA_ABOVE_SMA", "EMA_BELOW_SMA"})
                      /\ OneAtMost({"CLOSE_BREAKOUT_ABOVE_PRIOR_HIGH", "CLOSE_BREAKDOWN_BELOW_PRIOR_LOW"})
                      /\ OneAtMost({"RSI_OVERBOUGHT", "RSI_OVERSOLD", "RSI_MIDRANGE"})
                      /\ OneAtMost({"VOLUME_ZSCORE_HIGH", "VOLUME_ZSCORE_LOW"})
                      /\ setups.upside = "ACTIVE" => regime \in {"UPWARD", "UNDEFINED", "WARMING_UP"}
                      /\ setups.downside = "ACTIVE" => regime \in {"DOWNWARD", "UNDEFINED", "WARMING_UP"}
    BY DEF EvidenceIsConsistent
  <1> DEFINE e == [key \in EvidenceKeys |-> EvaluateRule(key, bars[i], Sources(key, f, i))]
  <1>2. i \in 1 .. Len(bars) /\ i \in Nat
    BY <1>1
  <1>3. /\ research.evidence[i] = e
        /\ research.setups[i] = [upside |-> SetupStatus({e.PRICE_ABOVE_SMA,
                                                         e.CLOSE_BREAKOUT_ABOVE_PRIOR_HIGH}),
                                 downside |-> SetupStatus({e.PRICE_BELOW_SMA,
                                                           e.CLOSE_BREAKDOWN_BELOW_PRIOR_LOW})]
        /\ research.regime[i] = Derive(bars[i].close, f.sma[i], f.return[i])
    <2>1. research.evidence[i] = e /\ i \in DOMAIN research.evidence
      BY <1>1 DEF Evidence
    <2> HIDE DEF e, f
    <2>. QED BY <1>1, <2>1 DEF Setups, Regime
  <1>4. Says(f, bars[i], i, e)
    <2>1. AllReady(f, i)
      BY <1>1, <1>2, FeaturesReady
    <2>. QED BY <1>1, <1>2, <2>1, EvidenceSays
  <1> HIDE DEF e
  <1>5. Apart(e)
    BY <1>1, <1>2, <1>4, EvidenceApart
  <1>6. LET regime == Derive(bars[i].close, f.sma[i], f.return[i]) IN
           /\ e.PRICE_ABOVE_SMA = "ACTIVE" /\ e.CLOSE_BREAKOUT_ABOVE_PRIOR_HIGH = "ACTIVE" =>
                regime \in {"UPWARD", "UNDEFINED", "WARMING_UP"}
           /\ e.PRICE_BELOW_SMA = "ACTIVE" /\ e.CLOSE_BREAKDOWN_BELOW_PRIOR_LOW = "ACTIVE" =>
                regime \in {"DOWNWARD", "UNDEFINED", "WARMING_UP"}
    BY <1>1, <1>2, <1>4, SetupsTrend
  <1> HIDE DEF f
  <1>7. \A a, b : SetupStatus({a, b}) = "ACTIVE" => a = "ACTIVE" /\ b = "ACTIVE"
    <2> SUFFICES ASSUME NEW a, NEW b, SetupStatus({a, b}) = "ACTIVE"
                 PROVE  a = "ACTIVE" /\ b = "ACTIVE"
      OBVIOUS
    <2>1. {a, b} = {"ACTIVE"}
      BY DEF SetupStatus, Availability
    <2>. QED BY <2>1
  <1>8. /\ \A a, b \in {key \in {"PRICE_ABOVE_SMA", "PRICE_BELOW_SMA"} : e[key] = "ACTIVE"} : a = b
        /\ \A a, b \in {key \in {"EMA_ABOVE_SMA", "EMA_BELOW_SMA"} : e[key] = "ACTIVE"} : a = b
        /\ \A a, b \in {key \in {"CLOSE_BREAKOUT_ABOVE_PRIOR_HIGH",
                                 "CLOSE_BREAKDOWN_BELOW_PRIOR_LOW"} : e[key] = "ACTIVE"} : a = b
        /\ \A a, b \in {key \in {"RSI_OVERBOUGHT", "RSI_OVERSOLD", "RSI_MIDRANGE"} :
                            e[key] = "ACTIVE"} : a = b
        /\ \A a, b \in {key \in {"VOLUME_ZSCORE_HIGH", "VOLUME_ZSCORE_LOW"} :
                            e[key] = "ACTIVE"} : a = b
    BY <1>5 DEF Apart
  <1>9. /\ research.setups[i].upside = "ACTIVE" =>
                research.regime[i] \in {"UPWARD", "UNDEFINED", "WARMING_UP"}
        /\ research.setups[i].downside = "ACTIVE" =>
                research.regime[i] \in {"DOWNWARD", "UNDEFINED", "WARMING_UP"}
    <2> DEFINE regime == Derive(bars[i].close, f.sma[i], f.return[i])
               above == e.PRICE_ABOVE_SMA
               below == e.PRICE_BELOW_SMA
               breakout == e.CLOSE_BREAKOUT_ABOVE_PRIOR_HIGH
               breakdown == e.CLOSE_BREAKDOWN_BELOW_PRIOR_LOW
    <2>1. /\ above = "ACTIVE" /\ breakout = "ACTIVE" => regime \in {"UPWARD", "UNDEFINED", "WARMING_UP"}
          /\ below = "ACTIVE" /\ breakdown = "ACTIVE" => regime \in {"DOWNWARD", "UNDEFINED", "WARMING_UP"}
      BY <1>6
    <2>2. research.regime[i] = regime
      BY <1>3
    <2>3. /\ research.setups[i].upside = SetupStatus({above, breakout})
          /\ research.setups[i].downside = SetupStatus({below, breakdown})
      BY <1>3
    <2> HIDE DEF regime, above, below, breakout, breakdown
    <2>4. SetupStatus({above, breakout}) = "ACTIVE" => above = "ACTIVE" /\ breakout = "ACTIVE"
      BY <1>7
    <2>5. SetupStatus({below, breakdown}) = "ACTIVE" => below = "ACTIVE" /\ breakdown = "ACTIVE"
      BY <1>7
    <2>. QED BY ONLY <2>1, <2>2, <2>3, <2>4, <2>5
  <1>. QED BY <1>3, <1>8, <1>9

(* For any bars whose low and high hold the open and the close, any periods *)
(* and thresholds: sums, extremes and averages are those of their windows,  *)
(* evidence about a bar does not contradict itself, a close breaks out      *)
(* exactly when it is beyond every bar of the window before it, no setup    *)
(* stands against the trend, and evidence warms up once.                    *)
THEOREM ConsistentResearch ==
    SeriesAssumption /\ ResearchAssumption /\ RegimeAssumption /\ SeriesSpec => []ResearchIsConsistent
  <1> DEFINE Inv == SeriesInv /\ RegimeAssumption
  <1>1. SeriesAssumption /\ ResearchAssumption /\ RegimeAssumption /\ SeriesInit => Inv
    BY DEF SeriesInit, SeriesInv, SeriesAssumption, ResearchAssumption, RegimeAssumption
  <1>2. Inv /\ [SeriesNext]_seriesVars => Inv'
    BY SeriesNextInv DEF RegimeAssumption
  <1>3. Inv => ResearchIsConsistent
    BY MeantInv, EvidenceInv, BreakoutsInv, WarmthInv DEF ResearchIsConsistent
  <1> HIDE DEF Inv
  <1>. QED BY <1>1, <1>2, <1>3, PTL DEF SeriesSpec

-----------------------------------------------------------------------------
(* What the log holds.                                                      *)
Observed ==
    [knownAt : Nat, instrument : Range(Instruments), source : {o.source : o \in Feed},
     at : Nat, close : Nat]
Until(x) == {o \in Observed : o.at <= x}

(* The last of each time, in the order of time.                             *)
Lasts(c) == {c[i] : i \in {j \in DOMAIN c : ~\E k \in DOMAIN c : k > j /\ c[k].at = c[j].at}}
ByTime(W) == {p \in W \X W : p[1].at < p[2].at}
Timeline(c) == Enumerate(Lasts(c), ByTime(Lasts(c)))

LEMMA LastsAre ==
    ASSUME NEW c \in Seq(Observed)
    PROVE  /\ IsFiniteSet(Lasts(c)) /\ Lasts(c) \subseteq Observed
           /\ StrictOrder(Lasts(c), ByTime(Lasts(c)))
           /\ \A i \in 1 .. Len(c) : \E w \in Lasts(c) : w.at = c[i].at
           /\ \A w \in Lasts(c) : \E i \in 1 .. Len(c) : w = c[i]
  <1> DEFINE I == {j \in DOMAIN c : ~\E k \in DOMAIN c : k > j /\ c[k].at = c[j].at}
             W == Lasts(c)
  <1>1. /\ Len(c) \in Nat /\ DOMAIN c = 1 .. Len(c) /\ I \subseteq 1 .. Len(c)
        /\ \A i \in 1 .. Len(c) : c[i] \in Observed /\ c[i].at \in Nat
    <2>1. /\ Len(c) \in Nat /\ DOMAIN c = 1 .. Len(c) /\ I \subseteq 1 .. Len(c)
          /\ \A i \in 1 .. Len(c) : c[i] \in Observed
      OBVIOUS
    <2>2. \A o \in Observed : o.at \in Nat
      BY DEF Observed
    <2>. QED BY <2>1, <2>2
  <1>2. IsFiniteSet(W)
    <2>0. IsFiniteSet(1 .. Len(c))
      <3>1. Len(c) \in Nat
        BY <1>1
      <3>. QED BY ONLY <3>1, FiniteUpTo
    <2>1. IsFiniteSet(I)
      BY <1>1, <2>0, FS_Subset
    <2> HIDE DEF I
    <2>2. IsFiniteSet({c[i] : i \in I})
      BY <2>1, FiniteValues
    <2>3. W = {c[i] : i \in I}
      BY DEF Lasts, I
    <2>. QED BY <2>2, <2>3
  <1>3. \A w \in W : \E i \in I : w = c[i]
    BY DEF Lasts
  <1>4. \A v, w \in W : v.at = w.at => v = w
    <2> SUFFICES ASSUME NEW v \in W, NEW w \in W, v.at = w.at PROVE v = w
      OBVIOUS
    <2>1. PICK i \in I : v = c[i]
      BY <1>3
    <2>2. PICK j \in I : w = c[j]
      BY <1>3
    <2>3. ~(i < j) /\ ~(j < i)
      BY <1>1, <2>1, <2>2
    <2>. QED BY <1>1, <2>1, <2>2, <2>3
  <1>5. ASSUME NEW i \in 1 .. Len(c) PROVE \E w \in W : w.at = c[i].at
    <2> DEFINE S == {n \in Nat : \E k \in 1 .. Len(c) : c[k].at = c[i].at /\ n = Len(c) - k}
    <2>1. S \in SUBSET Nat /\ Len(c) - i \in S
      BY <1>1
    <2>2. PICK n \in S : \A m \in S : n <= m
      <3> HIDE DEF S
      <3>. QED BY <2>1, LeastNatural
    <2>3. PICK k \in 1 .. Len(c) : c[k].at = c[i].at /\ n = Len(c) - k
      BY <2>2
    <2>4. \A j \in 1 .. Len(c) : c[j].at = c[k].at => j <= k
      <3> SUFFICES ASSUME NEW j \in 1 .. Len(c), c[j].at = c[k].at PROVE j <= k
        OBVIOUS
      <3>1. Len(c) - j \in S
        BY <1>1, <2>3
      <3>2. n <= Len(c) - j
        BY <2>2, <3>1
      <3>. QED BY <1>1, <2>3, <3>2
    <2>5. k \in I
      <3>1. ~\E j \in DOMAIN c : j > k /\ c[j].at = c[k].at
        <4> SUFFICES ASSUME NEW j \in DOMAIN c, j > k, c[j].at = c[k].at PROVE FALSE
          OBVIOUS
        <4>1. j \in 1 .. Len(c)
          BY <1>1
        <4>2. j <= k
          BY <2>4, <4>1
        <4>3. j \in Int /\ k \in Int
          BY <4>1
        <4>. QED BY <4>2, <4>3
      <3>. QED BY <1>1, <3>1
    <2>6. c[k] \in W
      BY <2>5 DEF Lasts
    <2>. QED BY <2>3, <2>6
  <1> HIDE DEF W
  <1>6. \A w \in W : w \in Observed /\ w.at \in Nat
    BY <1>1, <1>3
  <1>7. StrictOrder(W, ByTime(W))
    <2>1. \A v, w \in W : <<v, w>> \in ByTime(W) <=> v.at < w.at
      BY DEF ByTime
    <2>. QED BY <1>4, <1>6, <2>1 DEF StrictOrder
  <1>8. \A w \in W : \E i \in 1 .. Len(c) : w = c[i]
    BY <1>1, <1>3
  <1>. QED BY <1>2, <1>5, <1>6, <1>7, <1>8 DEF W

LEMMA LastsUntil ==
    ASSUME NEW c \in Seq(Observed), NEW x
    PROVE  Lasts(Filtered(c, Until(x))) = Lasts(c) \cap Until(x)
  <1> DEFINE I == Where(c, Until(x))
             e == Enumerate(I, Upward(I))
             t == Filtered(c, Until(x))
             n == Cardinality(I)
  <1>1. /\ I \subseteq 1 .. Len(c) /\ Climbs(e, n, I) /\ t \in Seq(Observed) /\ Len(t) = n
        /\ t = [k \in 1 .. n |-> c[e[k]]]
    <2>1. Filters(Observed, c, Until(x))
      BY WhereIs
    <2>. QED BY <2>1 DEF Filters
  <1>2. /\ \A i : i \in I <=> i \in 1 .. Len(c) /\ c[i].at <= x
        /\ \A i \in 1 .. Len(c) : c[i] \in Until(x) <=> c[i].at <= x
        /\ DOMAIN c = 1 .. Len(c) /\ Len(c) \in Nat
    BY DEF Where, Until
  <1> HIDE DEF I, e, n
  <1>3. /\ n \in Nat /\ e \in [1 .. n -> I]
        /\ \A j, k \in 1 .. n : j < k <=> e[j] < e[k]
        /\ \A y \in I : \E k \in 1 .. n : e[k] = y
        /\ DOMAIN t = 1 .. n /\ \A k \in 1 .. n : t[k] = c[e[k]] /\ e[k] \in 1 .. Len(c) /\ e[k] \in I
    BY <1>1 DEF Climbs
  <1> HIDE DEF t
  <1>4. ASSUME NEW w \in Lasts(t) PROVE w \in Lasts(c) /\ w \in Until(x)
    <2>1. PICK j \in 1 .. n : w = t[j] /\ ~\E k \in 1 .. n : k > j /\ t[k].at = t[j].at
      BY <1>3 DEF Lasts
    <2>2. w = c[e[j]] /\ e[j] \in 1 .. Len(c) /\ c[e[j]].at <= x /\ w \in Until(x)
      BY <1>2, <1>3, <2>1
    <2>3. ASSUME NEW k \in 1 .. Len(c), k > e[j], c[k].at = c[e[j]].at PROVE FALSE
      <3>1. k \in I
        BY <1>2, <2>2, <2>3
      <3>2. PICK l \in 1 .. n : e[l] = k
        BY <1>3, <3>1
      <3>3. l > j /\ t[l].at = t[j].at
        BY <1>3, <2>1, <2>2, <2>3, <3>2
      <3>. QED BY <2>1, <3>3
    <2>4. c[e[j]] \in Lasts(c)
      BY <1>2, <2>2, <2>3 DEF Lasts
    <2>. QED BY <2>2, <2>4
  <1>5. ASSUME NEW w \in Lasts(c), w \in Until(x) PROVE w \in Lasts(t)
    <2>1. PICK i \in 1 .. Len(c) : w = c[i] /\ ~\E k \in 1 .. Len(c) : k > i /\ c[k].at = c[i].at
      BY <1>2 DEF Lasts
    <2>2. i \in I
      BY <1>2, <1>5, <2>1
    <2>3. PICK j \in 1 .. n : e[j] = i
      BY <1>3, <2>2
    <2>4. ASSUME NEW k \in 1 .. n, k > j, t[k].at = t[j].at PROVE FALSE
      <3>1. e[k] > e[j] /\ c[e[k]].at = c[e[j]].at /\ e[k] \in 1 .. Len(c)
        BY <1>1, <1>3, <2>4
      <3>. QED BY <2>1, <2>3, <3>1
    <2>5. t[j] \in Lasts(t)
      BY <1>3, <2>4 DEF Lasts
    <2>. QED BY <1>3, <2>1, <2>3, <2>5
  <1>. QED BY <1>4, <1>5 DEF t

(* The bars of a series, in the order of time.                              *)
LEMMA TimelineIs ==
    ASSUME NEW c \in Seq(Observed)
    PROVE  /\ Timeline(c) \in Seq(Observed)
           /\ \A i \in 1 .. Len(c) : \E j \in 1 .. Len(Timeline(c)) : Timeline(c)[j].at = c[i].at
           /\ \A j \in 1 .. Len(Timeline(c)) : \E i \in 1 .. Len(c) : Timeline(c)[j] = c[i]
           /\ \A i, j \in 1 .. Len(Timeline(c)) : i < j <=> Timeline(c)[i].at < Timeline(c)[j].at
  <1> DEFINE W == Lasts(c)
             t == Timeline(c)
  <1>1. /\ IsFiniteSet(W) /\ W \subseteq Observed /\ StrictOrder(W, ByTime(W))
        /\ \A i \in 1 .. Len(c) : \E w \in W : w.at = c[i].at
        /\ \A w \in W : \E i \in 1 .. Len(c) : w = c[i]
    BY LastsAre
  <1>2. t = Enumerate(W, ByTime(W))
    BY DEF Timeline
  <1>3. \A v, w \in W : <<v, w>> \in ByTime(W) <=> v.at < w.at
    BY DEF ByTime
  <1> HIDE DEF W, t
  <1>4. /\ t \in Seq(W) /\ DOMAIN t = 1 .. Cardinality(W) /\ Len(t) = Cardinality(W)
        /\ \A i, j \in 1 .. Cardinality(W) : i < j <=> <<t[i], t[j]>> \in ByTime(W)
        /\ \A x \in W : \E i \in 1 .. Cardinality(W) : t[i] = x
    <2> DEFINE R == ByTime(W)
    <2>1. IsFiniteSet(W) /\ StrictOrder(W, R)
      BY <1>1
    <2> HIDE DEF R
    <2>2. LET e == Enumerate(W, R) IN
           /\ e \in Seq(W) /\ DOMAIN e = 1 .. Cardinality(W) /\ Len(e) = Cardinality(W)
           /\ \A i, j \in 1 .. Cardinality(W) : i < j <=> <<e[i], e[j]>> \in R
           /\ \A x \in W : \E i \in 1 .. Cardinality(W) : e[i] = x
      BY <2>1, Enumerated
    <2>3. t = Enumerate(W, R)
      BY <1>2 DEF R
    <2>4. /\ t \in Seq(W) /\ DOMAIN t = 1 .. Cardinality(W) /\ Len(t) = Cardinality(W)
          /\ \A i, j \in 1 .. Cardinality(W) : i < j <=> <<t[i], t[j]>> \in R
          /\ \A x \in W : \E i \in 1 .. Cardinality(W) : t[i] = x
      BY <2>2, <2>3
    <2>. QED BY <2>4 DEF R
  <1>5. t \in Seq(Observed) /\ \A j \in 1 .. Len(t) : t[j] \in W
    BY <1>1, <1>4
  <1>6. \A i \in 1 .. Len(c) : \E j \in 1 .. Len(t) : t[j].at = c[i].at
    <2> SUFFICES ASSUME NEW i \in 1 .. Len(c) PROVE \E j \in 1 .. Len(t) : t[j].at = c[i].at
      OBVIOUS
    <2>1. PICK w \in W : w.at = c[i].at
      BY <1>1
    <2>2. PICK j \in 1 .. Cardinality(W) : t[j] = w
      BY <1>4
    <2>. QED BY <1>4, <2>1, <2>2
  <1>7. \A j \in 1 .. Len(t) : \E i \in 1 .. Len(c) : t[j] = c[i]
    BY <1>1, <1>5
  <1>8. \A i, j \in 1 .. Len(t) : i < j <=> t[i].at < t[j].at
    BY <1>3, <1>4, <1>5
  <1>. QED BY <1>5, <1>6, <1>7, <1>8 DEF t

(* The bars until a moment are those of the observations until then.        *)
LEMMA TimelineUntil ==
    ASSUME NEW c \in Seq(Observed), NEW x \in Nat
    PROVE  LET t == Timeline(Filtered(c, Until(x)))
           IN /\ Begins(t, Timeline(c))
              /\ \A i \in 1 .. Len(Timeline(c)) : Timeline(c)[i].at <= x <=> i <= Len(t)
  <1> DEFINE S == Lasts(c)
             R == ByTime(S)
             T == S \cap Until(x)
             Q == ByTime(T)
             s == Timeline(c)
             t == Timeline(Filtered(c, Until(x)))
  <1>1. IsFiniteSet(S) /\ S \subseteq Observed /\ StrictOrder(S, R)
    BY LastsAre
  <1>2. s = Enumerate(S, R) /\ t = Enumerate(T, Q)
    BY LastsUntil DEF Timeline
  <1>3. \A o \in S : o.at \in Nat /\ (o \in T <=> o.at <= x)
    BY <1>1 DEF Until, Observed
  <1>4. \A a \in S : \A b \in T : <<a, b>> \in R => a \in T
    <2>1. \A a, b : <<a, b>> \in R => a.at < b.at
      BY DEF ByTime
    <2> HIDE DEF R, S
    <2>. QED BY <1>3, <2>1
  <1>5. \A a, b \in T : <<a, b>> \in Q <=> <<a, b>> \in R
    BY DEF ByTime
  <1>6. T \subseteq S
    OBVIOUS
  <1> HIDE DEF S, R, T, Q, s, t
  <1>7. /\ Cardinality(T) \in Nat /\ Cardinality(S) \in Nat /\ Cardinality(T) <= Cardinality(S)
        /\ t \in [1 .. Cardinality(T) -> T]
        /\ \A k \in 1 .. Cardinality(T) : t[k] = s[k]
        /\ \A k \in 1 .. Cardinality(S) : s[k] \in T <=> k <= Cardinality(T)
    BY <1>1, <1>2, <1>4, <1>5, <1>6, EnumeratedFirst
  <1>8. s \in [1 .. Cardinality(S) -> S] /\ s \in Seq(S) /\ Len(s) = Cardinality(S)
    BY <1>1, <1>2, Enumerated
  <1>9. t \in Seq(T) /\ Len(t) = Cardinality(T)
    BY <1>7
  <1>10. Begins(t, s)
    BY <1>7, <1>8, <1>9 DEF Begins
  <1>11. \A i \in 1 .. Len(s) : s[i].at <= x <=> i <= Len(t)
    BY <1>3, <1>7, <1>8, <1>9
  <1>. QED BY <1>10, <1>11 DEF s, t

(* The bars of versions, and what the research says of them.                *)
Priced(v) == [i \in DOMAIN v |-> BarOf(v[i])]

LEMMA ResearchIs ==
    ASSUME NEW v \in Seq(Observed)
    PROVE  /\ Priced(v) \in Seq(ValidBars) /\ Len(Priced(v)) = Len(v)
           /\ Research(v) = [i \in 1 .. Len(v) |->
                                [at |-> v[i].at, setups |-> Analyze(Priced(v)).setups[i]]]
  <1>1. DOMAIN v = 1 .. Len(v) /\ Len(v) \in Nat /\ \A i \in 1 .. Len(v) : v[i] \in Observed
    OBVIOUS
  <1>2. \A o \in Observed : BarOf(o) \in ValidBars
    BY DEF BarOf, Observed, ValidBars, BarType
  <1>3. Priced(v) \in [1 .. Len(v) -> ValidBars]
    BY <1>1, <1>2 DEF Priced
  <1>4. Priced(v) \in Seq(ValidBars) /\ Len(Priced(v)) = Len(v)
    BY <1>1, <1>3
  <1>5. Analyze(Priced(v)).setups = Setups(Evidence(Priced(v), Features(Priced(v))))
    BY DEF Analyze
  <1>6. Research(v) = [i \in DOMAIN v |-> [at |-> v[i].at, setups |-> Analyze(Priced(v)).setups[i]]]
    BY <1>5 DEF Research, Priced
  <1>. QED BY <1>1, <1>4, <1>6

(* A selection of snapshots in the order of time is the last until then.    *)
LEMMA SelectedIs ==
    ASSUME NEW s, NEW n \in Nat, DOMAIN s = 1 .. n, NEW x, NEW m \in 0 .. n,
           \A i \in 1 .. n : s[i].at <= x <=> i <= m
    PROVE  Selected(s, x) = IF m = 0 THEN <<>> ELSE <<s[m]>>
  <1> DEFINE e == [k \in 1 .. m |-> s[k]]
  <1>1. {i \in DOMAIN s : s[i].at <= x} = 1 .. m
    OBVIOUS
  <1>2. Select(s, LAMBDA o : o.at <= x) = At(s, 1 .. m)
    BY <1>1 DEF Select
  <1>3. At(s, 1 .. m) = e
    BY FirstIndexes
  <1>4. Selected(s, x) = IF e = <<>> THEN <<>> ELSE <<Last(e)>>
    BY <1>2, <1>3 DEF Selected
  <1>5. CASE m = 0
    <2>1. e = <<>>
      BY <1>5
    <2>. QED BY <1>4, <1>5, <2>1
  <1>6. CASE m # 0
    <2>1. m \in 1 .. m /\ e[m] = s[m] /\ DOMAIN e = 1 .. m
      BY <1>6
    <2>2. Len(e) = m
      BY <2>1
    <2>3. e # <<>>
      BY <1>6, <2>2
    <2>4. Last(e) = s[m]
      BY <2>1, <2>2 DEF Last
    <2>. QED BY <1>4, <1>6, <2>3, <2>4
  <1>. QED BY <1>5, <1>6

(* The setup that a scan at a moment takes of the observations c.           *)
Judged(c, x) == Selected(Research(Timeline(c)), x)

(* It is of the last bar until the moment, as if no later one were known.   *)
LEMMA JudgedIs ==
    ASSUME NEW c \in Seq(Observed), NEW x \in Nat
    PROVE  LET t == Timeline(c)
               m == Len(Timeline(Filtered(c, Until(x))))
           IN /\ m \in 0 .. Len(t) /\ \A i \in 1 .. Len(t) : t[i].at <= x <=> i <= m
              /\ Judged(c, x) = IF m = 0 THEN <<>>
                                ELSE <<[at |-> t[m].at, setups |-> Analyze(Priced(t)).setups[m]]>>
  <1> DEFINE t == Timeline(c)
             u == Timeline(Filtered(c, Until(x)))
             m == Len(u)
             s == Research(t)
  <1>1. t \in Seq(Observed)
    BY TimelineIs
  <1>2. Filters(Observed, c, Until(x))
    BY WhereIs
  <1>3. Filtered(c, Until(x)) \in Seq(Observed)
    BY <1>2 DEF Filters
  <1>4. u \in Seq(Observed)
    BY <1>3, TimelineIs
  <1>5. Begins(u, t) /\ \A i \in 1 .. Len(t) : t[i].at <= x <=> i <= Len(u)
    BY TimelineUntil
  <1> HIDE DEF t, u
  <1>6. m \in 0 .. Len(t) /\ Len(t) \in Nat
    BY <1>1, <1>4, <1>5 DEF Begins
  <1>7. s = [i \in 1 .. Len(t) |-> [at |-> t[i].at, setups |-> Analyze(Priced(t)).setups[i]]]
    BY <1>1, ResearchIs
  <1> HIDE DEF m, s
  <1>8. DOMAIN s = 1 .. Len(t) /\ \A i \in 1 .. Len(t) : s[i].at = t[i].at
    BY <1>7
  <1>9. \A i \in 1 .. Len(t) : t[i].at <= x <=> i <= m
    BY <1>5 DEF m
  <1>10. Selected(s, x) = IF m = 0 THEN <<>> ELSE <<s[m]>>
    <2>1. \A i \in 1 .. Len(t) : s[i].at <= x <=> i <= m
      BY <1>8, <1>9
    <2>. QED BY <1>6, <1>8, <2>1, SelectedIs
  <1>11. m # 0 => s[m] = [at |-> t[m].at, setups |-> Analyze(Priced(t)).setups[m]]
    BY <1>6, <1>7
  <1>12. Judged(c, x) = IF m = 0 THEN <<>>
                        ELSE <<[at |-> t[m].at, setups |-> Analyze(Priced(t)).setups[m]]>>
    BY <1>10, <1>11 DEF Judged, s, t
  <1>. QED BY <1>6, <1>9, <1>12 DEF m, t, u

LEMMA JudgedUntil ==
    ASSUME ResearchAssumption, NEW c \in Seq(Observed), NEW x \in Nat
    PROVE  Judged(Filtered(c, Until(x)), x) = Judged(c, x)
  <1> DEFINE t == Timeline(c)
             d == Filtered(c, Until(x))
             u == Timeline(d)
             m == Len(u)
             g == Priced(t)
             h == Priced(u)
  <1>1. d \in Seq(Observed) /\ Filtered(d, Until(x)) = d
    <2>1. Filters(Observed, c, Until(x))
      BY WhereIs
    <2>2. Filtered(d, Until(x)) = Filtered(c, Until(x) \cap Until(x))
      BY FilteredTwice
    <2>. QED BY <2>1, <2>2 DEF Filters
  <1>2. t \in Seq(Observed) /\ u \in Seq(Observed)
    BY <1>1, TimelineIs
  <1>3. Begins(u, t)
    BY TimelineUntil
  <1>4. Judged(c, x) = IF m = 0 THEN <<>>
                       ELSE <<[at |-> t[m].at, setups |-> Analyze(g).setups[m]]>>
    BY JudgedIs
  <1>5. Judged(d, x) = IF m = 0 THEN <<>>
                       ELSE <<[at |-> u[m].at, setups |-> Analyze(h).setups[m]]>>
    <2> HIDE DEF d
    <2>1. LET w == Timeline(d)
              l == Len(Timeline(Filtered(d, Until(x))))
          IN Judged(d, x) = IF l = 0 THEN <<>>
                            ELSE <<[at |-> w[l].at, setups |-> Analyze(Priced(w)).setups[l]]>>
      BY <1>1, JudgedIs
    <2>. QED BY <1>1, <2>1
  <1> HIDE DEF t, u, d
  <1>6. /\ g \in Seq(ValidBars) /\ h \in Seq(ValidBars) /\ Len(g) = Len(t) /\ Len(h) = Len(u)
    BY <1>2, ResearchIs
  <1>7. Begins(h, g)
    <2>1. \A i \in 1 .. Len(u) : h[i] = BarOf(u[i]) /\ g[i] = BarOf(t[i])
      BY <1>2, <1>3 DEF Priced, Begins
    <2>. QED BY <1>3, <1>6, <2>1 DEF Begins
  <1> HIDE DEF g, h
  <1>8. m = 0 => Judged(d, x) = Judged(c, x)
    BY <1>4, <1>5
  <1>9. ASSUME m # 0 PROVE Judged(d, x) = Judged(c, x)
    <2>1. m \in 1 .. Len(h)
      BY <1>2, <1>6, <1>9
    <2>2. SameVerdicts(h, g, m)
      BY <1>6, <1>7, <2>1, VerdictsBegin
    <2>3. Analyze(g).setups[m] = Analyze(h).setups[m]
      BY <2>2 DEF SameVerdicts
    <2>4. t[m] = u[m]
      BY <1>3, <1>6, <2>1 DEF Begins
    <2>. QED BY <1>4, <1>5, <2>3, <2>4
  <1>10. Judged(d, x) = Judged(c, x)
    BY <1>8, <1>9
  <1>. QED BY <1>10 DEF d

(* The observations a scan is of, and the setups it takes of them.          *)
LearnedBy(k) == {o \in Observed : o.knownAt <= k}
AskedFor(name, w) == {o \in Observed : Matches(o, name, w)}
Pool(obs, k, name, w) == Filtered(obs, LearnedBy(k) \cap AskedFor(name, w))
Picks(obs, k, x, w) == [i \in DOMAIN Instruments |-> Judged(Pool(obs, k, Instruments[i], w), x)]
Place(result) == CHOOSE i \in DOMAIN Instruments : Instruments[i] = result.instrument
Results(picks) ==
    UNION {{ScanResult(Instruments[i], s) : s \in Range(picks[i])} : i \in DOMAIN Instruments}
ByPlace(R) == {p \in R \X R : Place(p[1]) < Place(p[2])}
Verdicts(picks) == Enumerate(Results(picks), ByPlace(Results(picks)))

LEMMA KnownIs ==
    ASSUME NEW obs \in Seq(Observed), NEW k
    PROVE  KnownObservations(obs, k) = Filtered(obs, LearnedBy(k))
  <1>1. \A i \in DOMAIN obs : obs[i] \in Observed
    OBVIOUS
  <1>2. {i \in DOMAIN obs : obs[i].knownAt <= k} = Where(obs, LearnedBy(k))
    BY <1>1 DEF Where, LearnedBy
  <1>. QED BY <1>2 DEF KnownObservations, Select, Filtered

LEMMA MaterializeIs ==
    ASSUME NEW obs \in Seq(Observed), NEW k, NEW name, NEW w
    PROVE  Materialize(KnownObservations(obs, k), name, w) = Timeline(Pool(obs, k, name, w))
  <1> DEFINE known == KnownObservations(obs, k)
             c == Filtered(known, AskedFor(name, w))
             chosen == {c[i] : i \in {j \in DOMAIN c :
                            ~\E l \in DOMAIN c : l > j /\ c[l].at = c[j].at}}
  <1>1. known = Filtered(obs, LearnedBy(k))
    BY KnownIs
  <1>2. known \in Seq(Observed)
    <2>1. Filters(Observed, obs, LearnedBy(k))
      BY WhereIs
    <2>. QED BY <1>1, <2>1 DEF Filters
  <1>3. c = Pool(obs, k, name, w)
    <2>1. Filtered(Filtered(obs, LearnedBy(k)), AskedFor(name, w))
            = Filtered(obs, LearnedBy(k) \cap AskedFor(name, w))
      BY FilteredTwice
    <2>. QED BY <1>1, <2>1 DEF Pool
  <1> HIDE DEF known
  <1>4. Select(known, LAMBDA o : Matches(o, name, w)) = c
    <2>1. {i \in DOMAIN known : Matches(known[i], name, w)} = Where(known, AskedFor(name, w))
      <3>1. \A i \in DOMAIN known : known[i] \in Observed
        BY <1>2
      <3>. QED BY <3>1 DEF Where, AskedFor
    <2>. QED BY <2>1 DEF Select, Filtered
  <1>5. Materialize(known, name, w) = Sorted(chosen, LAMBDA a, b : a.at < b.at)
    BY <1>4 DEF Materialize
  <1>6. chosen = Lasts(c)
    BY DEF Lasts
  <1> HIDE DEF c, chosen
  <1>7. Sorted(Lasts(c), LAMBDA a, b : a.at < b.at) = Timeline(c)
    BY DEF Sorted, Timeline, ByTime
  <1>. QED BY <1>3, <1>5, <1>6, <1>7 DEF known

LEMMA CoordinateIs ==
    ASSUME NEW obs \in Seq(Observed), NEW k, NEW x, NEW w
    PROVE  Coordinate(obs, k, x, w) = Verdicts(Picks(obs, k, x, w))
  <1> DEFINE selected == [i \in DOMAIN Instruments |->
                        Selected(Research(Materialize(KnownObservations(obs, k),
                                                      Instruments[i], w)), x)]
  <1>1. Coordinate(obs, k, x, w) = Verdicts(selected)
    <2>1. Results(selected)
            = UNION {{ScanResult(Instruments[i], s) :
                          s \in Range(Selected(Research(Materialize(KnownObservations(obs, k),
                                                            Instruments[i], w)), x))} :
                      i \in DOMAIN Instruments}
      BY DEF Results
    <2> HIDE DEF selected
    <2>2. Coordinate(obs, k, x, w)
            = Sorted(Results(selected), LAMBDA a, b : Place(a) < Place(b))
      BY <2>1 DEF Coordinate, Place
    <2>. QED BY <2>2 DEF Sorted, Verdicts, ByPlace
  <1>2. \A i \in DOMAIN Instruments : Selected(Research(Materialize(KnownObservations(obs, k),
                                          Instruments[i], w)), x)
                                      = Judged(Pool(obs, k, Instruments[i], w), x)
    BY MaterializeIs DEF Judged
  <1>3. selected = Picks(obs, k, x, w)
    BY <1>2 DEF Picks
  <1>. QED BY <1>1, <1>3

(* Scans of the same pools say the same.                                    *)
LEMMA SameScans ==
    ASSUME NEW obs \in Seq(Observed), NEW other \in Seq(Observed), NEW k, NEW x, NEW w,
           \A i \in DOMAIN Instruments :
               Judged(Pool(obs, k, Instruments[i], w), x) = Judged(Pool(other, k, Instruments[i], w), x)
    PROVE  Coordinate(obs, k, x, w) = Coordinate(other, k, x, w)
  <1>1. Picks(obs, k, x, w) = Picks(other, k, x, w)
    BY DEF Picks
  <1>. QED BY <1>1, CoordinateIs

(* Later bars that were not told, and other sources, make no difference.    *)
LEMMA NoLaterBars ==
    ASSUME ResearchAssumption, NEW obs \in Seq(Observed), NEW k, NEW x \in Nat, NEW w
    PROVE  Coordinate(Select(obs, LAMBDA o : o.at <= x), k, x, w) = Coordinate(obs, k, x, w)
  <1> DEFINE early == Select(obs, LAMBDA o : o.at <= x)
  <1>1. early = Filtered(obs, Until(x))
    <2>1. {i \in DOMAIN obs : obs[i].at <= x} = Where(obs, Until(x))
      <3>1. \A i \in DOMAIN obs : obs[i] \in Observed
        OBVIOUS
      <3>. QED BY <3>1 DEF Where, Until
    <2>. QED BY <2>1 DEF Select, Filtered
  <1>2. early \in Seq(Observed)
    <2>1. Filters(Observed, obs, Until(x))
      BY WhereIs
    <2>. QED BY <1>1, <2>1 DEF Filters
  <1> HIDE DEF early
  <1>3. ASSUME NEW name
        PROVE  Judged(Pool(early, k, name, w), x) = Judged(Pool(obs, k, name, w), x)
    <2> DEFINE A == LearnedBy(k) \cap AskedFor(name, w)
               c == Filtered(obs, A)
    <2>1. Pool(obs, k, name, w) = c /\ Pool(early, k, name, w) = Filtered(early, A)
      BY DEF Pool
    <2> HIDE DEF A
    <2>2. Filtered(early, A) = Filtered(obs, Until(x) \cap A)
      BY <1>1, FilteredTwice
    <2>3. Filtered(c, Until(x)) = Filtered(obs, A \cap Until(x))
      BY FilteredTwice
    <2>4. Until(x) \cap A = A \cap Until(x)
      OBVIOUS
    <2>5. c \in Seq(Observed)
      <3>1. Filters(Observed, obs, A)
        BY WhereIs
      <3>. QED BY <3>1 DEF Filters
    <2>6. Judged(Filtered(c, Until(x)), x) = Judged(c, x)
      <3> HIDE DEF c
      <3>. QED BY <2>5, JudgedUntil
    <2>. QED BY <2>1, <2>2, <2>3, <2>4, <2>6
  <1>4. Coordinate(early, k, x, w) = Coordinate(obs, k, x, w)
    BY <1>2, <1>3, SameScans
  <1>. QED BY <1>4 DEF early

LEMMA NoOtherSource ==
    ASSUME NEW obs \in Seq(Observed), NEW k, NEW x, NEW w
    PROVE  Coordinate(Select(obs, LAMBDA o : o.source = Source), k, x, w) = Coordinate(obs, k, x, w)
  <1> DEFINE T == {o \in Observed : o.source = Source}
             own == Select(obs, LAMBDA o : o.source = Source)
  <1>1. own = Filtered(obs, T)
    <2>1. {i \in DOMAIN obs : obs[i].source = Source} = Where(obs, T)
      <3>1. \A i \in DOMAIN obs : obs[i] \in Observed
        OBVIOUS
      <3>. QED BY <3>1 DEF Where
    <2> HIDE DEF T
    <2>. QED BY <2>1 DEF Select, Filtered
  <1>2. \A name : T \cap (LearnedBy(k) \cap AskedFor(name, w)) = LearnedBy(k) \cap AskedFor(name, w)
    BY DEF AskedFor, Matches
  <1> HIDE DEF T
  <1>3. own \in Seq(Observed)
    <2>1. Filters(Observed, obs, T)
      BY WhereIs
    <2>. QED BY <1>1, <2>1 DEF Filters
  <1> HIDE DEF own
  <1>4. \A name : Pool(own, k, name, w) = Pool(obs, k, name, w)
    <2> SUFFICES ASSUME NEW name PROVE Pool(own, k, name, w) = Pool(obs, k, name, w)
      OBVIOUS
    <2>1. Filtered(Filtered(obs, T), LearnedBy(k) \cap AskedFor(name, w))
            = Filtered(obs, T \cap (LearnedBy(k) \cap AskedFor(name, w)))
      BY FilteredTwice
    <2>. QED BY <1>1, <1>2, <2>1 DEF Pool
  <1>5. Coordinate(own, k, x, w) = Coordinate(obs, k, x, w)
    BY <1>3, <1>4, SameScans
  <1>. QED BY <1>5 DEF own

(* The setup that is taken is of the last bar until the moment.             *)
TimeOf(pick) == IF pick = <<>> THEN {} ELSE {pick[1].at}
TimesUntil(c, x) == {c[i].at : i \in {l \in 1 .. Len(c) : c[l].at <= x}}
Latest(times) == {t \in times : \A u \in times : u <= t}

LEMMA JudgedLast ==
    ASSUME NEW c \in Seq(Observed), NEW x \in Nat
    PROVE  TimeOf(Judged(c, x)) = Latest(TimesUntil(c, x))
  <1> DEFINE t == Timeline(c)
             m == Len(Timeline(Filtered(c, Until(x))))
             r == [at |-> t[m].at, setups |-> Analyze(Priced(t)).setups[m]]
             seen == {c[i].at : i \in {l \in 1 .. Len(c) : c[l].at <= x}}
             judged == IF Judged(c, x) = <<>> THEN {} ELSE {Judged(c, x)[1].at}
  <1>1. /\ m \in 0 .. Len(t) /\ \A i \in 1 .. Len(t) : t[i].at <= x <=> i <= m
        /\ Judged(c, x) = IF m = 0 THEN <<>> ELSE <<r>>
    BY JudgedIs
  <1>2. /\ t \in Seq(Observed)
        /\ \A i \in 1 .. Len(c) : \E j \in 1 .. Len(t) : t[j].at = c[i].at
        /\ \A j \in 1 .. Len(t) : \E i \in 1 .. Len(c) : t[j] = c[i]
        /\ \A i, j \in 1 .. Len(t) : i < j <=> t[i].at < t[j].at
    BY TimelineIs
  <1>3. r.at = t[m].at
    OBVIOUS
  <1> HIDE DEF t, m, r
  <1>4. /\ Len(t) \in Nat /\ \A i \in 1 .. Len(t) : t[i].at \in Nat
    <2>1. \A o \in Observed : o.at \in Nat
      BY DEF Observed
    <2>. QED BY <1>2, <2>1
  <1>5. judged = IF m = 0 THEN {} ELSE {t[m].at}
    <2>1. <<r>> # <<>> /\ <<r>>[1] = r
      OBVIOUS
    <2>. QED BY <1>1, <1>3, <2>1
  <1>6. ASSUME NEW u \in seen PROVE \E j \in 1 .. m : t[j].at = u
    <2>1. PICK i \in 1 .. Len(c) : c[i].at = u /\ u <= x
      OBVIOUS
    <2>2. PICK j \in 1 .. Len(t) : t[j].at = c[i].at
      BY <1>2
    <2>. QED BY <1>1, <1>4, <2>1, <2>2
  <1>7. ASSUME m # 0 PROVE t[m].at \in seen
    <2>1. m \in 1 .. Len(t) /\ t[m].at <= x
      BY <1>1, <1>4, <1>7
    <2>2. PICK i \in 1 .. Len(c) : t[m] = c[i]
      BY <1>2, <2>1
    <2>. QED BY <2>1, <2>2
  <1> HIDE DEF seen, judged
  <1>8. CASE m = 0
    <2>1. seen = {}
      BY <1>6, <1>8
    <2>. QED BY <1>5, <1>8, <2>1 DEF judged, seen, TimeOf, TimesUntil, Latest
  <1>9. CASE m # 0
    <2>1. m \in 1 .. Len(t)
      BY <1>1, <1>4, <1>9
    <2>2. \A u \in seen : u \in Nat /\ u <= t[m].at
      <3> SUFFICES ASSUME NEW u \in seen PROVE u \in Nat /\ u <= t[m].at
        OBVIOUS
      <3>1. PICK j \in 1 .. m : t[j].at = u
        BY <1>6
      <3>2. j \in 1 .. Len(t) /\ ~(m < j)
        BY <2>1, <3>1
      <3>3. ~(t[m].at < t[j].at) /\ t[j].at \in Nat /\ t[m].at \in Nat
        BY <1>2, <1>4, <2>1, <3>2
      <3>. QED BY <3>1, <3>3
    <2>3. t[m].at \in seen /\ t[m].at \in Nat
      BY <1>4, <1>7, <1>9, <2>1
    <2>4. {v \in seen : \A u \in seen : u <= v} = {t[m].at}
      BY <2>2, <2>3
    <2>5. judged = {v \in seen : \A u \in seen : u <= v}
      BY <1>5, <1>9, <2>4
    <2>. QED BY <2>5 DEF judged, seen, TimeOf, TimesUntil, Latest
  <1>. QED BY <1>8, <1>9

(* What is in a selection was in the sequence, and all of it that is asked. *)
Keeps(s, T, t) ==
    /\ \A i \in 1 .. Len(t) : \E j \in 1 .. Len(s) : t[i] = s[j] /\ s[j] \in T
    /\ \A j \in 1 .. Len(s) : s[j] \in T => \E i \in 1 .. Len(t) : t[i] = s[j]

LEMMA FilteredValues ==
    ASSUME NEW S, NEW s \in Seq(S), NEW T
    PROVE  Filtered(s, T) \in Seq(S) /\ Keeps(s, T, Filtered(s, T))
  <1> DEFINE I == Where(s, T)
             e == Enumerate(I, Upward(I))
             t == Filtered(s, T)
             n == Cardinality(I)
  <1>1. /\ I \subseteq 1 .. Len(s) /\ Climbs(e, n, I)
        /\ t \in Seq(S) /\ Len(t) = n /\ t = [k \in 1 .. n |-> s[e[k]]]
    <2>1. Filters(S, s, T)
      BY WhereIs
    <2>. QED BY <2>1 DEF Filters
  <1>2. \A i : i \in I <=> i \in 1 .. Len(s) /\ s[i] \in T
    BY DEF Where
  <1> HIDE DEF I, e, t, n
  <1>3. /\ n \in Nat /\ e \in [1 .. n -> I] /\ \A y \in I : \E k \in 1 .. n : e[k] = y
    BY <1>1 DEF Climbs
  <1>4. \A i \in 1 .. n : e[i] \in I /\ t[i] = s[e[i]]
    BY <1>1, <1>3
  <1>5. \A i \in 1 .. Len(t) : \E j \in 1 .. Len(s) : t[i] = s[j] /\ s[j] \in T
    BY <1>1, <1>2, <1>4
  <1>6. ASSUME NEW j \in 1 .. Len(s), s[j] \in T PROVE \E i \in 1 .. Len(t) : t[i] = s[j]
    <2>1. PICK i \in 1 .. n : e[i] = j
      BY <1>2, <1>3, <1>6
    <2>. QED BY <1>1, <1>4, <2>1
  <1>. QED BY <1>1, <1>5, <1>6 DEF t, Keeps

(* Of each instrument one setup at most is selected.                        *)
Picked(picks) ==
    \A i \in DOMAIN Instruments : picks[i] = <<>> \/ picks[i] = <<picks[i][1]>>

LEMMA PicksArePicked ==
    ASSUME NEW obs, NEW k, NEW x, NEW w
    PROVE  Picked(Picks(obs, k, x, w))
  <1>1. \A c : Judged(c, x) = <<>> \/ \E v : Judged(c, x) = <<v>>
    BY DEF Judged, Selected
  <1>2. \A c : Judged(c, x) = <<>> \/ Judged(c, x) = <<Judged(c, x)[1]>>
    BY <1>1
  <1>. QED BY <1>2 DEF Picked, Picks

(* The verdicts of a scan are the results of the instruments that were      *)
(* picked, at the place of each.                                            *)
LEMMA ResultsAre ==
    ASSUME UniverseAssumption, NEW picks, Picked(picks)
    PROVE  LET J == {l \in DOMAIN Instruments : picks[l] # <<>>}
               result(l) == ScanResult(Instruments[l], picks[l][1])
           IN /\ IsFiniteSet(Results(picks)) /\ Results(picks) = {result(l) : l \in J}
              /\ \A l \in J : Place(result(l)) = l
              /\ StrictOrder(Results(picks), ByPlace(Results(picks)))
  <1> DEFINE J == {l \in DOMAIN Instruments : picks[l] # <<>>}
             g == [l \in J |-> ScanResult(Instruments[l], picks[l][1])]
             R == Results(picks)
  <1>1. /\ DOMAIN Instruments = 1 .. Len(Instruments) /\ Len(Instruments) \in Nat
        /\ \A a, b \in DOMAIN Instruments : Instruments[a] = Instruments[b] => a = b
    BY DEF UniverseAssumption, IsInjective
  <1>2. IsFiniteSet(J)
    <2>1. IsFiniteSet(1 .. Len(Instruments))
      <3>1. Len(Instruments) \in Nat
        BY <1>1
      <3>. QED BY ONLY <3>1, FiniteUpTo
    <2>2. J \subseteq 1 .. Len(Instruments)
      BY <1>1
    <2>. QED BY <2>1, <2>2, FS_Subset
  <1>3. \A l \in DOMAIN Instruments : Range(picks[l]) = IF l \in J THEN {picks[l][1]} ELSE {}
    <2>1. Range(<<>>) = {} /\ \A v : Range(<<v>>) = {v}
      BY DEF Range
    <2>. QED BY <2>1 DEF Picked
  <1>4. R = {g[l] : l \in J}
    <2>1. \A v : v \in R <=> \E l \in DOMAIN Instruments : \E u \in Range(picks[l]) :
                                v = ScanResult(Instruments[l], u)
      BY DEF Results
    <2>2. \A l \in J : l \in DOMAIN Instruments /\ g[l] = ScanResult(Instruments[l], picks[l][1])
      OBVIOUS
    <2> HIDE DEF g, J, R
    <2>3. \A v : v \in R <=> \E l \in J : v = g[l]
      <3>1. ASSUME NEW v \in R PROVE \E l \in J : v = g[l]
        <4>1. PICK l \in DOMAIN Instruments : \E u \in Range(picks[l]) :
                                                  v = ScanResult(Instruments[l], u)
          BY <2>1
        <4>2. l \in J /\ v = ScanResult(Instruments[l], picks[l][1])
          BY <1>3, <4>1
        <4>. QED BY <2>2, <4>2
      <3>2. ASSUME NEW l \in J PROVE g[l] \in R
        <4>1. picks[l][1] \in Range(picks[l])
          BY <1>3, <2>2
        <4>. QED BY <2>1, <2>2, <4>1
      <3>. QED BY <3>1, <3>2
    <2>. QED BY <2>3
  <1>5. \A l \in J : g[l] = ScanResult(Instruments[l], picks[l][1]) /\ g[l].instrument = Instruments[l]
    BY DEF ScanResult
  <1>6. \A l \in J : Place(g[l]) = l
    <2>1. J \subseteq DOMAIN Instruments
      OBVIOUS
    <2> HIDE DEF g, J
    <2>. QED BY <1>1, <1>5, <2>1 DEF Place
  <1>7. J \subseteq Nat
    BY <1>1
  <1> HIDE DEF g, J, R
  <1>8. IsFiniteSet(R)
    BY <1>2, <1>4, FiniteValues
  <1>9. \A a \in R : Place(a) \in Nat /\ \A b \in R : Place(a) = Place(b) => a = b
    BY <1>4, <1>6, <1>7
  <1>10. StrictOrder(R, ByPlace(R))
    BY <1>9 DEF StrictOrder, ByPlace
  <1>. QED BY <1>4, <1>5, <1>6, <1>8, <1>10 DEF J, R

(* The verdicts of a scan, by instrument.                                   *)
LEMMA VerdictsAre ==
    ASSUME UniverseAssumption, NEW picks, Picked(picks), NEW i \in DOMAIN Instruments
    PROVE  LET r == Verdicts(picks)
           IN {r[j].at : j \in {l \in DOMAIN r : r[l].instrument = Instruments[i]}}
                = IF picks[i] = <<>> THEN {} ELSE {picks[i][1].at}
  <1> DEFINE J == {l \in DOMAIN Instruments : picks[l] # <<>>}
             R == Results(picks)
             n == Cardinality(R)
             r == Verdicts(picks)
  <1>1. \A a, b \in DOMAIN Instruments : Instruments[a] = Instruments[b] => a = b
    BY DEF UniverseAssumption, IsInjective
  <1>2. /\ IsFiniteSet(R) /\ R = {ScanResult(Instruments[l], picks[l][1]) : l \in J}
        /\ StrictOrder(R, ByPlace(R))
    BY ResultsAre
  <1>3. \A v \in R : \E l \in J : v.instrument = Instruments[l] /\ v.at = picks[l][1].at
    BY <1>2 DEF ScanResult
  <1>4. \A l \in J : \E v \in R : v.instrument = Instruments[l] /\ v.at = picks[l][1].at
    <2> SUFFICES ASSUME NEW l \in J
                 PROVE  \E v \in R : v.instrument = Instruments[l] /\ v.at = picks[l][1].at
      OBVIOUS
    <2> DEFINE v == ScanResult(Instruments[l], picks[l][1])
    <2>1. v.instrument = Instruments[l] /\ v.at = picks[l][1].at
      BY DEF ScanResult
    <2>2. v \in R
      BY <1>2
    <2>. QED BY <2>1, <2>2
  <1>5. i \in J <=> picks[i] # <<>>
    OBVIOUS
  <1>6. J \subseteq DOMAIN Instruments
    OBVIOUS
  <1> HIDE DEF R, J
  <1>7. r = Enumerate(R, ByPlace(R))
    BY DEF Verdicts, R
  <1> HIDE DEF r, n
  <1>8. DOMAIN r = 1 .. n /\ (\A l \in 1 .. n : r[l] \in R) /\ \A v \in R : \E l \in 1 .. n : r[l] = v
    <2> DEFINE Q == ByPlace(R)
    <2>1. IsFiniteSet(R)
      BY <1>2
    <2>2. StrictOrder(R, Q)
      BY <1>2
    <2>3. r = Enumerate(R, Q)
      BY <1>7
    <2> HIDE DEF Q
    <2>4. /\ Enumerate(R, Q) \in [1 .. Cardinality(R) -> R]
          /\ \A v \in R : \E l \in 1 .. Cardinality(R) : Enumerate(R, Q)[l] = v
      BY ONLY <2>1, <2>2, Enumerated
    <2>. QED BY <2>3, <2>4 DEF n
  <1>9. \A l \in DOMAIN r : r[l].instrument = Instruments[i] => i \in J /\ r[l].at = picks[i][1].at
    <2> SUFFICES ASSUME NEW l \in DOMAIN r, r[l].instrument = Instruments[i]
                 PROVE  i \in J /\ r[l].at = picks[i][1].at
      OBVIOUS
    <2>1. PICK m \in J : r[l].instrument = Instruments[m] /\ r[l].at = picks[m][1].at
      BY <1>3, <1>8
    <2>2. m = i
      BY <1>1, <1>6, <2>1
    <2>. QED BY <2>1, <2>2
  <1>10. CASE picks[i] = <<>>
    <2>1. {l \in DOMAIN r : r[l].instrument = Instruments[i]} = {}
      BY <1>5, <1>9, <1>10
    <2>. QED BY <1>10, <2>1 DEF r
  <1>11. CASE picks[i] # <<>>
    <2>1. PICK v \in R : v.instrument = Instruments[i] /\ v.at = picks[i][1].at
      BY <1>4, <1>5, <1>11
    <2>2. PICK l \in DOMAIN r : r[l] = v
      BY <1>8, <2>1
    <2>3. {r[j].at : j \in {m \in DOMAIN r : r[m].instrument = Instruments[i]}} = {picks[i][1].at}
      BY <1>9, <2>1, <2>2
    <2>. QED BY <1>11, <2>3 DEF r
  <1>. QED BY <1>10, <1>11

(* The bars of an instrument that a scan of a moment may look at.           *)
Askable(obs, k, x, w, name) ==
    {obs[j].at : j \in {l \in DOMAIN obs :
        /\ obs[l].knownAt <= k /\ obs[l].instrument = name
        /\ obs[l].source = Source /\ obs[l].at <= x
        /\ obs[l].at \in w.start .. w.end - 1}}

LEMMA AskableIs ==
    ASSUME NEW obs \in Seq(Observed), NEW k, NEW x, NEW w, w.start \in Nat, w.end \in Nat, NEW name
    PROVE  Askable(obs, k, x, w, name) = TimesUntil(Pool(obs, k, name, w), x)
  <1> DEFINE A == LearnedBy(k) \cap AskedFor(name, w)
             c == Pool(obs, k, name, w)
  <1>1. \A o \in Observed : o \in A <=>
            /\ o.knownAt <= k /\ o.instrument = name /\ o.source = Source
            /\ o.at \in w.start .. w.end - 1
    <2>1. \A o \in Observed : o.at \in Nat
      BY DEF Observed
    <2>. QED BY <2>1 DEF LearnedBy, AskedFor, Matches
  <1>2. c = Filtered(obs, A)
    BY DEF Pool
  <1> HIDE DEF A, c
  <1>3. /\ \A i \in 1 .. Len(c) : \E j \in 1 .. Len(obs) : c[i] = obs[j] /\ obs[j] \in A
        /\ \A j \in 1 .. Len(obs) : obs[j] \in A => \E i \in 1 .. Len(c) : c[i] = obs[j]
    <2>1. Keeps(obs, A, Filtered(obs, A))
      BY FilteredValues
    <2>. QED BY <1>2, <2>1 DEF Keeps
  <1>4. DOMAIN obs = 1 .. Len(obs) /\ \A j \in 1 .. Len(obs) : obs[j] \in Observed
    OBVIOUS
  <1>5. Askable(obs, k, x, w, name) = {obs[j].at : j \in {l \in 1 .. Len(obs) :
                                                obs[l] \in A /\ obs[l].at <= x}}
    BY <1>1, <1>4 DEF Askable
  <1>6. ASSUME NEW j \in 1 .. Len(obs), obs[j] \in A, obs[j].at <= x
        PROVE  obs[j].at \in {c[i].at : i \in {l \in 1 .. Len(c) : c[l].at <= x}}
    <2>1. PICK i \in 1 .. Len(c) : c[i] = obs[j]
      BY <1>3, <1>6
    <2>. QED BY <1>6, <2>1
  <1>7. ASSUME NEW i \in 1 .. Len(c), c[i].at <= x
        PROVE  c[i].at \in {obs[j].at : j \in {l \in 1 .. Len(obs) : obs[l] \in A /\ obs[l].at <= x}}
    <2>1. PICK j \in 1 .. Len(obs) : c[i] = obs[j] /\ obs[j] \in A
      BY <1>3
    <2>. QED BY <1>7, <2>1
  <1>. QED BY <1>5, <1>6, <1>7 DEF c, TimesUntil

JudgedOf(r, name) == {r[j].at : j \in {l \in DOMAIN r : r[l].instrument = name}}

LEMMA Nobody ==
    ASSUME UniverseAssumption, NEW obs \in Seq(Observed), NEW k, NEW x \in Nat, NEW w,
           w.start \in Nat, w.end \in Nat, NEW i \in DOMAIN Instruments
    PROVE  JudgedOf(Coordinate(obs, k, x, w), Instruments[i])
                = Latest(Askable(obs, k, x, w, Instruments[i]))
  <1> DEFINE p == Picks(obs, k, x, w)
             c == Pool(obs, k, Instruments[i], w)
             seen == Askable(obs, k, x, w, Instruments[i])
             own(r) == JudgedOf(r, Instruments[i])
  <1>1. Coordinate(obs, k, x, w) = Verdicts(p)
    BY CoordinateIs
  <1>2. p[i] = Judged(c, x)
    BY DEF Picks
  <1>3. own(Verdicts(p)) = TimeOf(p[i])
    <2>1. Picked(p)
      BY PicksArePicked
    <2> HIDE DEF p
    <2>. QED BY <2>1, VerdictsAre DEF TimeOf, JudgedOf
  <1>4. c \in Seq(Observed)
    BY FilteredValues DEF Pool
  <1>5. seen = TimesUntil(c, x)
    BY AskableIs
  <1> HIDE DEF c, p, seen
  <1>6. TimeOf(Judged(c, x)) = Latest(seen)
    BY <1>4, <1>5, JudgedLast
  <1>7. own(Coordinate(obs, k, x, w)) = Latest(seen)
    BY <1>1, <1>2, <1>3, <1>6
  <1>. QED BY <1>7 DEF seen

(* The inductive invariant: the log is of observations, and the scan says   *)
(* what its moment's knowledge says, whatever was learned since.            *)
UniverseInv ==
    /\ UniverseAssumption /\ ResearchAssumption
    /\ now \in Nat /\ log \in Seq(Observed)
    /\ scan = NoScan \/
        /\ scan.taken /\ scan.at \in Nat /\ scan.at <= now /\ scan.known \in Nat
        /\ scan.scanAsOf \in Nat /\ scan.window.start \in Nat /\ scan.window.end \in Nat
        /\ scan.known < scan.at =>
             scan.results = Coordinate(log, scan.known, scan.scanAsOf, scan.window)

LEMMA Joined ==
    ASSUME NEW S, NEW s \in Seq(S), NEW t \in Seq(S)
    PROVE  s \o t \in Seq(S) /\ Len(s \o t) = Len(s) + Len(t)
  OBVIOUS

LEMMA InsertedObservation ==
    ASSUME NEW obs \in Seq(Observed), NEW i \in 1 .. Len(obs) + 1, NEW o \in Observed
    PROVE  LET t == InsertAt(obs, i, o)
           IN /\ t \in Seq(Observed) /\ Len(t) = Len(obs) + 1 /\ t[i] = o
              /\ \A k \in 1 .. i - 1 : t[k] = obs[k]
              /\ \A k \in i .. Len(obs) : t[k + 1] = obs[k]
  <1> DEFINE a == SubSeq(obs, 1, i - 1)
             b == SubSeq(obs, i, Len(obs))
             t == InsertAt(obs, i, o)
  <1>1. t = (a \o <<o>>) \o b
    BY DEF InsertAt
  <1>2. Len(obs) \in Nat /\ i - 1 \in 0 .. Len(obs)
    OBVIOUS
  <1>3. a \in Seq(Observed) /\ Len(a) = i - 1 /\ \A k \in 1 .. i - 1 : a[k] = obs[k]
    BY <1>2
  <1>4. b \in Seq(Observed) /\ Len(b) = Len(obs) - i + 1
        /\ \A k \in 1 .. Len(obs) - i + 1 : b[k] = obs[i + k - 1]
    BY <1>2
  <1> HIDE DEF a, b
  <1>5. LET d == a \o <<o>>
        IN d \in Seq(Observed) /\ Len(d) = i /\ d[i] = o /\ \A k \in 1 .. i - 1 : d[k] = obs[k]
    BY <1>2, <1>3
  <1> DEFINE d == a \o <<o>>
  <1>6. d \in Seq(Observed) /\ Len(d) = i /\ d[i] = o /\ \A k \in 1 .. i - 1 : d[k] = obs[k]
    BY <1>5
  <1>7. t = d \o b
    BY <1>1
  <1> HIDE DEF d, t
  <1>8. t \in Seq(Observed) /\ Len(t) = Len(obs) + 1
    <2>1. t \in Seq(Observed) /\ Len(t) = Len(d) + Len(b)
      BY ONLY <1>4, <1>6, <1>7, Joined
    <2>. QED BY <1>2, <1>4, <1>6, <2>1
  <1>9. \A k \in 1 .. i : t[k] = d[k]
    BY <1>2, <1>4, <1>6, <1>7
  <1>10. \A k \in i .. Len(obs) : t[k + 1] = obs[k]
    <2> SUFFICES ASSUME NEW k \in i .. Len(obs) PROVE t[k + 1] = obs[k]
      OBVIOUS
    <2>1. k + 1 > Len(d) /\ k + 1 - Len(d) \in 1 .. Len(b) /\ i + (k + 1 - i) - 1 = k
      BY <1>2, <1>4, <1>6
    <2>2. t[k + 1] = b[k + 1 - Len(d)]
      BY <1>2, <1>4, <1>6, <1>7, <2>1
    <2>. QED BY <1>4, <1>6, <2>1, <2>2
  <1>11. t[i] = o /\ \A k \in 1 .. i - 1 : t[k] = obs[k]
    BY <1>2, <1>6, <1>9
  <1>. QED BY <1>8, <1>10, <1>11 DEF t

(* What is learned later changes no scan of what was known before.          *)
LEMMA LearnedLater ==
    ASSUME NEW obs \in Seq(Observed), NEW i \in 1 .. Len(obs) + 1, NEW o \in Observed,
           NEW k \in Nat, k < o.knownAt, NEW x, NEW w
    PROVE  Coordinate(InsertAt(obs, i, o), k, x, w) = Coordinate(obs, k, x, w)
  <1> DEFINE t == InsertAt(obs, i, o)
  <1>1. /\ t \in Seq(Observed) /\ Len(t) = Len(obs) + 1 /\ t[i] = o
        /\ \A l \in 1 .. i - 1 : t[l] = obs[l]
        /\ \A l \in i .. Len(obs) : t[l + 1] = obs[l]
    BY InsertedObservation
  <1> HIDE DEF t
  <1>2. ASSUME NEW name PROVE Pool(t, k, name, w) = Pool(obs, k, name, w)
    <2> DEFINE A == LearnedBy(k) \cap AskedFor(name, w)
    <2>1. o \notin A
      BY DEF LearnedBy, Observed
    <2> HIDE DEF A
    <2>2. Filtered(t, A) = Filtered(obs, A)
      BY <1>1, <2>1, FilteredInserted
    <2>. QED BY <2>2 DEF Pool, A
  <1>3. Coordinate(t, k, x, w) = Coordinate(obs, k, x, w)
    BY <1>1, <1>2, SameScans
  <1>. QED BY <1>3 DEF t

LEMMA ScansInit == UniverseAssumption /\ ResearchAssumption /\ UniverseInit => UniverseInv
  <1> SUFFICES ASSUME UniverseAssumption, ResearchAssumption, UniverseInit PROVE UniverseInv
    OBVIOUS
  <1>1. log \in Seq(Observed)
    BY DEF UniverseInit
  <1>. QED BY <1>1 DEF UniverseInit, UniverseInv

LEMMA ScansNext == UniverseInv /\ [UniverseNext]_universeVars => UniverseInv'
  <1> SUFFICES ASSUME UniverseInv, [UniverseNext]_universeVars PROVE UniverseInv'
    OBVIOUS
  <1>1. /\ UniverseAssumption /\ ResearchAssumption /\ now \in Nat /\ log \in Seq(Observed)
    BY DEF UniverseInv
  <1>2. CASE UniverseTick
    BY <1>2 DEF UniverseInv, UniverseTick
  <1>3. CASE Observe
    <2>1. /\ now' = now /\ scan' = scan
      BY <1>3 DEF Observe
    <2>2. PICK f \in Feed, i \in 1 .. Len(log) + 1 :
              log' = InsertAt(log, i, [knownAt |-> now, instrument |-> f.instrument,
                                       source |-> f.source, at |-> f.at, close |-> f.close])
      BY <1>3 DEF Observe
    <2> DEFINE o == [knownAt |-> now, instrument |-> f.instrument,
                     source |-> f.source, at |-> f.at, close |-> f.close]
    <2>3. o \in Observed /\ o.knownAt = now
      <3>1. f.instrument \in Range(Instruments) /\ f.at \in Nat /\ f.close \in Nat
        BY <1>1 DEF UniverseAssumption
      <3>2. f.source \in {g.source : g \in Feed}
        OBVIOUS
      <3>. QED BY <1>1, <3>1, <3>2 DEF Observed
    <2>4. log' = InsertAt(log, i, o)
      BY <2>2
    <2> HIDE DEF o
    <2>5. log' \in Seq(Observed)
      BY <1>1, <2>3, <2>4, InsertedObservation
    <2>6. CASE scan = NoScan
      BY <1>1, <2>1, <2>5, <2>6 DEF UniverseInv
    <2>7. CASE scan # NoScan
      <3>1. /\ scan.taken /\ scan.at \in Nat /\ scan.at <= now /\ scan.known \in Nat
            /\ scan.scanAsOf \in Nat /\ scan.window.start \in Nat /\ scan.window.end \in Nat
            /\ scan.known < scan.at =>
                 scan.results = Coordinate(log, scan.known, scan.scanAsOf, scan.window)
        BY <2>7 DEF UniverseInv
      <3>2. ASSUME scan.known < scan.at
            PROVE  scan.results = Coordinate(log', scan.known, scan.scanAsOf, scan.window)
        <4>1. scan.known < o.knownAt
          BY <1>1, <2>3, <3>1, <3>2
        <4>2. Coordinate(log', scan.known, scan.scanAsOf, scan.window)
                = Coordinate(log, scan.known, scan.scanAsOf, scan.window)
          <5> DEFINE k == scan.known
                     x == scan.scanAsOf
                     w == scan.window
          <5>1. k \in Nat /\ k < o.knownAt
            BY <3>1, <4>1
          <5> HIDE DEF k, x, w
          <5>2. Coordinate(log', k, x, w) = Coordinate(log, k, x, w)
            BY <1>1, <2>3, <2>4, <5>1, LearnedLater
          <5>. QED BY <5>2 DEF k, x, w
        <4>. QED BY <3>1, <3>2, <4>2
      <3>. QED BY <1>1, <2>1, <2>5, <3>1, <3>2 DEF UniverseInv
    <2>. QED BY <2>6, <2>7
  <1>4. CASE Take
    <2>1. now' = now /\ log' = log
      BY <1>4 DEF Take
    <2>2. PICK known \in 0 .. now, scanAsOf \in Moments, window \in Windows :
            scan' = [taken |-> TRUE, at |-> now, known |-> known, scanAsOf |-> scanAsOf,
                     window |-> window, results |-> Coordinate(log, known, scanAsOf, window)]
      BY <1>4 DEF Take
    <2>3. scanAsOf \in Nat /\ window.start \in Nat /\ window.end \in Nat
      BY <1>1 DEF UniverseAssumption
    <2>4. /\ scan'.taken = TRUE /\ scan'.at = now /\ scan'.known = known
          /\ scan'.scanAsOf = scanAsOf /\ scan'.window = window
          /\ scan'.results = Coordinate(log, known, scanAsOf, window)
      BY <2>2
    <2>. QED BY <1>1, <2>1, <2>3, <2>4 DEF UniverseInv
  <1>5. CASE UNCHANGED universeVars
    BY <1>5 DEF UniverseInv, universeVars
  <1>. QED BY <1>2, <1>3, <1>4, <1>5 DEF UniverseNext

(* For any instruments, windows and observations, corrected and late ones   *)
(* among them: a scan of what was known by a moment that has passed stays   *)
(* reproducible whatever is learned later, takes no part of later bars or   *)
(* of other sources, and judges the last bar of every instrument that has   *)
(* one until then.                                                          *)
THEOREM SoundScans ==
    UniverseAssumption /\ ResearchAssumption /\ UniverseSpec => []ScansAreSound
  <1>1. UniverseInv => ScansAreSound
    <2> SUFFICES ASSUME UniverseInv, scan.taken, scan.known < scan.at
                 PROVE  ScansAreSound
      BY DEF ScansAreSound, ScansAreReproducible, ScansDoNotLookAhead, SourcesAreNotBlended,
             NobodyIsLeftOut
    <2> DEFINE k == scan.known
               x == scan.scanAsOf
               w == scan.window
    <2>1. /\ UniverseAssumption /\ ResearchAssumption /\ log \in Seq(Observed)
          /\ k \in Nat /\ x \in Nat /\ w.start \in Nat /\ w.end \in Nat
          /\ scan.results = Coordinate(log, k, x, w)
      BY DEF UniverseInv, NoScan
    <2>2. ScansAreReproducible
      BY <2>1 DEF ScansAreReproducible
    <2>3. ScansDoNotLookAhead
      <3>1. Coordinate(Select(log, LAMBDA o : o.at <= x), k, x, w) = Coordinate(log, k, x, w)
        <4> HIDE DEF k, x, w
        <4>. QED BY <2>1, NoLaterBars
      <3>. QED BY <2>1, <3>1 DEF ScansDoNotLookAhead
    <2>4. SourcesAreNotBlended
      <3>1. Coordinate(Select(log, LAMBDA o : o.source = Source), k, x, w) = Coordinate(log, k, x, w)
        <4> HIDE DEF k, x, w
        <4>. QED BY <2>1, NoOtherSource
      <3>. QED BY <2>1, <3>1 DEF SourcesAreNotBlended
    <2>5. NobodyIsLeftOut
      <3> DEFINE judged(i) == {scan.results[j].at : j \in {l \in DOMAIN scan.results :
                                  scan.results[l].instrument = Instruments[i]}}
      <3>1. ASSUME NEW i \in DOMAIN Instruments
            PROVE  judged(i) = Latest(Askable(log, k, x, w, Instruments[i]))
        <4>1. JudgedOf(Coordinate(log, k, x, w), Instruments[i])
                    = Latest(Askable(log, k, x, w, Instruments[i]))
          <5> HIDE DEF k, x, w
          <5>. QED BY <2>1, Nobody
        <4>. QED BY <2>1, <4>1 DEF JudgedOf
      <3>. QED BY <3>1 DEF NobodyIsLeftOut, Latest, Askable
    <2>. QED BY <2>2, <2>3, <2>4, <2>5 DEF ScansAreSound
  <1>. QED BY <1>1, ScansInit, ScansNext, PTL DEF UniverseSpec

-----------------------------------------------------------------------------
(* The bars of a symbol: times ascend up to the latest one, prices are      *)
(* positive.                                                                *)
QuoteType == [at : Nat \ {0}, close : Nat \ {0}]
SeriesUpTo(series, t) ==
    /\ series \in Seq(QuoteType)
    /\ \A i \in DOMAIN series : series[i].at <= t
    /\ \A i, j \in DOMAIN series : i < j => series[i].at < series[j].at

(* Periods of the dashboard's research.                                     *)
OnePeriod(p) ==
    /\ p \in Nat \ {0}
    /\ Period["high"] = p /\ Period["low"] = p /\ Period["sma"] = p /\ Period["return"] = 1

LEMMA PeriodsAre ==
    ASSUME ResearchAssumption, ScanAssumption
    PROVE  OnePeriod(Period["high"]) /\ RegimeAssumption
  <1>1. Period["high"] \in Nat \ {0}
    BY DEF ResearchAssumption, Kinds
  <1>. QED BY <1>1 DEF ScanAssumption, RegimeAssumption, OnePeriod

(* The bars that are analysed.                                              *)
LEMMA HistoryIs ==
    ASSUME NEW series \in Seq(QuoteType)
    PROVE  /\ History(series) \in Seq(ValidBars) /\ Len(History(series)) = Len(series)
           /\ DOMAIN History(series) = 1 .. Len(series) /\ Len(series) \in Nat
           /\ \A i \in 1 .. Len(series) :
                /\ History(series)[i].close = series[i].close
                /\ History(series)[i].high = series[i].close
                /\ History(series)[i].low = series[i].close
                /\ series[i] \in QuoteType /\ series[i].close \in Nat /\ series[i].close > 0
                /\ series[i].at \in Nat /\ series[i].at > 0
  <1> DEFINE h == History(series)
  <1>1. PICK n \in Nat : n = Len(series) /\ DOMAIN series = 1 .. n
    OBVIOUS
  <1>2. \A i \in 1 .. n : series[i] \in QuoteType
    BY <1>1
  <1>3. \A i \in 1 .. n : /\ series[i].close \in Nat /\ series[i].close > 0
                          /\ series[i].at \in Nat /\ series[i].at > 0
    BY <1>2 DEF QuoteType
  <1>4. h = [i \in 1 .. n |-> Flat(series[i])]
    BY <1>1 DEF History
  <1>5. \A i \in 1 .. n : Flat(series[i]) \in ValidBars
    <2>1. \A c \in Nat : [open |-> c, high |-> c, low |-> c, close |-> c, volume |-> 1] \in ValidBars
      BY DEF ValidBars, BarType
    <2>. QED BY <1>3, <2>1 DEF Flat
  <1>6. \A i \in 1 .. n : h[i].close = series[i].close /\ h[i].high = series[i].close
                            /\ h[i].low = series[i].close
    BY <1>4 DEF Flat
  <1>7. h \in [1 .. n -> ValidBars]
    BY <1>4, <1>5
  <1> HIDE DEF h
  <1>8. h \in Seq(ValidBars) /\ Len(h) = n /\ DOMAIN h = 1 .. n
    <2>1. \A f \in [1 .. n -> ValidBars] : f \in Seq(ValidBars) /\ Len(f) = n /\ DOMAIN f = 1 .. n
      OBVIOUS
    <2>. QED BY <1>7, <2>1
  <1>. QED BY <1>1, <1>2, <1>3, <1>6, <1>8 DEF h

(* The setup and the trend of the latest of some bars.                      *)
LEMMA LatestIs ==
    ASSUME NEW h \in Seq(ValidBars), Len(h) > 0, NEW e,
           e = [key \in EvidenceKeys |->
                    EvaluateRule(key, h[Len(h)], Sources(key, Features(h), Len(h)))]
    PROVE  LET f == Features(h)
               setup == ActiveSetup(Setups(Evidence(h, f)))
           IN /\ Last(Regime(h, f)) =
                    Derive(h[Len(h)].close, f.sma[Len(h)], f.return[Len(h)])
              /\ setup \in {"upside", "downside", "none"}
              /\ setup = "upside" => /\ e.PRICE_ABOVE_SMA = "ACTIVE"
                                     /\ e.CLOSE_BREAKOUT_ABOVE_PRIOR_HIGH = "ACTIVE"
              /\ setup = "downside" => /\ e.PRICE_BELOW_SMA = "ACTIVE"
                                       /\ e.CLOSE_BREAKDOWN_BELOW_PRIOR_LOW = "ACTIVE"
  <1> DEFINE f == Features(h)
             evidence == Evidence(h, f)
             setups == Setups(evidence)
             regime == Regime(h, f)
             setup == ActiveSetup(setups)
  <1>1. PICK n \in Nat : n = Len(h) /\ DOMAIN h = 1 .. n /\ n \in 1 .. n
    OBVIOUS
  <1>2. DOMAIN evidence = 1 .. n /\ evidence[n] = e
    BY <1>1 DEF Evidence
  <1>3. DOMAIN regime = 1 .. n /\ regime[n] = Derive(h[n].close, f.sma[n], f.return[n])
    BY <1>1 DEF Regime
  <1> HIDE DEF evidence, regime
  <1>4. /\ DOMAIN setups = 1 .. n
        /\ setups[n].upside = SetupStatus({e.PRICE_ABOVE_SMA, e.CLOSE_BREAKOUT_ABOVE_PRIOR_HIGH})
        /\ setups[n].downside = SetupStatus({e.PRICE_BELOW_SMA, e.CLOSE_BREAKDOWN_BELOW_PRIOR_LOW})
    BY <1>1, <1>2 DEF Setups
  <1>5. /\ setups = [i \in 1 .. n |-> setups[i]]
        /\ regime = [i \in 1 .. n |-> regime[i]]
    BY <1>2, <1>3, <1>1 DEF Setups, Regime, regime
  <1> HIDE DEF setups
  <1>6. Len(setups) = n /\ Len(regime) = n
    <2>1. \A g : Len([i \in 1 .. n |-> g[i]]) = n
      BY <1>1
    <2>. QED BY <1>5, <2>1
  <1>7. Last(regime) = regime[n] /\ Last(setups) = setups[n]
    BY <1>6 DEF Last
  <1>8. \A a, b : SetupStatus({a, b}) = "ACTIVE" => a = "ACTIVE" /\ b = "ACTIVE"
    <2> SUFFICES ASSUME NEW a, NEW b, SetupStatus({a, b}) = "ACTIVE"
                 PROVE  a = "ACTIVE" /\ b = "ACTIVE"
      OBVIOUS
    <2>1. {a, b} = {"ACTIVE"}
      BY DEF SetupStatus, Availability
    <2>. QED BY ONLY <2>1
  <1>9. /\ setup \in {"upside", "downside", "none"}
        /\ setup = "upside" => setups[n].upside = "ACTIVE"
        /\ setup = "downside" => setups[n].downside = "ACTIVE"
    BY <1>7 DEF ActiveSetup
  <1> HIDE DEF setup, f
  <1> DEFINE above == e.PRICE_ABOVE_SMA
             below == e.PRICE_BELOW_SMA
             breakout == e.CLOSE_BREAKOUT_ABOVE_PRIOR_HIGH
             breakdown == e.CLOSE_BREAKDOWN_BELOW_PRIOR_LOW
  <1>10. /\ setups[n].upside = SetupStatus({above, breakout})
         /\ setups[n].downside = SetupStatus({below, breakdown})
    BY <1>4
  <1> HIDE DEF above, below, breakout, breakdown
  <1>11. /\ setup = "upside" => above = "ACTIVE" /\ breakout = "ACTIVE"
         /\ setup = "downside" => below = "ACTIVE" /\ breakdown = "ACTIVE"
    BY ONLY <1>8, <1>9, <1>10
  <1>. QED BY <1>1, <1>3, <1>7, <1>9, <1>11 DEF above, below, breakout, breakdown, setup, setups, evidence, regime, f

(* The latest bar is beyond the prior ones when its setup is active, and    *)
(* its setup is not against the trend.                                      *)
TrendOf(setup) == IF setup = "upside" THEN "UPWARD" ELSE "DOWNWARD"

LEMMA ReturnIs ==
    ASSUME ResearchAssumption, ScanAssumption, NEW series \in Seq(QuoteType), Len(series) >= 2
    PROVE  LET h == History(series)
               n == Len(series)
           IN Features(h).return[n] =
                Available(series[n].close - series[n - 1].close, series[n - 1].close)
  <1> DEFINE h == History(series)
             n == Len(series)
             c == Closes(h)
  <1>1. /\ h \in Seq(ValidBars) /\ Len(h) = n /\ n \in Nat
        /\ \A i \in 1 .. n : h[i].close = series[i].close /\ series[i].close > 0 /\ series[i].close \in Nat
    BY HistoryIs
  <1> HIDE DEF h
  <1>2. Len(c) = n /\ c \in Seq(Int) /\ \A i \in 1 .. n : c[i] = h[i].close
    BY <1>1, ValuesAre
  <1>3. Period["return"] = 1
    BY DEF ScanAssumption
  <1>4. Features(h).return = Returns(c, 1)
    BY <1>3 DEF Features
  <1> HIDE DEF c
  <1>5. n \in 1 .. n /\ n - 1 \in 1 .. n /\ n \in DOMAIN c /\ ~(n <= 1)
    BY <1>1, <1>2
  <1>6. c[n] = series[n].close /\ c[n - 1] = series[n - 1].close /\ c[n - 1] # 0
    BY <1>1, <1>2, <1>5
  <1>7. Returns(c, 1)[n] = Available(c[n] - c[n - 1], c[n - 1])
    BY <1>5, <1>6 DEF Returns
  <1>. QED BY <1>4, <1>6, <1>7 DEF h

LEMMA LatestBrokeOut ==
    ASSUME ResearchAssumption, ScanAssumption, NEW series \in Seq(QuoteType), Len(series) > 0
    PROVE  LET h == History(series)
               f == Features(h)
               setup == ActiveSetup(Setups(Evidence(h, f)))
           IN /\ setup \in {"upside", "downside", "none"}
              /\ setup # "none" => /\ BrokeOut(series, setup)
                                   /\ Last(Regime(h, f)) = TrendOf(setup)
  <1> DEFINE h == History(series)
             f == Features(h)
             setup == ActiveSetup(Setups(Evidence(h, f)))
             n == Len(series)
             p == Period["high"]
             e == [key \in EvidenceKeys |-> EvaluateRule(key, h[n], Sources(key, f, n))]
             trend == Derive(h[n].close, f.sma[n], f.return[n])
  <1>1. /\ h \in Seq(ValidBars) /\ Len(h) = n /\ n \in Nat /\ n \in 1 .. n
        /\ \A i \in 1 .. n : /\ h[i].close = series[i].close /\ h[i].high = series[i].close
                             /\ h[i].low = series[i].close
                             /\ series[i].close > 0 /\ series[i].close \in Nat
    BY HistoryIs
  <1>2. OnePeriod(p) /\ RegimeAssumption
    BY PeriodsAre
  <1> HIDE DEF h
  <1>3. Says(f, h[n], n, e)
    <2>1. AllReady(f, n)
      BY <1>1, FeaturesReady
    <2>. QED BY <1>1, <2>1, EvidenceSays
  <1>4. /\ Last(Regime(h, f)) = trend
        /\ setup \in {"upside", "downside", "none"}
        /\ setup = "upside" => /\ e.PRICE_ABOVE_SMA = "ACTIVE"
                               /\ e.CLOSE_BREAKOUT_ABOVE_PRIOR_HIGH = "ACTIVE"
        /\ setup = "downside" => /\ e.PRICE_BELOW_SMA = "ACTIVE"
                                 /\ e.CLOSE_BREAKDOWN_BELOW_PRIOR_LOW = "ACTIVE"
    BY <1>1, LatestIs
  <1> HIDE DEF setup, e
  <1>5. /\ e.PRICE_ABOVE_SMA = "ACTIVE" /\ e.CLOSE_BREAKOUT_ABOVE_PRIOR_HIGH = "ACTIVE" =>
                trend \in {"UPWARD", "UNDEFINED", "WARMING_UP"}
        /\ e.PRICE_BELOW_SMA = "ACTIVE" /\ e.CLOSE_BREAKDOWN_BELOW_PRIOR_LOW = "ACTIVE" =>
                trend \in {"DOWNWARD", "UNDEFINED", "WARMING_UP"}
    BY <1>1, <1>2, <1>3, SetupsTrend
  <1>6. /\ n > p => /\ Prior(f.high, n).num \in Int /\ Prior(f.high, n).den = 1
                    /\ \A j \in n - p .. n - 1 : Prior(f.high, n).num >= h[j].high
        /\ n > p => /\ Prior(f.low, n).num \in Int /\ Prior(f.low, n).den = 1
                    /\ \A j \in n - p .. n - 1 : Prior(f.low, n).num <= h[j].low
    <2>1. /\ n > Period["high"] => /\ Prior(f.high, n).num \in Int /\ Prior(f.high, n).den = 1
                    /\ \A j \in n - Period["high"] .. n - 1 : Prior(f.high, n).num >= h[j].high
          /\ n > Period["low"] => /\ Prior(f.low, n).num \in Int /\ Prior(f.low, n).den = 1
                    /\ \A j \in n - Period["low"] .. n - 1 : Prior(f.low, n).num <= h[j].low
      BY <1>1, PriorsAre
    <2>. QED BY <1>2, <2>1 DEF OnePeriod
  <1>7. /\ e.PRICE_ABOVE_SMA = "ACTIVE" => Fraction(f.sma[n])
        /\ e.PRICE_BELOW_SMA = "ACTIVE" => Fraction(f.sma[n])
        /\ e.CLOSE_BREAKOUT_ABOVE_PRIOR_HIGH = "ACTIVE" => n > p /\ Below(Prior(f.high, n), h[n].close)
        /\ e.CLOSE_BREAKDOWN_BELOW_PRIOR_LOW = "ACTIVE" => n > p /\ Above(Prior(f.low, n), h[n].close)
    BY <1>2, <1>3 DEF Says, OnePeriod
  <1>8. n > p => f.return[n].status = "AVAILABLE"
    <2>1. n > p => n >= 2
      BY <1>1, <1>2 DEF OnePeriod
    <2>2. n >= 2 => f.return[n] = Available(series[n].close - series[n - 1].close,
                                            series[n - 1].close)
      BY ReturnIs DEF h
    <2>3. \A x, y : Available(x, y).status = "AVAILABLE"
      BY DEF Available
    <2> HIDE DEF f
    <2>. QED BY <2>1, <2>2, <2>3
  <1>9. Fraction(f.sma[n]) /\ f.return[n].status = "AVAILABLE" =>
            trend \notin {"UNDEFINED", "WARMING_UP"}
    BY DEF Derive, Availability, Fraction
  <1> HIDE DEF f, trend
  <1>10. n > p => \A i \in n - p .. n - 1 : i \in 1 .. n
    BY <1>1, <1>2 DEF OnePeriod
  <1>11. ASSUME setup = "upside" PROVE BrokeOut(series, setup) /\ trend = "UPWARD"
    <2>1. n > p /\ Prior(f.high, n).num < h[n].close * Prior(f.high, n).den
      BY <1>4, <1>7, <1>11 DEF Below
    <2>2. \A i \in n - p .. n - 1 : h[n].close > h[i].high
      <3>1. h[n].close \in Int /\ \A i \in n - p .. n - 1 : h[i].high \in Int
        BY <1>1, <1>10, <2>1
      <3>. QED BY <1>6, <2>1, <3>1
    <2>3. \A c \in PriorCloses(series) : series[n].close > c
      BY <1>1, <1>10, <2>1, <2>2 DEF PriorCloses
    <2>. QED BY <1>4, <1>5, <1>7, <1>8, <1>9, <1>11, <2>1, <2>3 DEF BrokeOut, Last
  <1>12. ASSUME setup = "downside" PROVE BrokeOut(series, setup) /\ trend = "DOWNWARD"
    <2>1. n > p /\ Prior(f.low, n).num > h[n].close * Prior(f.low, n).den
      BY <1>4, <1>7, <1>12 DEF Above
    <2>2. \A i \in n - p .. n - 1 : h[n].close < h[i].low
      <3>1. h[n].close \in Int /\ \A i \in n - p .. n - 1 : h[i].low \in Int
        BY <1>1, <1>10, <2>1
      <3>. QED BY <1>6, <2>1, <3>1
    <2>3. \A c \in PriorCloses(series) : series[n].close < c
      BY <1>1, <1>10, <2>1, <2>2 DEF PriorCloses
    <2>. QED BY <1>4, <1>5, <1>7, <1>8, <1>9, <1>12, <2>1, <2>3 DEF BrokeOut, Last
  <1>. QED BY <1>4, <1>11, <1>12 DEF setup, f, h, TrendOf

(* A market that moves against a setup has the trend against it.            *)
LEMMA TrendAgainst ==
    ASSUME ResearchAssumption, ScanAssumption, NEW series \in Seq(QuoteType),
           NEW setup \in Keys, MovesAgainst(series, setup)
    PROVE  LET h == History(series) IN
           /\ Len(series) > 0
           /\ Last(Regime(h, Features(h))) = IF setup = "upside" THEN "DOWNWARD" ELSE "UPWARD"
  <1> DEFINE h == History(series)
             f == Features(h)
             n == Len(series)
             p == Period["high"]
             c == Closes(h)
             sum == SumOf(c, n - p + 1, n)
             sma == f.sma[n]
             return == f.return[n]
             close == series[n].close
  <1>1. /\ h \in Seq(ValidBars) /\ Len(h) = n /\ n \in Nat /\ DOMAIN h = 1 .. n
        /\ \A i \in 1 .. n : h[i].close = series[i].close
                             /\ series[i].close > 0 /\ series[i].close \in Nat
    BY HistoryIs
  <1>2. OnePeriod(p)
    BY PeriodsAre
  <1>3. n >= p /\ n >= 2 /\ n \in 1 .. n /\ n - 1 \in 1 .. n
    BY <1>1, <1>2 DEF MovesAgainst, OnePeriod
  <1>4. c = [i \in DOMAIN series |-> series[i].close]
    BY <1>1 DEF Closes
  <1>5. IF setup = "upside" THEN close < series[n - 1].close /\ sum - p * close > 0
        ELSE close > series[n - 1].close /\ sum - p * close < 0
    BY <1>2, <1>4 DEF MovesAgainst, OnePeriod
  <1>6. return = Available(close - series[n - 1].close, series[n - 1].close)
    BY <1>3, ReturnIs
  <1>7. sma = Available(sum, p)
    <2>1. c \in Seq(Int) /\ n \in 1 .. Len(c)
      BY <1>1, <1>3, ValuesAre
    <2>2. p \in Nat \ {0} /\ ~(n < p)
      BY <1>1, <1>2, <1>3 DEF OnePeriod
    <2>3. f.sma = Sma(c, p)
      BY <1>2 DEF Features, OnePeriod
    <2> HIDE DEF c, p, f
    <2>4. Sma(c, p)[n] = IF n < p THEN Warming ELSE Available(SumOf(c, n - p + 1, n), p)
      BY <2>1, <2>2, SmaIs
    <2>. QED BY <2>2, <2>3, <2>4
  <1>8. sum \in Int
    <2>1. c \in Seq(Int) /\ Len(c) = n
      BY <1>1, ValuesAre
    <2> DEFINE first == n - p + 1
    <2>2. first \in Int /\ n \in Int /\ first - 1 <= n /\ first >= 1
      BY <1>1, <1>2, <1>3 DEF OnePeriod
    <2> HIDE DEF c, p, n, first
    <2>3. \A i \in first .. n : c[i] \in Int
      BY <2>1, <2>2
    <2>4. PICK g : SumFrom(c, first, n, g) /\ SumOf(c, first, n) = g[n]
      BY <2>2, <2>3, SumExists
    <2>5. g \in [first - 1 .. n -> Int] /\ n \in first - 1 .. n
      BY <2>2, <2>4 DEF SumFrom
    <2>. QED BY <2>4, <2>5 DEF first
  <1>9. Last(Regime(h, f)) = Derive(h[n].close, sma, return)
    <2> DEFINE e == [key \in EvidenceKeys |-> EvaluateRule(key, h[n], Sources(key, f, n))]
    <2>1. Len(h) > 0
      BY <1>1, <1>3
    <2>2. e = [key \in EvidenceKeys |->
                    EvaluateRule(key, h[Len(h)], Sources(key, Features(h), Len(h)))]
      BY <1>1
    <2> HIDE DEF e, h
    <2>. QED BY <1>1, <2>1, <2>2, LatestIs
  <1>10. /\ sma.status = "AVAILABLE" /\ sma.num = sum /\ sma.den = p
         /\ return.status = "AVAILABLE" /\ return.num = close - series[n - 1].close
    BY <1>6, <1>7 DEF Available
  <1>11. /\ h[n].close = close /\ close \in Int /\ series[n - 1].close \in Int
         /\ p \in Int /\ p * close = close * p /\ close * p \in Int
    BY <1>1, <1>2, <1>3 DEF OnePeriod
  <1> HIDE DEF sma, return, sum, close, h, p
  <1>12. CASE setup = "upside"
    <2>1. Above(sma, close) /\ ~Below(sma, close) /\ return.num < 0
      BY <1>5, <1>8, <1>10, <1>11, <1>12 DEF Above, Below
    <2>2. Derive(close, sma, return) = "DOWNWARD"
      BY <1>10, <2>1 DEF Derive, Availability
    <2>. QED BY <1>3, <1>9, <1>11, <1>12, <2>2 DEF h
  <1>13. CASE setup # "upside"
    <2>1. Below(sma, close) /\ return.num > 0
      BY <1>5, <1>8, <1>10, <1>11, <1>13 DEF Above, Below
    <2>2. Derive(close, sma, return) = "UPWARD"
      BY <1>10, <2>1 DEF Derive, Availability
    <2>. QED BY <1>3, <1>9, <1>11, <1>13, <2>2 DEF h
  <1>. QED BY <1>12, <1>13

(* The stop is the last of the prior closes that was passed.                *)
LEMMA StopIs ==
    ASSUME ResearchAssumption, ScanAssumption, NEW series \in Seq(QuoteType),
           NEW setup \in Keys, BrokeOut(series, setup)
    PROVE  LET stop == SuggestedStop(History(series), setup) IN
           /\ stop \in PriorCloses(series)
           /\ \A c \in PriorCloses(series) :
                c \in Nat /\ IF setup = "upside" THEN c <= stop ELSE c >= stop
  <1> DEFINE h == History(series)
             n == Len(series)
             p == Period["high"]
             P == PriorCloses(series)
             prior == PriorStructure(h)
             close == series[n].close
  <1>1. /\ h \in Seq(ValidBars) /\ Len(h) = n /\ n \in Nat /\ DOMAIN h = 1 .. n
        /\ \A i \in 1 .. n : /\ h[i].close = series[i].close /\ h[i].high = series[i].close
                             /\ h[i].low = series[i].close
                             /\ series[i].close > 0 /\ series[i].close \in Nat
    BY HistoryIs
  <1>2. p \in Nat \ {0}
    BY PeriodsAre DEF OnePeriod
  <1>3. n > p /\ \A c \in P : IF setup = "upside" THEN close > c ELSE close < c
    BY DEF BrokeOut, Last
  <1>4. n - p \in 1 .. n /\ n - 1 \in 1 .. n /\ n \in 1 .. n /\ n - p <= n - 1
    BY <1>1, <1>2, <1>3
  <1> HIDE DEF h, p
  <1>5. P = {series[i].close : i \in n - p .. n - 1}
    BY DEF PriorCloses, p
  <1>6. /\ DOMAIN prior = 1 .. p
        /\ \A i \in 1 .. p : prior[i] = h[n - p + i - 1] /\ n - p + i - 1 \in n - p .. n - 1
    <2>1. prior = SubSeq(h, n - p, n - 1)
      <3>1. Len(h) = n /\ ~(n <= p)
        BY <1>1, <1>2, <1>3
      <3>. QED BY <3>1 DEF PriorStructure, p
    <2>2. DOMAIN SubSeq(h, n - p, n - 1) = 1 .. p
      BY <1>1, <1>2, <1>4
    <2>3. \A i \in 1 .. p : SubSeq(h, n - p, n - 1)[i] = h[n - p + i - 1]
      BY <1>1, <1>2, <1>4
    <2>4. \A i \in 1 .. p : n - p + i - 1 \in n - p .. n - 1
      BY <1>1, <1>2
    <2>. QED BY <2>1, <2>2, <2>3, <2>4
  <1>7. \A i \in n - p .. n - 1 : i \in 1 .. n /\ i - (n - p) + 1 \in 1 .. p
                                  /\ n - p + (i - (n - p) + 1) - 1 = i
    BY <1>1, <1>2, <1>4
  <1> HIDE DEF prior, P
  <1>8. {prior[i].high : i \in DOMAIN prior} = P /\ {prior[i].low : i \in DOMAIN prior} = P
    <2>1. \A i \in 1 .. p : prior[i].high \in P /\ prior[i].low \in P
      BY <1>1, <1>5, <1>6, <1>7
    <2>2. ASSUME NEW x \in P
          PROVE  \E i \in 1 .. p : prior[i].high = x /\ prior[i].low = x
      <3>1. PICK j \in n - p .. n - 1 : x = series[j].close
        BY <1>5
      <3>2. PICK i \in 1 .. p : n - p + i - 1 = j
        BY <1>7
      <3>3. prior[i] = h[j] /\ j \in 1 .. n
        BY <1>6, <1>7, <3>2
      <3>. QED BY <1>1, <3>1, <3>3
    <2>. QED BY <1>6, <2>1, <2>2
  <1>9. prior # <<>>
    <2>1. 1 \in DOMAIN prior
      BY <1>2, <1>6
    <2>. QED BY <2>1
  <1>10. \A c \in P : c \in Nat /\ c > 0
    BY <1>1, <1>5, <1>7
  <1>11. close \in Nat /\ close > 0
    BY <1>1, <1>4
  <1>12. /\ \E x \in P : \A y \in P : y <= x
         /\ \E x \in P : \A y \in P : x <= y
    <2> DEFINE v == [i \in 1 .. p |-> series[n - p + i - 1].close]
    <2>1. v \in Seq(Int) /\ Len(v) = p /\ p \in 1 .. Len(v)
      <3>1. v \in [1 .. p -> Int]
        BY <1>1, <1>6, <1>7
      <3> HIDE DEF v
      <3>2. \A g \in [1 .. p -> Int] : g \in Seq(Int) /\ Len(g) = p
        BY <1>2
      <3>. QED BY <1>2, <3>1, <3>2
    <2>2. \A i \in 1 .. p : v[i] \in P
      BY <1>5, <1>6
    <2>3. \A x \in P : \E i \in 1 .. p : v[i] = x
      <3> SUFFICES ASSUME NEW x \in P PROVE \E i \in 1 .. p : v[i] = x
        OBVIOUS
      <3>1. PICK j \in n - p .. n - 1 : x = series[j].close
        BY <1>5
      <3>2. PICK i \in 1 .. p : n - p + i - 1 = j
        BY <1>7
      <3>. QED BY <3>1, <3>2
    <2> HIDE DEF v
    <2>4. /\ \E j \in 1 .. p : \A k \in 1 .. p : v[k] <= v[j]
          /\ \E j \in 1 .. p : \A k \in 1 .. p : v[k] >= v[j]
      BY <2>1, Extremes
    <2>5. \A k \in 1 .. p : v[k] \in Int
      BY <2>1
    <2>. QED BY <2>2, <2>3, <2>4, <2>5
  <1> DEFINE high == CHOOSE x \in P : \A y \in P : y <= x
             low == CHOOSE x \in P : \A y \in P : x <= y
  <1>13. /\ high \in P /\ \A y \in P : y <= high
         /\ low \in P /\ \A y \in P : low <= y
    BY <1>12
  <1>14. Last(h).close = close
    BY <1>1, <1>4 DEF Last
  <1> HIDE DEF high, low
  <1>15. CASE setup = "upside"
    <2>1. 0 < high /\ high < close
      BY <1>3, <1>10, <1>11, <1>13, <1>15
    <2>2. SuggestedStop(h, setup) = high
      <3> DEFINE s == CHOOSE x \in {prior[i].high : i \in DOMAIN prior} :
                        \A y \in {prior[i].high : i \in DOMAIN prior} : y <= x
      <3>1. s = high
        BY <1>8 DEF high
      <3> HIDE DEF s
      <3>2. SuggestedStop(h, setup) = IF 0 < s /\ s < close THEN s ELSE 0
        BY <1>9, <1>14, <1>15 DEF SuggestedStop, s, prior
      <3>. QED BY <2>1, <3>1, <3>2
    <2>. QED BY <1>10, <1>13, <1>15, <2>2 DEF h, P
  <1>16. CASE setup = "downside"
    <2>1. low > close
      BY <1>3, <1>10, <1>11, <1>13, <1>16
    <2>2. SuggestedStop(h, setup) = low
      <3> DEFINE s == CHOOSE x \in {prior[i].low : i \in DOMAIN prior} :
                        \A y \in {prior[i].low : i \in DOMAIN prior} : x <= y
      <3>1. s = low
        BY <1>8 DEF low
      <3> HIDE DEF s
      <3>2. SuggestedStop(h, setup) = IF s > close THEN s ELSE 0
        BY <1>9, <1>14, <1>16 DEF SuggestedStop, s, prior
      <3>. QED BY <2>1, <3>1, <3>2
    <2>. QED BY <1>10, <1>13, <1>16, <2>2 DEF h, P
  <1>. QED BY <1>15, <1>16 DEF Keys

-----------------------------------------------------------------------------
(* What a row says of the bars, whatever else is composed into it.          *)
ResearchFields ==
    {"symbol", "observedAt", "chart", "latestAt", "setup", "action", "trend", "stop", "grade", "score"}
RowFields ==
    ResearchFields \cup {"hasId", "market", "relative", "readiness", "checks", "rank"}
SetupNames == {"upside", "downside", "none"}
GradeNames == {"PROMISING", "WEAK", "INSUFFICIENT", "NOT_APPLICABLE"}
AlignmentNames == {"SUPPORTS", "NEUTRAL", "UNAVAILABLE", "CONTRADICTS"}

HasStop(stop, setup, series, latestAt) ==
    /\ stop \in PriorCloses(series)
    /\ BrokeOut(Append(SubSeq(series, 1, Len(series) - 1),
                       [at |-> latestAt, close |-> stop + IF setup = "upside" THEN 1 ELSE -1]), setup)
    /\ (setup = "upside") = (stop < Last(series).close)

Researched(r, symbol, series, t) ==
    /\ DOMAIN r = RowFields
    /\ r.symbol = symbol /\ r.observedAt = t /\ r.chart = Chart(series)
    /\ r.latestAt = IF series = <<>> THEN 0 ELSE Last(series).at
    /\ r.setup \in SetupNames /\ (r.setup # "none" => r.action = "REVIEW")
    /\ r.setup # "none" => /\ BrokeOut(series, r.setup) /\ r.trend = TrendOf(r.setup)
                           /\ HasStop(r.stop, r.setup, series, r.latestAt)
    /\ \A setup \in Keys : MovesAgainst(series, setup) =>
            r.trend = IF setup = "upside" THEN "DOWNWARD" ELSE "UPWARD"
    /\ r.grade \in GradeNames /\ r.score \in Int /\ (r.grade = "PROMISING" => r.score # NoScore)

SameResearch(r, q) == DOMAIN r = RowFields /\ \A f \in ResearchFields : r[f] = q[f]

LEMMA StillResearched ==
    ASSUME NEW q, NEW symbol, NEW series, NEW t, Researched(q, symbol, series, t),
           NEW r, SameResearch(r, q)
    PROVE  Researched(r, symbol, series, t)
  <1>1. /\ r.symbol = q.symbol /\ r.observedAt = q.observedAt /\ r.chart = q.chart
        /\ r.latestAt = q.latestAt /\ r.setup = q.setup /\ r.action = q.action
        /\ r.trend = q.trend /\ r.stop = q.stop /\ r.grade = q.grade /\ r.score = q.score
    BY DEF SameResearch, ResearchFields
  <1>. QED BY <1>1 DEF Researched, SameResearch

(* The stop holds one more tick.                                            *)
LEMMA StopHolds ==
    ASSUME ResearchAssumption, ScanAssumption, NEW series \in Seq(QuoteType),
           NEW setup \in Keys, BrokeOut(series, setup), NEW t
    PROVE  HasStop(SuggestedStop(History(series), setup), setup, series, t)
  <1> DEFINE stop == SuggestedStop(History(series), setup)
             n == Len(series)
             p == Period["high"]
             x == [at |-> t, close |-> stop + IF setup = "upside" THEN 1 ELSE -1]
             cut == Append(SubSeq(series, 1, n - 1), x)
             P == PriorCloses(series)
  <1>1. /\ stop \in P
        /\ \A c \in P : c \in Nat /\ IF setup = "upside" THEN c <= stop ELSE c >= stop
    BY StopIs
  <1> HIDE DEF stop
  <1>2. n > p /\ p \in Nat \ {0} /\ n \in Nat
    BY PeriodsAre DEF BrokeOut, OnePeriod
  <1>3. /\ Len(cut) = n /\ cut[n] = x
        /\ \A i \in 1 .. n - 1 : cut[i] = series[i]
    <2> DEFINE s == SubSeq(series, 1, n - 1)
    <2>1. s \in Seq(QuoteType) /\ Len(s) = n - 1 /\ \A i \in 1 .. n - 1 : s[i] = series[i]
      BY <1>2
    <2>2. cut = Append(s, x)
      OBVIOUS
    <2> HIDE DEF s, cut, x
    <2>3. /\ Len(Append(s, x)) = Len(s) + 1 /\ Append(s, x)[Len(s) + 1] = x
          /\ \A i \in 1 .. Len(s) : Append(s, x)[i] = s[i]
      BY <2>1
    <2>4. (n - 1) + 1 = n
      BY <1>2
    <2>. QED BY <2>1, <2>2, <2>3, <2>4
  <1> HIDE DEF cut
  <1>4. PriorCloses(cut) = P
    <2>1. \A i \in n - p .. n - 1 : i \in 1 .. n - 1
      BY <1>2
    <2>. QED BY <1>3, <2>1 DEF PriorCloses, p
  <1>5. Last(cut) = x
    BY <1>3 DEF Last
  <1>6. \A c \in P : IF setup = "upside" THEN x.close > c ELSE x.close < c
    BY <1>1
  <1>7. BrokeOut(cut, setup)
    <2> HIDE DEF x, P
    <2>. QED BY <1>2, <1>3, <1>4, <1>5, <1>6 DEF BrokeOut, p
  <1>8. (setup = "upside") = (stop < Last(series).close)
    <2>1. Last(series).close \in Nat
      <3>1. n \in 1 .. n
        BY <1>2
      <3>. QED BY <3>1, HistoryIs DEF Last
    <2>2. IF setup = "upside" THEN Last(series).close > stop ELSE Last(series).close < stop
      BY <1>1 DEF BrokeOut
    <2>3. stop \in Nat
      BY <1>1
    <2>. QED BY <2>1, <2>2, <2>3
  <1>. QED BY <1>1, <1>7, <1>8 DEF HasStop, stop, cut

LEMMA RowIs ==
    ASSUME ResearchAssumption, ScanAssumption, NEW series \in Seq(QuoteType), NEW symbol, NEW t
    PROVE  Researched(ResearchRow(symbol, series, t), symbol, series, t)
  <1> DEFINE h == History(series)
             f == Features(h)
             setup == ActiveSetup(Setups(Evidence(h, f)))
             trend == IF series = <<>> THEN "NO_DATA" ELSE Last(Regime(h, f))
             stop == IF setup = "none" THEN 0 ELSE SuggestedStop(h, setup)
             latestAt == IF series = <<>> THEN 0 ELSE Last(series).at
             action == IF series = <<>> THEN "NO_DATA" ELSE IF setup = "none" THEN "WAIT" ELSE "REVIEW"
             r == ResearchRow(symbol, series, t)
  <1>1. r = [symbol |-> symbol, observedAt |-> t, chart |-> Chart(series), latestAt |-> latestAt,
             setup |-> setup, action |-> action, trend |-> trend, stop |-> stop,
             hasId |-> series # <<>>, grade |-> "NOT_APPLICABLE", score |-> NoScore,
             market |-> "UNAVAILABLE", relative |-> "UNAVAILABLE",
             readiness |-> "WAIT", checks |-> <<>>, rank |-> 0]
    BY DEF ResearchRow
  <1>2. series = <<>> => setup = "none"
    <2> SUFFICES ASSUME series = <<>> PROVE setup = "none"
      OBVIOUS
    <2>1. DOMAIN h = 1 .. 0
      BY HistoryIs
    <2>2. DOMAIN Evidence(h, f) = 1 .. 0
      BY <2>1 DEF Evidence
    <2> DEFINE setups == Setups(Evidence(h, f))
    <2>3. setups = [i \in 1 .. 0 |-> setups[i]]
      BY <2>2 DEF Setups
    <2> HIDE DEF setups
    <2>4. \A g : [i \in 1 .. 0 |-> g[i]] = <<>>
      OBVIOUS
    <2>. QED BY <2>3, <2>4 DEF ActiveSetup, setups
  <1>3. series # <<>> => Len(series) > 0
    OBVIOUS
  <1>4. /\ setup \in SetupNames
        /\ setup # "none" => /\ series # <<>> /\ BrokeOut(series, setup)
                             /\ trend = TrendOf(setup) /\ setup \in Keys
    BY <1>2, <1>3, LatestBrokeOut DEF SetupNames, Keys
  <1>5. \A s \in Keys : MovesAgainst(series, s) =>
            trend = IF s = "upside" THEN "DOWNWARD" ELSE "UPWARD"
    <2> SUFFICES ASSUME NEW s \in Keys, MovesAgainst(series, s)
                 PROVE  trend = IF s = "upside" THEN "DOWNWARD" ELSE "UPWARD"
      OBVIOUS
    <2>1. Len(series) > 0 /\ Last(Regime(h, f)) = IF s = "upside" THEN "DOWNWARD" ELSE "UPWARD"
      BY TrendAgainst
    <2>2. series # <<>>
      BY <2>1
    <2>. QED BY <2>1, <2>2
  <1> HIDE DEF trend, setup
  <1>6. setup # "none" => HasStop(stop, setup, series, latestAt)
    BY <1>4, StopHolds
  <1> HIDE DEF h, f, stop, latestAt
  <1>7. setup # "none" => action = "REVIEW"
    BY <1>4
  <1> HIDE DEF action, r
  <1>8. DOMAIN r = RowFields
    BY <1>1 DEF RowFields, ResearchFields
  <1>9. /\ r.symbol = symbol /\ r.observedAt = t /\ r.chart = Chart(series)
        /\ r.latestAt = latestAt /\ r.setup = setup /\ r.action = action
        /\ r.trend = trend /\ r.stop = stop /\ r.grade = "NOT_APPLICABLE" /\ r.score = NoScore
    BY <1>1
  <1>10. NoScore \in Int /\ "NOT_APPLICABLE" \in GradeNames
    BY DEF NoScore, GradeNames
  <1>11. Researched(r, symbol, series, t)
    BY <1>4, <1>5, <1>6, <1>7, <1>8, <1>9, <1>10 DEF Researched, latestAt
  <1>. QED BY <1>11 DEF r

LEMMA GradedIs ==
    ASSUME ScanAssumption, NEW q, NEW symbol, NEW series, NEW t, Researched(q, symbol, series, t),
           NEW result \in Scores
    PROVE  Researched(Graded(q, result), symbol, series, t)
  <1> DEFINE r == Graded(q, result)
  <1>1. DOMAIN q = RowFields
    BY DEF Researched
  <1>2. CASE q.setup = "none"
    BY <1>2 DEF Graded
  <1>3. CASE q.setup # "none"
    <2>1. r = [q EXCEPT !.grade = result.grade, !.score = result.score]
      BY <1>3 DEF Graded
    <2> HIDE DEF r
    <2>2. DOMAIN r = RowFields
      BY <1>1, <2>1
    <2>3. "grade" \in DOMAIN q /\ "score" \in DOMAIN q
      BY <1>1 DEF RowFields, ResearchFields
    <2>4. /\ r.symbol = q.symbol /\ r.observedAt = q.observedAt /\ r.chart = q.chart
          /\ r.latestAt = q.latestAt /\ r.setup = q.setup /\ r.action = q.action
          /\ r.trend = q.trend /\ r.stop = q.stop
          /\ r.grade = result.grade /\ r.score = result.score
      BY <1>1, <2>1 DEF RowFields, ResearchFields
    <2>5. /\ result.grade \in GradeNames /\ result.score \in Int
          /\ result.grade = "PROMISING" => result.score # NoScore
      BY DEF ScanAssumption, GradeNames
    <2>. QED BY <2>2, <2>4, <2>5 DEF Researched, r
  <1>. QED BY <1>2, <1>3

-----------------------------------------------------------------------------
(* What is composed into a row that was researched.                         *)
Judge(q, benchmark) == WithReadiness(Aligned(q, benchmark))

LEMMA AlignmentsAre ==
    ASSUME NEW q, NEW benchmark
    PROVE  /\ MarketAlignment(q, benchmark) \in AlignmentNames
           /\ RelativeAlignment(q, benchmark) \in AlignmentNames
  <1>1. \A setup, a, b : With(setup, a, b) \in AlignmentNames
    BY DEF With, AlignmentNames
  <1>2. {"NEUTRAL", "UNAVAILABLE"} \subseteq AlignmentNames
    BY DEF AlignmentNames
  <1>3. MarketAlignment(q, benchmark) \in AlignmentNames
    BY <1>1, <1>2, Zenon DEF MarketAlignment
  <1>4. RelativeAlignment(q, benchmark) \in AlignmentNames
    <2>1. RelativeTo(q, benchmark[1]) \in AlignmentNames
      BY <1>1, <1>2, Zenon DEF RelativeTo
    <2>. QED BY <1>2, <2>1 DEF RelativeAlignment
  <1>. QED BY <1>3, <1>4

LEMMA JudgementIs ==
    ASSUME NEW q, DOMAIN q = RowFields, NEW benchmark
    PROVE  LET r == Judge(q, benchmark) IN
           /\ SameResearch(r, q)
           /\ r.market = MarketAlignment(q, benchmark) /\ r.market \in AlignmentNames
           /\ r.relative = RelativeAlignment(q, benchmark) /\ r.relative \in AlignmentNames
           /\ r.readiness = "READY_FOR_RISK_CHECK" =>
                /\ Fresh(q) /\ q.setup # "none" /\ q.grade = "PROMISING"
                /\ r.market # "CONTRADICTS"
  <1> DEFINE a == Aligned(q, benchmark)
             r == Judge(q, benchmark)
             m == MarketAlignment(q, benchmark)
             n == RelativeAlignment(q, benchmark)
  <1>1. a = [q EXCEPT !.market = m, !.relative = n]
    BY DEF Aligned
  <1>2. r = [a EXCEPT !.readiness = Readiness(a), !.checks = Checks(a)]
    BY DEF WithReadiness, Judge
  <1>3. m \in AlignmentNames /\ n \in AlignmentNames
    BY AlignmentsAre
  <1> HIDE DEF a, m, n, r
  <1>4. DOMAIN a = RowFields /\ a.market = m /\ a.relative = n
        /\ \A f \in ResearchFields : a[f] = q[f]
    BY <1>1 DEF RowFields, ResearchFields
  <1> DEFINE ready == Readiness(a)
             checks == Checks(a)
  <1> HIDE DEF ready, checks
  <1>5. DOMAIN r = RowFields /\ r.market = a.market /\ r.relative = a.relative
        /\ r.readiness = ready /\ \A f \in ResearchFields : r[f] = a[f]
    <2>1. r = [a EXCEPT !.readiness = ready, !.checks = checks]
      BY <1>2 DEF ready, checks
    <2>. QED BY <1>4, <2>1 DEF RowFields, ResearchFields
  <1>6. a.setup = q.setup /\ a.latestAt = q.latestAt /\ a.observedAt = q.observedAt /\ a.grade = q.grade
    BY <1>4 DEF ResearchFields
  <1>7. ready = "READY_FOR_RISK_CHECK" =>
            /\ Fresh(a) /\ a.setup # "none" /\ a.grade = "PROMISING" /\ a.market # "CONTRADICTS"
    BY DEF ready, Readiness
  <1>8. Fresh(a) => Fresh(q)
    BY <1>6 DEF Fresh
  <1>9. SameResearch(r, q)
    BY <1>4, <1>5 DEF SameResearch
  <1>. QED BY <1>3, <1>4, <1>5, <1>6, <1>7, <1>8, <1>9 DEF r, m, n

-----------------------------------------------------------------------------
(* A benchmark whose trend is against a setup contradicts it, and one       *)
(* supports its own setup and is no stronger than itself.                   *)
LEMMA MarketAgainst ==
    ASSUME NEW q, q.setup \in Keys, NEW benchmark, benchmark # <<>>,
           benchmark[1].trend = IF q.setup = "upside" THEN "DOWNWARD" ELSE "UPWARD"
    PROVE  MarketAlignment(q, benchmark) = "CONTRADICTS"
  BY DEF MarketAlignment, With, Regimes, Keys

LEMMA MarketSupports ==
    ASSUME NEW q, q.setup \in Keys, NEW benchmark, benchmark # <<>>,
           benchmark[1].trend = TrendOf(q.setup)
    PROVE  MarketAlignment(q, benchmark) = "SUPPORTS"
  BY DEF MarketAlignment, With, Regimes, Keys, TrendOf

LEMMA ChartIs ==
    ASSUME ScanAssumption, NEW series, NEW t, SeriesUpTo(series, t), Len(series) >= 2
    PROVE  LET chart == Chart(series)
               k == Len(chart)
           IN /\ chart \in Seq(QuoteType) /\ k \in Nat /\ k >= 2 /\ DOMAIN chart = 1 .. k
              /\ \A i, j \in 1 .. k : i < j => chart[i].at < chart[j].at
              /\ \A i \in 1 .. k : chart[i].at \in Nat /\ chart[i].close \in Nat
  <1> DEFINE n == Len(series)
             m == Most(1, n - ChartBars + 1)
             chart == SubSeq(series, m, n)
  <1>1. /\ series \in Seq(QuoteType) /\ n \in Nat /\ n >= 2 /\ DOMAIN series = 1 .. n
        /\ \A i, j \in 1 .. n : i < j => series[i].at < series[j].at
    BY DEF SeriesUpTo
  <1>2. m \in Nat /\ m >= 1 /\ n - m + 1 >= 2 /\ m <= n
    BY <1>1 DEF Most, ScanAssumption
  <1>3. \A i \in 1 .. n : series[i].at \in Nat /\ series[i].close \in Nat
    BY <1>1, HistoryIs
  <1> HIDE DEF m, n
  <1>4. /\ chart \in Seq(QuoteType) /\ Len(chart) = n - m + 1 /\ DOMAIN chart = 1 .. n - m + 1
        /\ \A i \in 1 .. n - m + 1 : chart[i] = series[m + i - 1] /\ m + i - 1 \in 1 .. n
    BY <1>1, <1>2 DEF n
  <1>5. \A i, j \in 1 .. n - m + 1 : i < j => m + i - 1 < m + j - 1
    BY <1>1, <1>2
  <1> HIDE DEF chart
  <1>6. /\ \A i, j \in 1 .. n - m + 1 : i < j => chart[i].at < chart[j].at
        /\ \A i \in 1 .. n - m + 1 : chart[i].at \in Nat /\ chart[i].close \in Nat
    BY <1>1, <1>3, <1>4, <1>5
  <1>7. n - m + 1 \in Nat
    BY <1>1, <1>2
  <1>. QED BY <1>2, <1>4, <1>6, <1>7 DEF Chart, chart, m, n

LEMMA PairHasTwo ==
    ASSUME NEW a, NEW b, a # b
    PROVE  Cardinality({a, b}) = 2
  <1>1. IsFiniteSet({b}) /\ Cardinality({b}) = 1
    BY FS_Singleton
  <1>2. Cardinality({b} \cup {a}) = Cardinality({b}) + 1
    BY <1>1, FS_AddElement
  <1>3. {b} \cup {a} = {a, b}
    OBVIOUS
  <1>4. Cardinality({b} \cup {a}) = 2
    BY <1>1, <1>2
  <1>. QED BY <1>3, <1>4

LEMMA OwnStrength ==
    ASSUME ResearchAssumption, ScanAssumption, NEW series, NEW t, SeriesUpTo(series, t),
           Len(series) >= 2, NEW q, q.chart = Chart(series)
    PROVE  RelativeTo(q, q) = "NEUTRAL"
  <1> DEFINE chart == Chart(series)
             k == Len(chart)
             p == Period["high"]
             times == ChartTimes(chart)
             Later(u) == {v \in times : v > u}
             common == MostRecent(times)
             first == CHOOSE u \in common : \A v \in common : u <= v
             last == CHOOSE u \in common : \A v \in common : v <= u
             near == chart[k].at
             before == chart[k - 1].at
  <1>1. /\ chart \in Seq(QuoteType) /\ k \in Nat /\ k >= 2 /\ DOMAIN chart = 1 .. k
        /\ \A i, j \in 1 .. k : i < j => chart[i].at < chart[j].at
        /\ \A i \in 1 .. k : chart[i].at \in Nat /\ chart[i].close \in Nat
    BY ChartIs
  <1>2. p \in Nat \ {0}
    BY PeriodsAre DEF OnePeriod
  <1>2a. CommonTimes(q, q) = common
    <2>1. times \cap times = times
      OBVIOUS
    <2>. QED BY <2>1 DEF CommonTimes
  <1>2b. times = {chart[i].at : i \in 1 .. k}
    BY <1>1 DEF ChartTimes
  <1>2c. common = {u \in times : Cardinality(Later(u)) <= p}
    BY DEF MostRecent
  <1> HIDE DEF chart, k, p, times, common
  <1>3. k \in 1 .. k /\ k - 1 \in 1 .. k /\ k - 1 < k
    BY <1>1
  <1>4. near \in times /\ before \in times /\ before < near /\ near \in Nat /\ before \in Nat
    BY <1>1, <1>2b, <1>3
  <1>5. \A v \in times : v \in Nat /\ v <= near
    <2> SUFFICES ASSUME NEW i \in 1 .. k PROVE chart[i].at \in Nat /\ chart[i].at <= near
      BY <1>2b
    <2>1. i = k \/ i < k
      BY <1>1
    <2>. QED BY <1>1, <1>3, <2>1 DEF near
  <1>6. Later(near) = {}
    <2>1. \A v \in times : ~(v > near)
      BY <1>4, <1>5
    <2>. QED BY <2>1
  <1>7. Later(before) = {near}
    <2>1. \A v \in times : v > before => v = near
      <3> SUFFICES ASSUME NEW i \in 1 .. k, chart[i].at > before PROVE chart[i].at = near
        BY <1>2b
      <3>1. i = k \/ i = k - 1 \/ i < k - 1
        BY <1>1
      <3>2. i < k - 1 => chart[i].at < before
        BY <1>1, <1>3
      <3>3. chart[i].at \in Nat
        BY <1>1
      <3>. QED BY <1>4, <3>1, <3>2, <3>3
    <2>. QED BY <1>4, <2>1
  <1>8. IsFiniteSet(times)
    <2> DEFINE f == [i \in 1 .. k |-> chart[i].at]
    <2>1. times = {f[i] : i \in 1 .. k}
      BY <1>2b
    <2>2. IsFiniteSet(1 .. k)
      <3>1. k \in Nat
        BY <1>1
      <3>. QED BY ONLY <3>1, FiniteUpTo
    <2> HIDE DEF f, times
    <2>. QED BY <2>1, <2>2, FiniteValues
  <1>9. near \in common /\ before \in common
    <2>1. Cardinality({}) = 0 /\ Cardinality({near}) = 1
      BY FS_EmptySet, FS_Singleton
    <2>. QED BY <1>2, <1>2c, <1>4, <1>6, <1>7, <2>1
  <1>10. common \subseteq times
    BY <1>2c
  <1> HIDE DEF near, before
  <1>11. Cardinality(common) \in Nat /\ Cardinality(common) >= 2
    <2>1. IsFiniteSet(common)
      BY <1>8, <1>10, FS_Subset
    <2>2. {near, before} \subseteq common
      BY <1>9
    <2>3. IsFiniteSet({near, before}) /\ Cardinality({near, before}) <= Cardinality(common)
      BY <2>1, <2>2, FS_Subset
    <2>4. Cardinality({near, before}) = 2
      <3>1. near # before
        BY <1>4
      <3>. QED BY <3>1, PairHasTwo
    <2>5. Cardinality(common) \in Nat
      BY <2>1, FS_CardinalityType
    <2>. QED BY <2>3, <2>4, <2>5
  <1>12. first \in common /\ last \in common
    <2>1. common \in SUBSET Nat /\ common # {}
      BY <1>5, <1>9, <1>10
    <2>2. \E u \in common : \A v \in common : u <= v
      BY <2>1, LeastNatural
    <2>3. \E u \in common : \A v \in common : v <= u
      BY <1>5, <1>9, <1>10
    <2>. QED BY <2>2, <2>3
  <1> HIDE DEF first, last
  <1>13. \A u \in times : CloseAt(chart, u) \in Nat
    <2> SUFFICES ASSUME NEW u \in times PROVE CloseAt(chart, u) \in Nat
      OBVIOUS
    <2>1. \E i \in DOMAIN chart : chart[i].at = u
      BY <1>1, <1>2b
    <2>2. (CHOOSE i \in DOMAIN chart : chart[i].at = u) \in 1 .. k
      BY <1>1, <2>1
    <2>. QED BY <1>1, <2>2 DEF CloseAt
  <1>14. Excess(q, q, common) = 0
    <2> DEFINE a == CloseAt(chart, last)
               b == CloseAt(chart, first)
    <2>1. a \in Nat /\ b \in Nat
      BY <1>10, <1>12, <1>13
    <2>2. Excess(q, q, common) = a * b - a * b
      BY DEF Excess, chart, first, last
    <2> HIDE DEF a, b
    <2>3. a * b \in Int
      BY <2>1
    <2>. QED BY <2>2, <2>3
  <1>15. ~(Cardinality(common) < 2)
    BY <1>11
  <1>. QED BY <1>2a, <1>14, <1>15 DEF RelativeTo
-----------------------------------------------------------------------------
(* The first of the selected elements.                                      *)
LEMMA FirstSelected ==
    ASSUME NEW n \in Nat, NEW s, NEW I, I \subseteq 1 .. n
    PROVE  /\ I = {} => At(s, I) = <<>>
           /\ I # {} => \E m \in I : /\ At(s, I) # <<>> /\ At(s, I)[1] = s[m]
                                     /\ \A j \in I : m <= j
  <1> DEFINE c == Cardinality(I)
             e == Enumerate(I, Upward(I))
             t == At(s, I)
  <1>1. IsFiniteSet(1 .. n)
    BY FS_Interval
  <1>2. IsFiniteSet(I)
    BY <1>1, FS_Subset
  <1>3. Indexes(I)
    BY <1>2 DEF Indexes
  <1>4. Climbs(e, c, I) /\ t = [k \in 1 .. c |-> s[e[k]]]
    BY <1>3, UpwardIs
  <1>5. c \in Nat /\ (I = {} => c = 0) /\ (I # {} => c # 0)
    BY <1>2, FS_EmptySet, FS_CardinalityType
  <1>5a. \A x \in I : x \in Nat
    OBVIOUS
  <1> HIDE DEF c, e, t
  <1>6. ASSUME I = {} PROVE t = <<>>
    BY <1>4, <1>5, <1>6
  <1>7. ASSUME I # {}
        PROVE  \E m \in I : t # <<>> /\ t[1] = s[m] /\ \A j \in I : m <= j
    <2>1. 1 \in 1 .. c
      <3>1. c \in Nat /\ c # 0
        BY <1>5, <1>7
      <3>. QED BY ONLY <3>1
    <2>2. e[1] \in I /\ t[1] = s[e[1]] /\ DOMAIN t # {}
      BY <1>4, <2>1 DEF Climbs
    <2>3. \A j \in I : e[1] <= j
      <3> SUFFICES ASSUME NEW j \in I PROVE e[1] <= j
        OBVIOUS
      <3>1. PICK k \in 1 .. c : e[k] = j
        BY <1>4 DEF Climbs
      <3>2. k = 1 \/ 1 < k
        BY <1>5
      <3>3. 1 < k => e[1] < e[k]
        BY <1>4, <2>1 DEF Climbs
      <3>4. e[1] \in Nat /\ j \in Nat
        BY <1>5a, <2>2
      <3>. QED BY <3>1, <3>2, <3>3, <3>4
    <2>4. t # <<>>
      BY <2>2
    <2>. QED BY <2>2, <2>3, <2>4
  <1>. QED BY <1>6, <1>7 DEF t

(* The row of the benchmark is the one of its place in the watchlist.       *)
Acquires(w, acquired) ==
    /\ w \in Seq(Symbols) /\ IsInjective(w) /\ DOMAIN acquired = DOMAIN w
    /\ \A i \in DOMAIN w : acquired[i].symbol = w[i]

LEMMA BenchmarkIs ==
    ASSUME NEW w, NEW acquired, Acquires(w, acquired), NEW k \in DOMAIN w, w[k] = Benchmark
    PROVE  LET benchmark == Select(acquired, LAMBDA r : r.symbol = Benchmark)
           IN benchmark # <<>> /\ benchmark[1] = acquired[k]
  <1> DEFINE I == {i \in DOMAIN acquired : acquired[i].symbol = Benchmark}
  <1>1. /\ w \in Seq(Symbols) /\ DOMAIN acquired = DOMAIN w /\ DOMAIN w = 1 .. Len(w) /\ Len(w) \in Nat
        /\ \A i \in DOMAIN w : acquired[i].symbol = w[i]
    BY DEF Acquires
  <1>2. I = {k}
    <2>1. \A i \in DOMAIN w : w[i] = w[k] => i = k
      BY DEF Acquires, IsInjective
    <2>. QED BY <1>1, <2>1
  <1>3. Select(acquired, LAMBDA r : r.symbol = Benchmark) = At(acquired, I)
    BY DEF Select
  <1>4. I \subseteq 1 .. Len(w) /\ I # {}
    BY <1>1, <1>2
  <1> HIDE DEF I
  <1>5. \E m \in I : At(acquired, I) # <<>> /\ At(acquired, I)[1] = acquired[m]
    <2> DEFINE n == Len(w)
    <2>1. n \in Nat /\ I \subseteq 1 .. n
      BY <1>1, <1>4
    <2> HIDE DEF n
    <2>. QED BY ONLY <1>4, <2>1, FirstSelected
  <1>. QED BY <1>2, <1>3, <1>5

-----------------------------------------------------------------------------
(* Rows with different symbols have different keys.                         *)
Sortable(r, w) ==
    /\ r.market \in AlignmentNames /\ r.relative \in AlignmentNames
    /\ r.grade \in GradeNames /\ r.score \in Int
    /\ \E i \in DOMAIN w : w[i] = r.symbol

LEMMA PlaceIs ==
    ASSUME NEW n \in Nat, NEW s, DOMAIN s = 1 .. n, NEW x, \E i \in DOMAIN s : s[i] = x
    PROVE  PlaceIn(s, x) \in 1 .. n /\ PlaceIn(s, x) \in Int /\ s[PlaceIn(s, x)] = x
  BY DEF PlaceIn

LEMMA KeyIs ==
    ASSUME NEW w \in Seq(Symbols), NEW r, Sortable(r, w)
    PROVE  SortKey(r, w) \in [1 .. 6 -> Int] /\ w[SortKey(r, w)[6]] = r.symbol
  <1>1. PlaceIn(Alignments, r.market) \in Int /\ PlaceIn(Alignments, r.relative) \in Int
    <2>1. /\ \E i \in DOMAIN Alignments : Alignments[i] = r.market
          /\ \E i \in DOMAIN Alignments : Alignments[i] = r.relative
      <3>1. /\ 1 \in DOMAIN Alignments /\ 2 \in DOMAIN Alignments
            /\ 3 \in DOMAIN Alignments /\ 4 \in DOMAIN Alignments
            /\ Alignments[1] = "SUPPORTS" /\ Alignments[2] = "NEUTRAL"
            /\ Alignments[3] = "UNAVAILABLE" /\ Alignments[4] = "CONTRADICTS"
        BY DEF Alignments
      <3>. QED BY <3>1 DEF Sortable, AlignmentNames
    <2>2. DOMAIN Alignments = 1 .. 4
      BY DEF Alignments
    <2>. QED BY <2>1, <2>2, PlaceIs
  <1>2. PlaceIn(Grades, r.grade) \in Int
    <2>1. \E i \in DOMAIN Grades : Grades[i] = r.grade
      <3>1. /\ 1 \in DOMAIN Grades /\ 2 \in DOMAIN Grades
            /\ 3 \in DOMAIN Grades /\ 4 \in DOMAIN Grades
            /\ Grades[1] = "PROMISING" /\ Grades[2] = "WEAK"
            /\ Grades[3] = "INSUFFICIENT" /\ Grades[4] = "NOT_APPLICABLE"
        BY DEF Grades
      <3>. QED BY <3>1 DEF Sortable, GradeNames
    <2>2. DOMAIN Grades = 1 .. 4
      BY DEF Grades
    <2>. QED BY <2>1, <2>2, PlaceIs
  <1>3. PlaceIn(w, r.symbol) \in Int /\ w[PlaceIn(w, r.symbol)] = r.symbol
    <2>1. Len(w) \in Nat /\ DOMAIN w = 1 .. Len(w)
      OBVIOUS
    <2>2. \E i \in DOMAIN w : w[i] = r.symbol
      BY DEF Sortable
    <2>. QED BY <2>1, <2>2, PlaceIs
  <1> DEFINE a == IF r.action = "REVIEW" THEN 0 ELSE 1
             b == PlaceIn(Alignments, r.market)
             c == PlaceIn(Alignments, r.relative)
             d == PlaceIn(Grades, r.grade)
             e == -r.score
             f == PlaceIn(w, r.symbol)
  <1>4. a \in Int /\ e \in Int
    BY DEF Sortable
  <1>5. SortKey(r, w) = <<a, b, c, d, e, f>>
    BY DEF SortKey
  <1> HIDE DEF a, b, c, d, e, f
  <1>6. a \in Int /\ b \in Int /\ c \in Int /\ d \in Int /\ e \in Int /\ f \in Int
    BY <1>1, <1>2, <1>3, <1>4 DEF b, c, d, f
  <1>7. <<a, b, c, d, e, f>> \in [1 .. 6 -> Int] /\ <<a, b, c, d, e, f>>[6] = f
    BY <1>6
  <1>. QED BY <1>3, <1>5, <1>7 DEF f

LEMMA ReportOrdered ==
    ASSUME NEW w \in Seq(Symbols), NEW J, IsFiniteSet(J), \A r \in J : Sortable(r, w),
           \A q, r \in J : q.symbol = r.symbol => q = r
    PROVE  InReportOrder(J, w) \in Seq(J)
  <1> DEFINE R == {p \in J \X J : KeyBefore(SortKey(p[1], w), SortKey(p[2], w))}
             key == [r \in J |-> SortKey(r, w)]
  <1>1. InReportOrder(J, w) = Enumerate(J, R)
    BY DEF InReportOrder, Sorted
  <1>2. \A r \in J : key[r] \in [1 .. 6 -> Int]
    BY KeyIs
  <1>3. \A q, r \in J : key[q] = key[r] => q = r
    <2> SUFFICES ASSUME NEW q \in J, NEW r \in J, key[q] = key[r] PROVE q = r
      OBVIOUS
    <2>1. w[key[q][6]] = q.symbol /\ w[key[r][6]] = r.symbol
      BY KeyIs
    <2>. QED BY <2>1
  <1>4. \A q, r \in J : <<q, r>> \in R <=> KeyBefore(key[q], key[r])
    OBVIOUS
  <1> HIDE DEF R, key
  <1>5. \A q, r, s \in J :
            /\ ~KeyBefore(key[q], key[q])
            /\ KeyBefore(key[q], key[r]) /\ KeyBefore(key[r], key[s]) => KeyBefore(key[q], key[s])
            /\ key[q] = key[r] \/ KeyBefore(key[q], key[r]) \/ KeyBefore(key[r], key[q])
    <2> SUFFICES ASSUME NEW q \in J, NEW r \in J, NEW s \in J
                 PROVE  /\ ~KeyBefore(key[q], key[q])
                        /\ KeyBefore(key[q], key[r]) /\ KeyBefore(key[r], key[s]) => KeyBefore(key[q], key[s])
                        /\ key[q] = key[r] \/ KeyBefore(key[q], key[r]) \/ KeyBefore(key[r], key[q])
      OBVIOUS
    <2>1. key[q] \in [1 .. 6 -> Int]
      BY <1>2
    <2>2. key[r] \in [1 .. 6 -> Int]
      BY <1>2
    <2>3. key[s] \in [1 .. 6 -> Int]
      BY <1>2
    <2>4. 6 \in Nat /\ Int \subseteq Int
      OBVIOUS
    <2>. QED BY ONLY <2>1, <2>2, <2>3, <2>4, KeysInOrder
  <1>6. StrictOrder(J, R)
    <2>1. \A q, r \in J : q = r \/ <<q, r>> \in R \/ <<r, q>> \in R
      BY <1>3, <1>4, <1>5
    <2>. QED BY <1>4, <1>5, <2>1 DEF StrictOrder
  <1>7. Enumerate(J, R) \in Seq(J)
    BY <1>6, Enumerated
  <1>. QED BY <1>1, <1>7

-----------------------------------------------------------------------------
(* The ranks of the rows go up along the report.                            *)
LEMMA RankedIs ==
    ASSUME NEW S, NEW s \in Seq(S), \A r \in S : DOMAIN r = RowFields
    PROVE  LET t == Ranked(s) IN
           /\ DOMAIN t = DOMAIN s
           /\ \A i \in DOMAIN s : /\ SameResearch(t[i], s[i]) /\ t[i].market = s[i].market
                                  /\ t[i].relative = s[i].relative
                                  /\ t[i].readiness = s[i].readiness
                                  /\ Rankable(s[i]) => t[i].rank \in Nat \ {0}
           /\ \A i, j \in DOMAIN s : i <= j /\ Rankable(s[i]) /\ Rankable(s[j]) =>
                    t[i].rank <= t[j].rank
  <1> DEFINE t == Ranked(s)
             upTo(i) == {j \in 1 .. i : Rankable(s[j])}
             rank == [i \in DOMAIN s |-> IF Rankable(s[i]) THEN Cardinality(upTo(i)) ELSE 0]
  <1>1. t = [i \in DOMAIN s |-> [s[i] EXCEPT !.rank = rank[i]]]
    BY DEF Ranked
  <1>2. \A i \in DOMAIN s : i \in Nat /\ DOMAIN s[i] = RowFields
    OBVIOUS
  <1>3. \A i \in DOMAIN s : IsFiniteSet(upTo(i)) /\ Cardinality(upTo(i)) \in Nat
    <2> SUFFICES ASSUME NEW i \in DOMAIN s
                 PROVE  IsFiniteSet(upTo(i)) /\ Cardinality(upTo(i)) \in Nat
      OBVIOUS
    <2>1. IsFiniteSet(1 .. i)
      <3>1. i \in Nat
        BY <1>2
      <3>. QED BY ONLY <3>1, FiniteUpTo
    <2>2. upTo(i) \subseteq 1 .. i
      OBVIOUS
    <2> HIDE DEF upTo
    <2>3. IsFiniteSet(upTo(i))
      BY <2>1, <2>2, FS_Subset
    <2>. QED BY <2>3, FS_CardinalityType
  <1>4. \A i \in DOMAIN s : Rankable(s[i]) => rank[i] \in Nat \ {0}
    <2> SUFFICES ASSUME NEW i \in DOMAIN s, Rankable(s[i]) PROVE rank[i] \in Nat \ {0}
      OBVIOUS
    <2>1. i \in upTo(i)
      BY <1>2
    <2>2. rank[i] = Cardinality(upTo(i))
      OBVIOUS
    <2> HIDE DEF upTo, rank
    <2>3. Cardinality(upTo(i)) # 0
      BY <1>3, <2>1, FS_EmptySet
    <2>. QED BY <1>3, <2>2, <2>3
  <1>5. ASSUME NEW i \in DOMAIN s, NEW j \in DOMAIN s, i <= j, Rankable(s[i]), Rankable(s[j])
        PROVE  rank[i] <= rank[j]
    <2>1. upTo(i) \subseteq upTo(j)
      BY <1>2, <1>5
    <2>2. rank[i] = Cardinality(upTo(i)) /\ rank[j] = Cardinality(upTo(j))
      BY <1>5
    <2> HIDE DEF upTo, rank
    <2>3. Cardinality(upTo(i)) <= Cardinality(upTo(j))
      BY <1>3, <2>1, FS_Subset
    <2>. QED BY <2>2, <2>3
  <1> HIDE DEF t, rank
  <1>6. ASSUME NEW i \in DOMAIN s
        PROVE  /\ SameResearch(t[i], s[i]) /\ t[i].market = s[i].market
               /\ t[i].relative = s[i].relative
               /\ t[i].readiness = s[i].readiness /\ t[i].rank = rank[i]
    <2> DEFINE q == s[i]
    <2>1. t[i] = [q EXCEPT !.rank = rank[i]]
      BY <1>1
    <2>2. DOMAIN q = RowFields
      BY <1>2
    <2> HIDE DEF q
    <2>3. "rank" \in RowFields /\ \A f \in ResearchFields \cup {"market", "relative", "readiness"} :
                f \in RowFields /\ f # "rank"
      BY DEF RowFields, ResearchFields
    <2>4. DOMAIN t[i] = RowFields /\ t[i].rank = rank[i]
          /\ \A f \in ResearchFields \cup {"market", "relative", "readiness"} : t[i][f] = q[f]
      BY <2>1, <2>2, <2>3
    <2>. QED BY <2>4 DEF SameResearch, q
  <1>7. DOMAIN t = DOMAIN s
    BY <1>1
  <1>. QED BY <1>4, <1>5, <1>6, <1>7 DEF t

-----------------------------------------------------------------------------
(* What holds of a row once it is judged, whatever its rank.                *)
JudgedRow(r, w, m, t) ==
    /\ DOMAIN r = RowFields
    /\ r.market \in AlignmentNames /\ r.relative \in AlignmentNames
    /\ \E k \in DOMAIN w : w[k] = r.symbol
    /\ Researched(r, r.symbol, m[r.symbol], t)
    /\ r.readiness = "READY_FOR_RISK_CHECK" =>
        /\ Fresh(r) /\ r.setup # "none" /\ r.grade = "PROMISING" /\ r.market # "CONTRADICTS"
        /\ \A k \in DOMAIN w : w[k] = Benchmark => ~MovesAgainst(m[Benchmark], r.setup)
    /\ r.setup # "none" /\ r.symbol = Benchmark => r.market = "SUPPORTS" /\ r.relative = "NEUTRAL"

MarketHolds(m, t) == t \in Nat /\ \A s \in Symbols : SeriesUpTo(m[s], t)
Acquired(w, acquired, m, t) ==
    /\ Acquires(w, acquired)
    /\ \A i \in DOMAIN w : Researched(acquired[i], w[i], m[w[i]], t)

LEMMA RowJudged ==
    ASSUME ResearchAssumption, ScanAssumption, NEW m, NEW t, MarketHolds(m, t),
           NEW w, NEW acquired, Acquired(w, acquired, m, t), NEW i \in DOMAIN w
    PROVE  JudgedRow(Judge(acquired[i], Select(acquired, LAMBDA r : r.symbol = Benchmark)), w, m, t)
  <1> DEFINE benchmark == Select(acquired, LAMBDA r : r.symbol = Benchmark)
             q == acquired[i]
             r == Judge(q, benchmark)
             series == m[w[i]]
  <1>1. Researched(q, w[i], series, t) /\ Acquires(w, acquired)
    BY DEF Acquired
  <1>2. DOMAIN q = RowFields /\ q.symbol = w[i] /\ q.setup \in SetupNames
    BY <1>1 DEF Researched
  <1>3. \A k \in DOMAIN w : w[k] = Benchmark =>
            benchmark # <<>> /\ benchmark[1] = acquired[k]
    BY <1>1, BenchmarkIs
  <1> HIDE DEF benchmark, q, r
  <1>4. /\ SameResearch(r, q)
        /\ r.market = MarketAlignment(q, benchmark) /\ r.market \in AlignmentNames
        /\ r.relative = RelativeAlignment(q, benchmark) /\ r.relative \in AlignmentNames
        /\ r.readiness = "READY_FOR_RISK_CHECK" =>
             /\ Fresh(q) /\ q.setup # "none" /\ q.grade = "PROMISING" /\ r.market # "CONTRADICTS"
    BY <1>2, JudgementIs DEF r
  <1>5. /\ DOMAIN r = RowFields /\ r.symbol = q.symbol /\ r.setup = q.setup /\ r.grade = q.grade
        /\ r.latestAt = q.latestAt /\ r.observedAt = q.observedAt
    BY <1>4 DEF SameResearch, ResearchFields
  <1>6. Researched(r, w[i], series, t)
    BY <1>1, <1>4, StillResearched
  <1>7. ASSUME r.readiness = "READY_FOR_RISK_CHECK"
        PROVE  /\ Fresh(r) /\ r.setup # "none" /\ r.grade = "PROMISING" /\ r.market # "CONTRADICTS"
               /\ \A k \in DOMAIN w : w[k] = Benchmark => ~MovesAgainst(m[Benchmark], r.setup)
    <2>1. Fresh(q) /\ q.setup # "none" /\ q.grade = "PROMISING" /\ r.market # "CONTRADICTS"
      BY <1>4, <1>7
    <2>2. Fresh(r)
      BY <1>5, <2>1 DEF Fresh
    <2>3. q.setup \in Keys
      BY <1>2, <2>1 DEF SetupNames, Keys
    <2>4. ASSUME NEW k \in DOMAIN w, w[k] = Benchmark, MovesAgainst(m[Benchmark], q.setup)
          PROVE  FALSE
      <3>1. Researched(acquired[k], w[k], m[w[k]], t)
        BY DEF Acquired
      <3>2. acquired[k].trend = IF q.setup = "upside" THEN "DOWNWARD" ELSE "UPWARD"
        BY <2>3, <2>4, <3>1 DEF Researched
      <3>3. benchmark # <<>> /\ benchmark[1].trend = IF q.setup = "upside" THEN "DOWNWARD" ELSE "UPWARD"
        BY <1>3, <2>4, <3>2
      <3>4. MarketAlignment(q, benchmark) = "CONTRADICTS"
        BY <2>3, <3>3, MarketAgainst
      <3>. QED BY <1>4, <2>1, <3>4
    <2>. QED BY <1>5, <2>1, <2>2, <2>4
  <1>8. ASSUME r.setup # "none", r.symbol = Benchmark
        PROVE  r.market = "SUPPORTS" /\ r.relative = "NEUTRAL"
    <2>1. q.setup \in Keys /\ w[i] = Benchmark
      BY <1>2, <1>5, <1>8 DEF SetupNames, Keys
    <2>2. benchmark # <<>> /\ benchmark[1] = q
      BY <1>3, <2>1 DEF q
    <2>3. q.trend = TrendOf(q.setup) /\ BrokeOut(series, q.setup) /\ q.chart = Chart(series)
      BY <1>1, <1>5, <1>8 DEF Researched
    <2>4. r.market = "SUPPORTS"
      BY <1>4, <2>1, <2>2, <2>3, MarketSupports
    <2>5. SeriesUpTo(series, t)
      <3>1. w[i] \in Symbols
        BY <1>1 DEF Acquires
      <3>. QED BY <3>1 DEF MarketHolds
    <2>6. Len(series) >= 2
      <3>1. Period["high"] \in Nat \ {0}
        BY PeriodsAre DEF OnePeriod
      <3>2. Len(series) \in Nat
        BY <2>5 DEF SeriesUpTo
      <3>3. Len(series) > Period["high"]
        BY <2>3 DEF BrokeOut
      <3>. QED BY <3>1, <3>2, <3>3
    <2>7. RelativeTo(q, q) = "NEUTRAL"
      <3> HIDE DEF series
      <3>. QED BY <2>3, <2>5, <2>6, OwnStrength
    <2>8. r.relative = "NEUTRAL"
      BY <1>4, <2>2, <2>7 DEF RelativeAlignment
    <2>. QED BY <2>4, <2>8
  <1>9. /\ r.symbol = w[i] /\ series = m[r.symbol]
    BY <1>2, <1>5
  <1> HIDE DEF series
  <1>10. JudgedRow(r, w, m, t)
    BY <1>4, <1>5, <1>6, <1>7, <1>8, <1>9 DEF JudgedRow
  <1>. QED BY <1>10 DEF r, q, benchmark

LEMMA StillJudged ==
    ASSUME NEW q, NEW w, NEW m, NEW t, JudgedRow(q, w, m, t),
           NEW r, SameResearch(r, q), r.market = q.market, r.relative = q.relative,
           r.readiness = q.readiness
    PROVE  JudgedRow(r, w, m, t)
  <1>1. /\ DOMAIN r = RowFields /\ r.symbol = q.symbol /\ r.setup = q.setup /\ r.grade = q.grade
        /\ r.latestAt = q.latestAt /\ r.observedAt = q.observedAt
    BY DEF SameResearch, ResearchFields
  <1>2. Fresh(q) => Fresh(r)
    BY <1>1 DEF Fresh
  <1>3. Researched(r, r.symbol, m[r.symbol], t)
    BY <1>1, StillResearched DEF JudgedRow
  <1>. QED BY <1>1, <1>2, <1>3 DEF JudgedRow

LEMMA ReadyIsRankable ==
    ASSUME NEW r, NEW w, NEW m, NEW t, JudgedRow(r, w, m, t), r.readiness = "READY_FOR_RISK_CHECK"
    PROVE  Rankable(r)
  BY DEF JudgedRow, Researched, Rankable

LEMMA JudgedSortable ==
    ASSUME NEW r, NEW w, NEW m, NEW t, JudgedRow(r, w, m, t)
    PROVE  Sortable(r, w)
  BY DEF JudgedRow, Researched, Sortable

(* What a report says.                                                      *)
Reports(a, m, t) ==
    /\ a.kind = "report"
    /\ \E w \in Seq(Symbols) : \A i \in DOMAIN a.rows : JudgedRow(a.rows[i], w, m, t)
    /\ \A i \in DOMAIN a.rows :
        a.rows[i].readiness = "READY_FOR_RISK_CHECK" =>
            /\ a.rows[i].rank # 0
            /\ \E j \in DOMAIN a.rows :
                /\ a.rows[j].readiness = "READY_FOR_RISK_CHECK"
                /\ a.summary.lead = <<a.rows[j].symbol>>
                /\ \A k \in DOMAIN a.rows : a.rows[k].readiness = "READY_FOR_RISK_CHECK" =>
                        a.rows[j].rank <= a.rows[k].rank

LEMMA ReportIs ==
    ASSUME ResearchAssumption, ScanAssumption, NEW m, NEW t, MarketHolds(m, t),
           NEW w \in Watchlists, NEW acquired, Acquired(w, acquired, m, t)
    PROVE  Reports(ReportOf(w, acquired), m, t)
  <1> DEFINE benchmark == Select(acquired, LAMBDA r : r.symbol = Benchmark)
             J == {Judge(acquired[i], benchmark) : i \in DOMAIN acquired}
             s == InReportOrder(J, w)
             ranked == Ranked(s)
             lead == DeskSummary(ranked).lead
             a == ReportOf(w, acquired)
  <1>1. w \in Seq(Symbols) /\ IsInjective(w)
    BY DEF ScanAssumption
  <1>2. DOMAIN acquired = DOMAIN w /\ DOMAIN w = 1 .. Len(w) /\ Len(w) \in Nat
        /\ \A i \in DOMAIN w : acquired[i].symbol = w[i] /\ DOMAIN acquired[i] = RowFields
    BY <1>1 DEF Acquired, Acquires, Researched
  <1>3. \A i \in DOMAIN w : JudgedRow(Judge(acquired[i], benchmark), w, m, t)
    BY RowJudged
  <1>4. a.kind = "report" /\ a.rows = ranked /\ a.summary.lead = lead
    BY DEF ReportOf, Judge
  <1> HIDE DEF a, benchmark
  <1>5. \A i \in DOMAIN w : Judge(acquired[i], benchmark).symbol = w[i]
    <2> SUFFICES ASSUME NEW i \in DOMAIN w PROVE Judge(acquired[i], benchmark).symbol = w[i]
      OBVIOUS
    <2> DEFINE q == acquired[i]
    <2>1. DOMAIN q = RowFields /\ q.symbol = w[i]
      BY <1>2
    <2> HIDE DEF q
    <2>2. SameResearch(Judge(q, benchmark), q)
      BY <2>1, JudgementIs
    <2>. QED BY <2>1, <2>2 DEF SameResearch, ResearchFields, q
  <1>6. \A r \in J : JudgedRow(r, w, m, t) /\ DOMAIN r = RowFields /\ Sortable(r, w)
    <2>1. \A r \in J : JudgedRow(r, w, m, t)
      BY <1>2, <1>3
    <2>. QED BY <2>1, JudgedSortable DEF JudgedRow
  <1>7. \A q, r \in J : q.symbol = r.symbol => q = r
    <2> SUFFICES ASSUME NEW i \in DOMAIN w, NEW j \in DOMAIN w,
                        Judge(acquired[i], benchmark).symbol = Judge(acquired[j], benchmark).symbol
                 PROVE  Judge(acquired[i], benchmark) = Judge(acquired[j], benchmark)
      BY <1>2
    <2>1. w[i] = w[j]
      BY <1>5
    <2>2. i = j
      BY <1>1, <2>1 DEF IsInjective
    <2>. QED BY <2>2
  <1>8. IsFiniteSet(J)
    <2> DEFINE f == [i \in DOMAIN w |-> Judge(acquired[i], benchmark)]
    <2>1. J = {f[i] : i \in DOMAIN w}
      BY <1>2
    <2>2. IsFiniteSet(DOMAIN w)
      BY <1>2, FS_Interval
    <2> HIDE DEF f, J
    <2>. QED BY <2>1, <2>2, FiniteValues
  <1> HIDE DEF J
  <1>9. s \in Seq(J)
    BY <1>1, <1>6, <1>7, <1>8, ReportOrdered
  <1> HIDE DEF s
  <1>10. /\ DOMAIN ranked = DOMAIN s
         /\ \A i \in DOMAIN s : /\ SameResearch(ranked[i], s[i]) /\ ranked[i].market = s[i].market
                                /\ ranked[i].relative = s[i].relative
                                /\ ranked[i].readiness = s[i].readiness
                                /\ Rankable(s[i]) => ranked[i].rank \in Nat \ {0}
         /\ \A i, j \in DOMAIN s : i <= j /\ Rankable(s[i]) /\ Rankable(s[j]) =>
                    ranked[i].rank <= ranked[j].rank
    BY <1>6, <1>9, RankedIs
  <1>11. Len(s) \in Nat /\ DOMAIN s = 1 .. Len(s) /\ \A i \in DOMAIN s : s[i] \in J
    BY <1>9
  <1> DEFINE I == {i \in DOMAIN ranked : ranked[i].readiness = "READY_FOR_RISK_CHECK"}
  <1>12. I # {} => /\ At(ranked, I) # <<>>
                   /\ lead = <<At(ranked, I)[1].symbol>>
    <2> DEFINE ready == WithReadinessOf(ranked, "READY_FOR_RISK_CHECK")
    <2>1. ready = At(ranked, I)
      BY DEF WithReadinessOf, Select
    <2>2. lead = IF ready # <<>> THEN <<Head(ready).symbol>> ELSE <<>>
      BY DEF DeskSummary
    <2>3. I # {} => At(ranked, I) # <<>>
      <3> DEFINE n == Len(s)
      <3>1. n \in Nat /\ I \subseteq 1 .. n
        BY <1>10, <1>11
      <3> HIDE DEF n, I
      <3>. QED BY ONLY <3>1, FirstSelected
    <2> HIDE DEF ready, lead, I
    <2>4. Head(ready) = ready[1]
      OBVIOUS
    <2>. QED BY <2>1, <2>2, <2>3, <2>4
  <1> HIDE DEF ranked, lead
  <1>13. \A i \in DOMAIN ranked : JudgedRow(ranked[i], w, m, t)
    <2> SUFFICES ASSUME NEW i \in DOMAIN ranked PROVE JudgedRow(ranked[i], w, m, t)
      OBVIOUS
    <2>1. JudgedRow(s[i], w, m, t)
      BY <1>6, <1>10, <1>11
    <2> DEFINE q == s[i]
               r == ranked[i]
    <2>2. SameResearch(r, q) /\ r.market = q.market /\ r.relative = q.relative
          /\ r.readiness = q.readiness
      BY <1>10
    <2> HIDE DEF q, r
    <2>3. JudgedRow(r, w, m, t)
      <3>1. JudgedRow(q, w, m, t)
        BY <2>1 DEF q
      <3>. QED BY ONLY <2>2, <3>1, StillJudged
    <2>. QED BY <2>3 DEF r
  <1>14. \A i \in I : i \in DOMAIN s /\ Rankable(s[i])
    <2> SUFFICES ASSUME NEW i \in I PROVE i \in DOMAIN s /\ Rankable(s[i])
      OBVIOUS
    <2>1. i \in DOMAIN s /\ s[i].readiness = "READY_FOR_RISK_CHECK"
      BY <1>10
    <2>2. JudgedRow(s[i], w, m, t)
      BY <1>6, <1>11, <2>1
    <2>. QED BY <2>1, <2>2, ReadyIsRankable
  <1>15. ASSUME I # {}
         PROVE  \E j \in I : /\ lead = <<ranked[j].symbol>>
                             /\ \A k \in I : ranked[j].rank <= ranked[k].rank
    <2>1. \E j \in I : At(ranked, I)[1] = ranked[j] /\ \A k \in I : j <= k
      <3> DEFINE n == Len(s)
      <3>1. n \in Nat /\ I \subseteq 1 .. n
        BY <1>10, <1>11
      <3> HIDE DEF n, I
      <3>. QED BY ONLY <1>15, <3>1, FirstSelected
    <2>2. PICK j \in I : At(ranked, I)[1] = ranked[j] /\ \A k \in I : j <= k
      BY <2>1
    <2>3. lead = <<ranked[j].symbol>>
      BY <1>12, <1>15, <2>2
    <2>4. \A k \in I : ranked[j].rank <= ranked[k].rank
      BY <1>10, <1>14, <2>2
    <2>. QED BY <2>3, <2>4
  <1>16. \A i \in I : ranked[i].rank # 0
    BY <1>10, <1>14
  <1>17. Reports(a, m, t)
    BY <1>1, <1>4, <1>13, <1>15, <1>16 DEF Reports
  <1>. QED BY <1>17 DEF a

-----------------------------------------------------------------------------
(* What an import says: its row is never ready, and is about the bars.      *)
Imports(a, m, t) ==
    /\ a.kind = "import" /\ DOMAIN a.rows = {1}
    /\ a.rows[1].readiness # "READY_FOR_RISK_CHECK"
    /\ Researched(a.rows[1], a.rows[1].symbol, m[a.rows[1].symbol], t)
    /\ a.rows[1].symbol \in Symbols

LEMMA ImportedIs ==
    ASSUME NEW q, NEW symbol, NEW series, NEW t, Researched(q, symbol, series, t)
    PROVE  /\ Imported(q).readiness # "READY_FOR_RISK_CHECK" /\ Imported(q).symbol = symbol
           /\ Researched(Imported(q), symbol, series, t)
  <1> DEFINE a == WithReadiness(q)
             r == Imported(q)
             ready == Readiness(q)
             checks == Checks(q)
             last == IF a.readiness = "READY_FOR_RISK_CHECK" THEN "CAUTION" ELSE a.readiness
  <1>1. DOMAIN q = RowFields /\ q.symbol = symbol
    BY DEF Researched
  <1>2. a = [q EXCEPT !.readiness = ready, !.checks = checks]
    BY DEF WithReadiness
  <1>3. r = [a EXCEPT !.hasId = FALSE, !.market = "UNAVAILABLE", !.relative = "UNAVAILABLE",
                      !.readiness = last]
    BY DEF Imported
  <1>4. last # "READY_FOR_RISK_CHECK"
    OBVIOUS
  <1> HIDE DEF a, r, ready, checks, last
  <1>5. DOMAIN a = RowFields /\ \A f \in ResearchFields : a[f] = q[f]
    BY <1>1, <1>2 DEF RowFields, ResearchFields
  <1>6. DOMAIN r = RowFields /\ r.readiness = last /\ \A f \in ResearchFields : r[f] = a[f]
    BY <1>3, <1>5 DEF RowFields, ResearchFields
  <1>7. SameResearch(r, q)
    BY <1>5, <1>6 DEF SameResearch
  <1>8. Researched(r, symbol, series, t)
    BY <1>7, StillResearched
  <1>9. r.symbol = symbol
    BY <1>8 DEF Researched
  <1>. QED BY <1>4, <1>6, <1>8, <1>9 DEF r

-----------------------------------------------------------------------------
(* The invariant: the bars of every symbol are in order up to the latest    *)
(* time, and an answer holds of them.                                       *)
AnswerHolds ==
    answer = NoAnswer \/ Reports(answer, market, barTime) \/ Imports(answer, market, barTime)
ReportInv ==
    /\ ResearchAssumption /\ ScanAssumption
    /\ MarketHolds(market, barTime)
    /\ AnswerHolds

(* A bar at the next time keeps the bars in order.                          *)
LEMMA BarsInOrder ==
    ASSUME NEW t \in Nat, NEW series, SeriesUpTo(series, t)
    PROVE  /\ SeriesUpTo(series, t + 1)
           /\ \A c \in Nat \ {0} : SeriesUpTo(Append(series, [at |-> t + 1, close |-> c]), t + 1)
  <1> DEFINE n == Len(series)
  <1>1. /\ series \in Seq(QuoteType) /\ n \in Nat /\ DOMAIN series = 1 .. n
        /\ \A i \in 1 .. n : series[i].at <= t
        /\ \A i, j \in 1 .. n : i < j => series[i].at < series[j].at
    BY DEF SeriesUpTo
  <1>2. \A i \in 1 .. n : series[i].at \in Nat
    BY <1>1, HistoryIs
  <1>3. SeriesUpTo(series, t + 1)
    BY <1>1, <1>2 DEF SeriesUpTo
  <1>4. ASSUME NEW c \in Nat \ {0}
        PROVE  SeriesUpTo(Append(series, [at |-> t + 1, close |-> c]), t + 1)
    <2> DEFINE x == [at |-> t + 1, close |-> c]
               s == Append(series, x)
    <2>1. x \in QuoteType /\ x.at = t + 1
      BY DEF QuoteType
    <2> HIDE DEF x, n
    <2>2. /\ s \in Seq(QuoteType) /\ DOMAIN s = 1 .. n + 1
          /\ s[n + 1] = x /\ \A i \in 1 .. n : s[i] = series[i]
      BY <1>1, <2>1 DEF n
    <2> HIDE DEF s
    <2>3. \A i \in 1 .. n + 1 : i = n + 1 \/ i \in 1 .. n
      BY <1>1
    <2>4. \A i \in 1 .. n + 1 : s[i].at \in Nat /\ s[i].at <= t + 1
      BY <1>1, <1>2, <2>1, <2>2, <2>3
    <2>5. ASSUME NEW i \in 1 .. n + 1, NEW j \in 1 .. n + 1, i < j
          PROVE  s[i].at < s[j].at
      <3>1. i \in 1 .. n
        BY <1>1, <2>5
      <3>2. CASE j = n + 1
        BY <1>1, <1>2, <2>1, <2>2, <3>1, <3>2
      <3>3. CASE j \in 1 .. n
        BY <1>1, <2>2, <2>5, <3>1, <3>3
      <3>. QED BY <2>3, <3>2, <3>3
    <2>6. SeriesUpTo(s, t + 1)
      BY <2>2, <2>4, <2>5 DEF SeriesUpTo
    <2>. QED BY <2>6 DEF s, x
  <1>. QED BY <1>3, <1>4

LEMMA ReportStarts ==
    ASSUME ResearchAssumption, ScanAssumption, ReportInit
    PROVE  ReportInv
  <1>1. \A s \in Symbols : market[s] = <<>>
    BY DEF ReportInit
  <1>2. SeriesUpTo(<<>>, 0)
    BY DEF SeriesUpTo
  <1>3. MarketHolds(market, barTime)
    BY <1>1, <1>2 DEF MarketHolds, ReportInit
  <1>. QED BY <1>3 DEF ReportInv, AnswerHolds, ReportInit

LEMMA CompleteKeeps ==
    ASSUME ReportInv, Complete
    PROVE  ReportInv'
  <1>1. answer = NoAnswer /\ answer' = answer /\ barTime \in Nat /\ barTime' = barTime + 1
    BY DEF Complete, ReportInv, MarketHolds
  <1>2. PICK quote \in [Symbols -> UNION {Quotes[s] : s \in Symbols}] :
            /\ \A s \in Symbols : quote[s] \in Quotes[s]
            /\ market' = [s \in Symbols |->
                            IF quote[s] = 0 THEN market[s]
                            ELSE Append(market[s], [at |-> barTime + 1, close |-> quote[s]])]
    BY DEF Complete
  <1>3. \A s \in Symbols : quote[s] \in Nat
    BY <1>2 DEF ReportInv, ScanAssumption
  <1>4. ASSUME NEW s \in Symbols PROVE SeriesUpTo(market'[s], barTime')
    <2> DEFINE series == market[s]
               t == barTime
               c == quote[s]
    <2>1. SeriesUpTo(series, t) /\ t \in Nat
      BY <1>1 DEF ReportInv, MarketHolds
    <2>2. c \in Nat /\ market'[s] = IF c = 0 THEN series
                                    ELSE Append(series, [at |-> t + 1, close |-> c])
      BY <1>2, <1>3
    <2> HIDE DEF series, t, c
    <2>3. /\ SeriesUpTo(series, t + 1)
          /\ \A x \in Nat \ {0} : SeriesUpTo(Append(series, [at |-> t + 1, close |-> x]), t + 1)
      BY ONLY <2>1, BarsInOrder
    <2>4. SeriesUpTo(market'[s], t + 1)
      BY <2>2, <2>3
    <2>. QED BY <1>1, <2>4 DEF t
  <1>5. MarketHolds(market', barTime')
    BY <1>1, <1>4 DEF MarketHolds
  <1>6. AnswerHolds'
    BY <1>1 DEF AnswerHolds
  <1>. QED BY <1>5, <1>6 DEF ReportInv

(* The rows that a scan or an import acquires.                              *)
LEMMA AcquiredIs ==
    ASSUME ResearchAssumption, ScanAssumption, NEW m, NEW t, MarketHolds(m, t),
           NEW symbol \in Symbols, NEW result \in Scores
    PROVE  Researched(Graded(ResearchRow(symbol, m[symbol], t), result), symbol, m[symbol], t)
  <1> DEFINE series == m[symbol]
             q == ResearchRow(symbol, series, t)
  <1>1. series \in Seq(QuoteType)
    BY DEF MarketHolds, SeriesUpTo
  <1> HIDE DEF series
  <1>2. Researched(q, symbol, series, t)
    BY <1>1, RowIs
  <1> HIDE DEF q
  <1>3. Researched(Graded(q, result), symbol, series, t)
    BY <1>2, GradedIs
  <1>. QED BY <1>3 DEF q, series

LEMMA ScanKeeps ==
    ASSUME ReportInv, Scan
    PROVE  ReportInv'
  <1>1. ResearchAssumption /\ ScanAssumption /\ MarketHolds(market, barTime)
    BY DEF ReportInv
  <1>2. UNCHANGED <<barTime, market>>
    BY DEF Scan
  <1>3. PICK w \in Watchlists : \E heldOut \in [DOMAIN w -> Scores] :
            answer' = ReportOf(w, [i \in DOMAIN w |->
                Graded([k \in DOMAIN w |-> ResearchRow(w[k], market[w[k]], barTime)][i], heldOut[i])])
    BY DEF Scan
  <1>4. PICK heldOut \in [DOMAIN w -> Scores] :
            answer' = ReportOf(w, [i \in DOMAIN w |->
                Graded([k \in DOMAIN w |-> ResearchRow(w[k], market[w[k]], barTime)][i], heldOut[i])])
    BY <1>3
  <1> DEFINE acquired == [i \in DOMAIN w |->
                Graded(ResearchRow(w[i], market[w[i]], barTime), heldOut[i])]
  <1>5. [i \in DOMAIN w |-> Graded([k \in DOMAIN w |->
            ResearchRow(w[k], market[w[k]], barTime)][i], heldOut[i])] = acquired
    OBVIOUS
  <1>6. w \in Seq(Symbols) /\ IsInjective(w)
    BY <1>1 DEF ScanAssumption
  <1>7. \A i \in DOMAIN w : Researched(acquired[i], w[i], market[w[i]], barTime)
    <2> SUFFICES ASSUME NEW i \in DOMAIN w
                 PROVE  Researched(acquired[i], w[i], market[w[i]], barTime)
      OBVIOUS
    <2>1. w[i] \in Symbols /\ heldOut[i] \in Scores
      BY <1>6
    <2>. QED BY <1>1, <2>1, AcquiredIs
  <1>8. DOMAIN acquired = DOMAIN w
    OBVIOUS
  <1>9. answer' = ReportOf(w, acquired)
    BY <1>4, <1>5
  <1> HIDE DEF acquired
  <1>10. Acquired(w, acquired, market, barTime)
    <2>1. \A i \in DOMAIN w : acquired[i].symbol = w[i]
      BY <1>7 DEF Researched
    <2>. QED BY <1>6, <1>7, <1>8, <2>1 DEF Acquired, Acquires
  <1>11. Reports(answer', market, barTime)
    BY <1>1, <1>9, <1>10, ReportIs
  <1>12. AnswerHolds' /\ MarketHolds(market', barTime')
    BY <1>1, <1>2, <1>11 DEF AnswerHolds
  <1>. QED BY <1>1, <1>12 DEF ReportInv

LEMMA ImportKeeps ==
    ASSUME ReportInv, Import
    PROVE  ReportInv'
  <1>1. ResearchAssumption /\ ScanAssumption /\ MarketHolds(market, barTime)
    BY DEF ReportInv
  <1>2. UNCHANGED <<barTime, market>>
    BY DEF Import
  <1>3. PICK s \in Symbols : \E result \in Scores :
            answer' = [kind |-> "import",
                rows |-> <<Imported(Graded(ResearchRow(s, market[s], barTime), result))>>]
    BY DEF Import
  <1>4. PICK result \in Scores :
            answer' = [kind |-> "import",
                rows |-> <<Imported(Graded(ResearchRow(s, market[s], barTime), result))>>]
    BY <1>3
  <1> DEFINE q == Graded(ResearchRow(s, market[s], barTime), result)
             r == Imported(q)
  <1>5. Researched(q, s, market[s], barTime)
    BY <1>1, AcquiredIs
  <1>6. answer' = [kind |-> "import", rows |-> <<r>>]
    BY <1>4
  <1> HIDE DEF q
  <1>7. r.readiness # "READY_FOR_RISK_CHECK" /\ r.symbol = s
        /\ Researched(r, s, market[s], barTime)
    BY <1>5, ImportedIs
  <1> HIDE DEF r
  <1>8. answer'.kind = "import" /\ DOMAIN answer'.rows = {1} /\ answer'.rows[1] = r
    BY <1>6
  <1>9. Imports(answer', market, barTime)
    BY <1>7, <1>8 DEF Imports
  <1>10. AnswerHolds' /\ MarketHolds(market', barTime')
    BY <1>1, <1>2, <1>9 DEF AnswerHolds
  <1>. QED BY <1>1, <1>10 DEF ReportInv

-----------------------------------------------------------------------------
(* What a row says is what is asked of it.                                  *)
LEMMA FreshBars ==
    ASSUME ScanAssumption, NEW m, NEW t, MarketHolds(m, t), NEW r, r.symbol \in Symbols,
           Researched(r, r.symbol, m[r.symbol], t), Fresh(r)
    PROVE  Last(m[r.symbol]).at \in t - FreshnessLimit .. t
  <1> DEFINE series == m[r.symbol]
             at == Last(series).at
  <1>1. SeriesUpTo(series, t) /\ t \in Nat /\ FreshnessLimit \in Nat
    BY DEF MarketHolds, ScanAssumption
  <1>2. series # <<>> /\ r.latestAt = at /\ r.observedAt = t /\ t - at \in 0 .. FreshnessLimit
    BY DEF Researched, Fresh
  <1>3. at \in Nat
    <2>1. series \in Seq(QuoteType) /\ Len(series) \in 1 .. Len(series)
      BY <1>1, <1>2 DEF SeriesUpTo
    <2> HIDE DEF series
    <2>. QED BY <2>1, HistoryIs DEF Last
  <1> HIDE DEF at
  <1>4. at \in t - FreshnessLimit .. t
    BY <1>1, <1>2, <1>3
  <1>. QED BY <1>4 DEF at

LEMMA StopAsked ==
    ASSUME NEW m, NEW t, NEW r, Researched(r, r.symbol, m[r.symbol], t), r.setup # "none"
    PROVE  /\ HasStop(r.stop, r.setup, m[r.symbol], r.latestAt)
           /\ r.trend = TrendOf(r.setup) /\ BrokeOut(m[r.symbol], r.setup)
  BY DEF Researched

LEMMA ReportInvImplies ==
    ASSUME ReportInv
    PROVE  ReportsAreSound
  <1> DEFINE ranked == ReportRows
  <1>1. ScanAssumption /\ MarketHolds(market, barTime)
    BY DEF ReportInv
  <1>2. CASE answer = NoAnswer
    <2>1. answer.kind = "none"
      BY <1>2 DEF NoAnswer
    <2>2. DOMAIN ReportRows = {}
      BY <2>1 DEF ReportRows
    <2>. QED BY <2>1, <2>2 DEF ReportsAreSound, ReadyRows, ReadyRowsBrokeOut, ReadyRowsAreRanked,
                               ActiveSetupsHaveAStop, SetupsFollowTheirTrend
  <1>3. CASE Imports(answer, market, barTime)
    <2>1. /\ answer.kind = "import" /\ DOMAIN ranked = {1} /\ ranked[1].readiness # "READY_FOR_RISK_CHECK"
          /\ Researched(ranked[1], ranked[1].symbol, market[ranked[1].symbol], barTime)
      BY <1>3 DEF ReportRows, Imports
    <2>2. ReadyRows = {}
      BY <2>1 DEF ReadyRows
    <2>3. ranked[1].setup # "none" =>
            /\ HasStop(ranked[1].stop, ranked[1].setup, market[ranked[1].symbol], ranked[1].latestAt)
            /\ ranked[1].trend = TrendOf(ranked[1].setup)
      BY <2>1, StopAsked
    <2>4. ActiveSetupsHaveAStop
      BY <2>1, <2>3 DEF ActiveSetupsHaveAStop, HasStop
    <2>5. SetupsFollowTheirTrend
      BY <2>1, <2>3 DEF SetupsFollowTheirTrend, TrendOf
    <2>. QED BY <2>1, <2>2, <2>4, <2>5 DEF ReportsAreSound, ReadyRowsBrokeOut, ReadyRowsAreRanked
  <1>4. CASE Reports(answer, market, barTime)
    <2>1. answer.kind = "report" /\ ranked = answer.rows
      BY <1>4 DEF ReportRows, Reports
    <2>2. PICK w \in Seq(Symbols) : \A i \in DOMAIN ranked : JudgedRow(ranked[i], w, market, barTime)
      BY <1>4, <2>1 DEF Reports
    <2> HIDE DEF ranked
    <2>3. ASSUME NEW i \in DOMAIN ranked
          PROVE  /\ ranked[i].symbol \in Symbols /\ \E k \in DOMAIN w : w[k] = ranked[i].symbol
                 /\ Researched(ranked[i], ranked[i].symbol, market[ranked[i].symbol], barTime)
                 /\ ranked[i].setup # "none" =>
                        /\ HasStop(ranked[i].stop, ranked[i].setup, market[ranked[i].symbol], ranked[i].latestAt)
                        /\ ranked[i].trend = TrendOf(ranked[i].setup)
                        /\ BrokeOut(market[ranked[i].symbol], ranked[i].setup)
      <3>1. JudgedRow(ranked[i], w, market, barTime)
        BY <2>2
      <3>2. PICK k \in DOMAIN w : w[k] = ranked[i].symbol
        BY <3>1 DEF JudgedRow
      <3>3. w[k] \in Symbols
        OBVIOUS
      <3>4. Researched(ranked[i], ranked[i].symbol, market[ranked[i].symbol], barTime)
        BY <3>1 DEF JudgedRow
      <3>. QED BY <3>2, <3>3, <3>4, StopAsked
    <2>4. ActiveSetupsHaveAStop
      BY <2>3 DEF ActiveSetupsHaveAStop, HasStop, ranked
    <2>5. SetupsFollowTheirTrend
      <3>1. \A i \in DOMAIN ranked : ranked[i].setup # "none" /\ ranked[i].symbol = Benchmark =>
                ranked[i].market = "SUPPORTS" /\ ranked[i].relative = "NEUTRAL"
        BY <2>2 DEF JudgedRow
      <3>. QED BY <2>3, <3>1 DEF SetupsFollowTheirTrend, TrendOf, ranked
    <2>6. ReadyRows = {i \in DOMAIN ranked : ranked[i].readiness = "READY_FOR_RISK_CHECK"}
      BY DEF ReadyRows, ranked
    <2>7. ReadyRowsAreRanked
      <3>1. \A i \in ReadyRows :
                /\ ranked[i].rank # 0
                /\ \E j \in ReadyRows : /\ answer.summary.lead = <<ranked[j].symbol>>
                                        /\ \A k \in ReadyRows : ranked[j].rank <= ranked[k].rank
        BY <1>4, <2>1, <2>6 DEF Reports
      <3>. QED BY <3>1 DEF ReadyRowsAreRanked, ranked
    <2>8. ASSUME NEW i \in ReadyRows
          PROVE  /\ Last(market[ranked[i].symbol]).at \in barTime - FreshnessLimit .. barTime
                 /\ BrokeOut(market[ranked[i].symbol], ranked[i].setup)
                 /\ ranked[i].grade = "PROMISING"
                 /\ Benchmark \in {ranked[j].symbol : j \in DOMAIN ranked} =>
                        ~MovesAgainst(market[Benchmark], ranked[i].setup)
      <3>1. i \in DOMAIN ranked /\ ranked[i].readiness = "READY_FOR_RISK_CHECK"
        BY <2>6
      <3>2. /\ Fresh(ranked[i]) /\ ranked[i].setup # "none" /\ ranked[i].grade = "PROMISING"
            /\ \A k \in DOMAIN w : w[k] = Benchmark => ~MovesAgainst(market[Benchmark], ranked[i].setup)
        BY <2>2, <3>1 DEF JudgedRow
      <3>3. Last(market[ranked[i].symbol]).at \in barTime - FreshnessLimit .. barTime
        <4> DEFINE r == ranked[i]
        <4>1. r.symbol \in Symbols /\ Researched(r, r.symbol, market[r.symbol], barTime) /\ Fresh(r)
          BY <2>3, <3>1, <3>2
        <4> HIDE DEF r
        <4>2. Last(market[r.symbol]).at \in barTime - FreshnessLimit .. barTime
          BY <1>1, <4>1, FreshBars
        <4>. QED BY <4>2 DEF r
      <3>4. Benchmark \in {ranked[j].symbol : j \in DOMAIN ranked} => \E k \in DOMAIN w : w[k] = Benchmark
        BY <2>3
      <3>. QED BY <2>3, <3>1, <3>2, <3>3, <3>4
    <2>9. ReadyRowsBrokeOut
      BY <2>8 DEF ReadyRowsBrokeOut, ranked
    <2>. QED BY <2>4, <2>5, <2>7, <2>9 DEF ReportsAreSound
  <1>. QED BY <1>2, <1>3, <1>4 DEF ReportInv, AnswerHolds

(* Whatever bars have arrived and whatever the watchlist: a row of a scan   *)
(* or of an import is only ready when its latest bar is recent, broke out   *)
(* of the bars before it, was graded PROMISING and is not against the       *)
(* benchmark it was scanned with; every ready row has a rank and the lead   *)
(* has the best; a setup has a stop on its losing side and follows the      *)
(* trend; the benchmark's own setup is supported and equal to itself        *)
(* (research() and _with_trade_readiness() of live.py).                     *)
THEOREM SoundReports ==
    ResearchAssumption /\ ScanAssumption /\ ReportSpec => []ReportsAreSound
  <1>1. ResearchAssumption /\ ScanAssumption /\ ReportInit => ReportInv
    BY ReportStarts
  <1>2. ReportInv /\ [ReportNext]_reportVars => ReportInv'
    <2> SUFFICES ASSUME ReportInv, [ReportNext]_reportVars PROVE ReportInv'
      OBVIOUS
    <2>1. CASE Complete
      BY <2>1, CompleteKeeps
    <2>2. CASE Scan
      BY <2>2, ScanKeeps
    <2>3. CASE Import
      BY <2>3, ImportKeeps
    <2>4. CASE UNCHANGED reportVars
      BY <2>4 DEF ReportInv, AnswerHolds, reportVars
    <2>. QED BY <2>1, <2>2, <2>3, <2>4 DEF ReportNext
  <1>3. ReportInv => ReportsAreSound
    BY ReportInvImplies
  <1>. QED BY <1>1, <1>2, <1>3, PTL DEF ReportSpec
=============================================================================
