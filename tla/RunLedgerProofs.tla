-------------------------- MODULE RunLedgerProofs --------------------------
(***************************************************************************)
(* Proofs about RunLedger, for every set of runs, plans and instants: the  *)
(* type invariant, that a run only moves forward, and that its audit       *)
(* replays to its row.                                                     *)
(***************************************************************************)
EXTENDS RunLedger, TLAPS

(* A run nobody registered is still empty: without this its clock could be  *)
(* anything, and a registration could move it back.                         *)
UnregisteredIsEmpty == \A r \in Runs : runs[r].state = "ABSENT" => runs[r] = NoRun

(* The inductive invariant.                                                 *)
IInv == LedgerAssumption /\ TypeOK /\ UnregisteredIsEmpty

-----------------------------------------------------------------------------
(* Facts about sequences and intervals, in the form the steps below cite.   *)

LEMMA EmptySeq == ASSUME NEW S PROVE <<>> \in Seq(S)
  OBVIOUS

LEMMA SingletonSeq == ASSUME NEW S, NEW e \in S PROVE <<e>> \in Seq(S)
  OBVIOUS

LEMMA ConcatSeq ==
    ASSUME NEW S, NEW s \in Seq(S), NEW t \in Seq(S) PROVE s \o t \in Seq(S)
  OBVIOUS

LEMMA FunctionSeq ==
    ASSUME NEW S, NEW n \in Nat, NEW f \in [1 .. n -> S] PROVE f \in Seq(S)
  OBVIOUS

LEMMA StepNumber ==
    ASSUME NEW a \in Nat, NEW n \in Nat, NEW i \in 1 .. n PROVE a + i - 1 \in Nat
  OBVIOUS

LEMMA IntervalFacts ==
    ASSUME NEW a \in Nat, NEW b \in Nat, NEW i \in a .. b
    PROVE  i \in Nat /\ i >= a /\ i <= b /\ i - a \in Nat
  OBVIOUS

-----------------------------------------------------------------------------
(* Facts about the types of the pieces the actions are built from.          *)

(* An audit entry is an entry.                                              *)
LEMMA EventType ==
    ASSUME NEW name \in States \cup {"REGISTERED", "STEP"}, NEW step \in Nat,
           NEW at \in Nat, NEW detail \in Errors \cup {""}
    PROVE  Event(name, step, at, detail) \in Entries
  BY DEF Event, Entries

(* A schedule has a length.                                                 *)
LEMMA TotalType == ASSUME LedgerAssumption, NEW r \in Runs PROVE Total(r) \in Nat
  BY DEF LedgerAssumption, Total

(* Appending typed entries to the audit of one run keeps it typed.          *)
LEMMA LogType ==
    ASSUME audit \in [Runs -> Seq(Entries)], NEW r \in Runs,
           NEW entries \in Seq(Entries), Log(r, entries)
    PROVE  audit' \in [Runs -> Seq(Entries)]
  <1>1. audit[r] \o entries \in Seq(Entries)
    OBVIOUS
  <1>. QED BY <1>1 DEF Log

(* Replacing the row of one run by a typed one whose checkpoint is in the   *)
(* schedule keeps the table typed.                                          *)
LEMMA RowType ==
    ASSUME TypeOK, NEW r \in Runs, NEW row \in Rows, row.next <= Total(r),
           runs' = [runs EXCEPT ![r] = row]
    PROVE  /\ runs' \in [Runs -> Rows]
           /\ \A q \in Runs : runs'[q].next <= Total(q)
  BY DEF TypeOK

-----------------------------------------------------------------------------
(* register() keeps the invariant.                                          *)
LEMMA RegisterInv ==
    ASSUME IInv, NEW r \in Runs, NEW at \in Times, Register(r, at)
    PROVE  IInv'
  <1>. DEFINE row == [state |-> "PAUSED", next |-> 0, lastAt |-> at]
  <1>1. row \in Rows /\ row.next <= Total(r)
    BY TotalType DEF IInv, LedgerAssumption, Rows, States
  <1>2. /\ runs' \in [Runs -> Rows]
        /\ \A q \in Runs : runs'[q].next <= Total(q)
    BY <1>1, RowType DEF IInv, Register
  <1>3. <<Event("REGISTERED", 0, at, "")>> \in Seq(Entries)
    <2>1. at \in Nat
      BY DEF IInv, LedgerAssumption
    <2>2. Event("REGISTERED", 0, at, "") \in Entries
      BY <2>1, EventType
    <2>. QED BY <2>2, SingletonSeq
  <1>4. audit' \in [Runs -> Seq(Entries)]
    BY <1>3, LogType DEF IInv, TypeOK, Register
  <1>5. UnregisteredIsEmpty'
    BY DEF IInv, TypeOK, UnregisteredIsEmpty, Register
  <1>. QED BY <1>2, <1>4, <1>5 DEF IInv, TypeOK, Total

(* start and pause keep it.                                                 *)
LEMMA SetRunningInv ==
    ASSUME IInv, NEW r \in Runs, NEW running \in BOOLEAN, NEW at \in Times,
           SetRunning(r, running, at)
    PROVE  IInv'
  <1>. DEFINE state == IF running THEN "RUNNING" ELSE "PAUSED"
              row == [state |-> state, next |-> runs[r].next, lastAt |-> at]
  <1>0. runs[r] \in Rows /\ runs[r].next \in Nat /\ at \in Nat /\ state \in States
    BY DEF LedgerAssumption, IInv, TypeOK, Rows, States
  <1>1. row \in Rows /\ row.next <= Total(r)
    BY <1>0 DEF IInv, TypeOK, Rows, States
  <1>2. runs' = [runs EXCEPT ![r] = row]
    BY <1>0 DEF SetRunning, IInv, TypeOK, Rows
  <1>3. /\ runs' \in [Runs -> Rows]
        /\ \A q \in Runs : runs'[q].next <= Total(q)
    BY <1>1, <1>2, RowType DEF IInv
  <1>4. audit' \in [Runs -> Seq(Entries)]
    <2>1. CASE Log(r, <<Event(state, runs[r].next, at, "")>>)
      <3>1. Event(state, runs[r].next, at, "") \in Entries
        <4>1. state \in States \cup {"REGISTERED", "STEP"} /\ "" \in Errors \cup {""}
          BY <1>0
        <4>. HIDE DEF state
        <4>. QED BY <1>0, <4>1, EventType
      <3>2. <<Event(state, runs[r].next, at, "")>> \in Seq(Entries)
        BY <3>1, SingletonSeq
      <3>. QED BY <2>1, <3>2, LogType DEF IInv, TypeOK
    <2>2. CASE UNCHANGED audit
      BY <2>2 DEF IInv, TypeOK
    <2>. QED BY <2>1, <2>2 DEF SetRunning
  <1>5. UnregisteredIsEmpty'
    BY <1>0, <1>2 DEF IInv, TypeOK, UnregisteredIsEmpty, States, Rows
  <1>. QED BY <1>3, <1>4, <1>5 DEF IInv, TypeOK, Total

(* The end of a tick keeps it if the checkpoint is in the schedule.         *)
LEMMA CommitInv ==
    ASSUME IInv, NEW r \in Runs, NEW at \in Times, NEW error \in Errors \cup {""},
           NEW index \in runs[r].next .. Total(r), Commit(r, at, index, error)
    PROVE  IInv'
  <1>. DEFINE done == index - runs[r].next
              state == IF error # "" THEN "FAILED"
                       ELSE IF index = Total(r) THEN "COMPLETE" ELSE "RUNNING"
              row == [state |-> state, next |-> index, lastAt |-> at]
              steps == [i \in 1 .. done |-> Event("STEP", runs[r].next + i - 1, at, "")]
              last == IF state = "RUNNING" THEN <<>>
                      ELSE <<Event(state, index, at, error)>>
  <1>0. /\ runs[r].next \in Nat /\ index \in Nat /\ index <= Total(r) /\ done \in Nat
        /\ at \in Nat /\ state \in States
    <2>1. Total(r) \in Nat
      BY TotalType DEF IInv
    <2>2. runs[r] \in Rows
      BY DEF IInv, TypeOK
    <2>3. runs[r].next \in Nat
      BY <2>2 DEF Rows
    <2>4. index \in Nat /\ index <= Total(r) /\ index - runs[r].next \in Nat
      BY <2>1, <2>3, IntervalFacts
    <2>. QED BY <2>3, <2>4 DEF IInv, LedgerAssumption, States
  <1>1. row \in Rows /\ row.next <= Total(r)
    BY <1>0 DEF Rows
  <1>2. /\ runs' \in [Runs -> Rows]
        /\ \A q \in Runs : runs'[q].next <= Total(q)
    BY <1>1, RowType DEF IInv, Commit
  <1>3. steps \o last \in Seq(Entries)
    <2>1. ASSUME NEW i \in 1 .. done
          PROVE  Event("STEP", runs[r].next + i - 1, at, "") \in Entries
      <3>1. runs[r].next + i - 1 \in Nat
        BY <1>0, StepNumber
      <3>2. "STEP" \in States \cup {"REGISTERED", "STEP"} /\ "" \in Errors \cup {""}
        OBVIOUS
      <3>. QED BY <1>0, <3>1, <3>2, EventType
    <2>2. steps \in [1 .. done -> Entries]
      BY <2>1
    <2>3. steps \in Seq(Entries)
      BY <1>0, <2>2, FunctionSeq
    <2>4. state \in States \cup {"REGISTERED", "STEP"}
      BY <1>0
    <2>5. Event(state, index, at, error) \in Entries
      <3>. HIDE DEF state
      <3>. QED BY <1>0, <2>4, EventType
    <2>6. last \in Seq(Entries)
      <3>1. <<>> \in Seq(Entries)
        BY EmptySeq
      <3>2. <<Event(state, index, at, error)>> \in Seq(Entries)
        <4>. HIDE DEF state
        <4>. QED BY <2>5, SingletonSeq
      <3>. HIDE DEF state
      <3>. QED BY <3>1, <3>2
    <2>. HIDE DEF steps, last
    <2>. QED BY <2>3, <2>6, ConcatSeq
  <1>4. audit' \in [Runs -> Seq(Entries)]
    BY <1>3, LogType DEF IInv, TypeOK, Commit
  <1>5. UnregisteredIsEmpty'
    BY <1>0 DEF IInv, TypeOK, UnregisteredIsEmpty, Commit, States
  <1>. QED BY <1>2, <1>4, <1>5 DEF IInv, TypeOK, Total

(* So does a whole tick, whatever it failed of.                             *)
LEMMA TickInv ==
    ASSUME IInv, NEW r \in Runs, NEW at \in Times, NEW n \in 1 .. MaxJobs, Tick(r, at, n)
    PROVE  IInv'
  BY CommitInv DEF Tick

-----------------------------------------------------------------------------
(* The tables are empty at first.                                           *)
LEMMA InitInv == LedgerAssumption /\ Init => IInv
  BY TotalType DEF Init, IInv, TypeOK, UnregisteredIsEmpty, NoRun, Rows

(* Every transaction keeps the invariant.                                   *)
LEMMA NextInv == IInv /\ [Next]_ledgerVars => IInv'
  <1>. SUFFICES ASSUME IInv, [Next]_ledgerVars PROVE IInv'
    OBVIOUS
  <1>1. CASE UNCHANGED ledgerVars
    BY <1>1 DEF IInv, TypeOK, UnregisteredIsEmpty, ledgerVars, Total
  <1>2. CASE Next
    <2>. PICK r \in Runs, at \in Times :
            \/ Register(r, at)
            \/ \E running \in BOOLEAN : SetRunning(r, running, at)
            \/ \E n \in 1 .. MaxJobs : Tick(r, at, n)
      BY <1>2 DEF Next
    <2>1. CASE Register(r, at)
      BY <2>1, RegisterInv
    <2>2. CASE \E running \in BOOLEAN : SetRunning(r, running, at)
      BY <2>2, SetRunningInv
    <2>3. CASE \E n \in 1 .. MaxJobs : Tick(r, at, n)
      BY <2>3, TickInv
    <2>. QED BY <2>1, <2>2, <2>3
  <1>. QED BY <1>1, <1>2

(* The inductive invariant holds in every reachable state.                  *)
LEMMA LedgerInvariant == LedgerAssumption /\ Spec => []IInv
  BY InitInv, NextInv, PTL DEF Spec

(* The tables of runtime.db keep their types and no checkpoint leaves its   *)
(* schedule (the checks of _load never fail), for any number of runs.       *)
THEOREM LedgerTypeCorrect == LedgerAssumption /\ Spec => []TypeOK
  <1>1. IInv => TypeOK
    BY DEF IInv
  <1>. QED BY <1>1, LedgerInvariant, PTL

-----------------------------------------------------------------------------
(* What RunsOnlyAdvance asks of one run.                                    *)
Advances(r) ==
    /\ runs[r].next <= runs'[r].next
    /\ runs[r].lastAt <= runs'[r].lastAt
    /\ runs[r].state \in Terminal => runs'[r] = runs[r]
    /\ runs'[r].next > runs[r].next => runs[r].state = "RUNNING"

(* A run that no transaction touches has not gone back.                     *)
LEMMA UntouchedAdvances ==
    ASSUME IInv, NEW q \in Runs, runs'[q] = runs[q]
    PROVE  Advances(q)
  <1>1. runs[q].next \in Nat /\ runs[q].lastAt \in Nat
    BY DEF IInv, TypeOK, Rows
  <1>. QED BY <1>1 DEF Advances

(* Every transaction moves every run forward or not at all.                 *)
LEMMA StepAdvances == IInv /\ Next => \A q \in Runs : Advances(q)
  <1>. SUFFICES ASSUME IInv, Next, NEW q \in Runs PROVE Advances(q)
    OBVIOUS
  <1>. PICK r \in Runs, at \in Times :
            \/ Register(r, at)
            \/ \E running \in BOOLEAN : SetRunning(r, running, at)
            \/ \E n \in 1 .. MaxJobs : Tick(r, at, n)
    BY DEF Next
  <1>0. /\ runs \in [Runs -> Rows] /\ at \in Nat
        /\ runs[r].next \in Nat /\ runs[r].lastAt \in Nat
    BY DEF LedgerAssumption, IInv, TypeOK, Rows
  <1>1. CASE q # r
    BY <1>0, <1>1, UntouchedAdvances DEF Register, SetRunning, Tick, Commit
  <1>2. CASE q = r
    <2>1. CASE Register(r, at)
      <3>1. runs[r] = NoRun
        BY <2>1 DEF Register, IInv, UnregisteredIsEmpty
      <3>2. runs'[r] = [state |-> "PAUSED", next |-> 0, lastAt |-> at]
        BY <1>0, <2>1 DEF Register
      <3>. QED BY <1>0, <1>2, <3>1, <3>2 DEF Advances, NoRun, Terminal
    <2>2. CASE \E running \in BOOLEAN : SetRunning(r, running, at)
      <3>. PICK running \in BOOLEAN : SetRunning(r, running, at)
        BY <2>2
      <3>1. runs'[r].next = runs[r].next /\ runs'[r].lastAt = at
        BY <1>0 DEF SetRunning, Rows
      <3>2. runs[r].state \notin Terminal /\ at >= runs[r].lastAt
        BY DEF SetRunning
      <3>. QED BY <1>0, <1>2, <3>1, <3>2 DEF Advances
    <2>3. CASE \E n \in 1 .. MaxJobs : Tick(r, at, n)
      <3>1. /\ runs[r].state = "RUNNING" /\ at >= runs[r].lastAt
            /\ \E index \in runs[r].next .. Total(r), error \in Errors \cup {""} :
                Commit(r, at, index, error)
        BY <2>3 DEF Tick
      <3>2. PICK index \in runs[r].next .. Total(r), error \in Errors \cup {""} :
                Commit(r, at, index, error)
        BY <3>1
      <3>3. runs'[r].next = index /\ runs'[r].lastAt = at
        BY <1>0, <3>2 DEF Commit
      <3>4. index \in Nat /\ index >= runs[r].next
        <4>1. Total(r) \in Nat
          BY TotalType DEF IInv
        <4>. QED BY <1>0, <4>1, IntervalFacts
      <3>. QED BY <1>0, <1>2, <3>1, <3>3, <3>4 DEF Advances, Terminal
    <2>. QED BY <2>1, <2>2, <2>3
  <1>. QED BY <1>1, <1>2

(* Over any sequence of registrations, starts, pauses and ticks at any      *)
(* times, the checkpoint and clock of a run never go back, only a running   *)
(* run advances, and a completed or failed one never changes again.         *)
THEOREM RunsNeverGoBack == LedgerAssumption /\ Spec => RunsOnlyAdvance
  <1>1. IInv /\ [Next]_ledgerVars => [\A r \in Runs : Advances(r)]_ledgerVars
    BY StepAdvances
  <1>2. LedgerAssumption /\ Spec => [][\A r \in Runs : Advances(r)]_ledgerVars
    BY <1>1, LedgerInvariant, PTL DEF Spec
  <1>. QED BY <1>2 DEF RunsOnlyAdvance, Advances

-----------------------------------------------------------------------------
(* What AuditExplainsRun asks of the audit h and the row of one run.        *)
Explains(r, h, row) ==
    /\ row.state = "ABSENT" <=> h = <<>>
    /\ h # <<>> =>
        /\ h[1].event = "REGISTERED" /\ h[1].step = 0
        /\ \E i \in 1 .. Len(h) :
            /\ IsLastTransition(h, i)
            /\ h[i].event = IF row.state = "PAUSED" /\ i = 1 THEN "REGISTERED" ELSE row.state
        /\ After(h[Len(h)]) = row.next
        /\ h[Len(h)].at <= row.lastAt
    /\ \A i \in 1 .. Len(h) - 1 : Follows(h[i], h[i + 1])
    /\ \A i \in 1 .. Len(h) : h[i].event = "STEP" => IsDue(r, h[i].step + 1, h[i].at)
    /\ row.state = "COMPLETE" => row.next = Total(r)

(* The pieces of a concatenation.                                           *)
LEMMA ConcatFacts ==
    ASSUME NEW S, NEW h \in Seq(S), NEW t \in Seq(S)
    PROVE  /\ h \o t \in Seq(S)
           /\ Len(h) \in Nat /\ Len(t) \in Nat
           /\ Len(h \o t) = Len(h) + Len(t)
           /\ \A i \in 1 .. Len(h) : (h \o t)[i] = h[i]
           /\ \A i \in 1 .. Len(t) : (h \o t)[Len(h) + i] = t[i]
  OBVIOUS

LEMMA OneMoreEntry ==
    ASSUME NEW S, NEW h \in Seq(S), NEW e \in S
    PROVE  /\ h \o <<e>> \in Seq(S)
           /\ Len(h \o <<e>>) = Len(h) + 1
           /\ \A i \in 1 .. Len(h) : (h \o <<e>>)[i] = h[i]
           /\ (h \o <<e>>)[Len(h) + 1] = e
  OBVIOUS

LEMMA EmptyIffNoLength == ASSUME NEW S, NEW h \in Seq(S) PROVE h = <<>> <=> Len(h) = 0
  OBVIOUS

LEMMA ElementType == ASSUME NEW S, NEW h \in Seq(S), NEW i \in 1 .. Len(h) PROVE h[i] \in S
  OBVIOUS

LEMMA ConcatAssociative ==
    ASSUME NEW S, NEW s \in Seq(S), NEW t \in Seq(S), NEW u \in Seq(S)
    PROVE  s \o (t \o u) = (s \o t) \o u
  OBVIOUS

(* What an entry may carry besides its event, step and time.                *)
Details == Errors \cup {""}

LEMMA EntryFacts ==
    ASSUME NEW name \in States \cup {"REGISTERED", "STEP"}, NEW step \in Nat,
           NEW at \in Nat, NEW detail \in Details
    PROVE  /\ Event(name, step, at, detail) \in Entries
           /\ Event(name, step, at, detail).event = name
           /\ Event(name, step, at, detail).step = step
           /\ Event(name, step, at, detail).at = at
           /\ Event(name, step, at, detail).detail = detail
  BY EventType DEF Event, Details

(* The last entry of the audit of a run that is not terminal is not either. *)
LEMMA OpenRunOpenAudit ==
    ASSUME NEW r \in Runs, NEW h \in Seq(Entries), NEW row \in Rows, Explains(r, h, row),
           row.state \in {"PAUSED", "RUNNING"}
    PROVE  /\ h # <<>> /\ Len(h) \in Nat \ {0} /\ h[Len(h)] \in Entries
           /\ h[Len(h)].event \notin Terminal
           /\ After(h[Len(h)]) = row.next /\ h[Len(h)].at <= row.lastAt
  <1>1. h # <<>> /\ Len(h) \in Nat \ {0}
    BY EmptyIffNoLength DEF Explains
  <1>2. h[Len(h)] \in Entries
    BY <1>1, ElementType
  <1>3. PICK i \in 1 .. Len(h) :
            /\ IsLastTransition(h, i)
            /\ h[i].event = IF row.state = "PAUSED" /\ i = 1 THEN "REGISTERED" ELSE row.state
    BY <1>1 DEF Explains
  <1>4. h[Len(h)].event \notin Terminal
    <2>1. CASE i = Len(h)
      BY <1>3, <2>1 DEF Terminal
    <2>2. CASE i # Len(h)
      <3>1. Len(h) \in i + 1 .. Len(h)
        BY <1>1, <2>2
      <3>. QED BY <1>3, <3>1 DEF IsLastTransition, Terminal
    <2>. QED BY <2>1, <2>2
  <1>. QED BY <1>1, <1>2, <1>4 DEF Explains

(* The clock of a run may move on without an entry.                         *)
LEMMA ClockExplains ==
    ASSUME NEW r \in Runs, NEW h \in Seq(Entries), NEW row \in Rows, Explains(r, h, row),
           row.state \in {"PAUSED", "RUNNING"},
           NEW at \in Nat, at >= row.lastAt
    PROVE  Explains(r, h, [state |-> row.state, next |-> row.next, lastAt |-> at])
  <1>1. /\ h # <<>> /\ h[Len(h)].at \in Nat /\ row.lastAt \in Nat
        /\ h[Len(h)].at <= row.lastAt
    BY OpenRunOpenAudit DEF Entries, Rows
  <1>2. h[Len(h)].at <= at
    BY <1>1
  <1>. QED BY <1>1, <1>2 DEF Explains

(* A transition is the new last entry of the audit and the new state.       *)
LEMMA TransitionExplains ==
    ASSUME NEW r \in Runs, NEW h \in Seq(Entries), NEW row \in Rows, Explains(r, h, row),
           row.state \in {"PAUSED", "RUNNING"},
           NEW state \in States, NEW at \in Nat, at >= row.lastAt,
           NEW detail \in Details,
           state = "COMPLETE" => row.next = Total(r)
    PROVE  Explains(r, h \o <<Event(state, row.next, at, detail)>>,
                    [state |-> state, next |-> row.next, lastAt |-> at])
  <1>. PICK n : n = Len(h)
    OBVIOUS
  <1>1. /\ h # <<>> /\ n \in Nat \ {0} /\ h[n] \in Entries
        /\ h[n].event \notin Terminal
        /\ After(h[n]) = row.next /\ h[n].at <= row.lastAt
    BY OpenRunOpenAudit
  <1>2. /\ row.next \in Nat /\ row.lastAt \in Nat /\ h[n].at \in Nat
    BY <1>1 DEF Rows, Entries
  <1>. PICK e : e = Event(state, row.next, at, detail)
    OBVIOUS
  <1>3. /\ e \in Entries
        /\ e.event = state /\ e.step = row.next /\ e.at = at
        /\ state \notin {"STEP", "REGISTERED", "ABSENT"}
    BY SMTT(20), <1>2, EntryFacts DEF States
  <1>. PICK g : g = h \o <<e>>
    OBVIOUS
  <1>5. /\ g \in Seq(Entries) /\ Len(g) = n + 1
        /\ \A i \in 1 .. n : g[i] = h[i]
        /\ g[n + 1] = e
    BY <1>3, OneMoreEntry
  <1>6. g # <<>>
    BY <1>1, <1>5, EmptyIffNoLength
  <1>7. g[1].event = "REGISTERED" /\ g[1].step = 0
    BY <1>1, <1>5 DEF Explains
  <1>8. IsLastTransition(g, n + 1)
    BY <1>1, <1>3, <1>5 DEF IsLastTransition
  <1>9. \A i \in 1 .. Len(g) - 1 : Follows(g[i], g[i + 1])
    <2>. SUFFICES ASSUME NEW i \in 1 .. n PROVE Follows(g[i], g[i + 1])
      BY <1>1, <1>5
    <2>1. CASE i = n
      BY <1>1, <1>2, <1>3, <1>5, <2>1 DEF Follows
    <2>2. CASE i # n
      <3>1. i \in 1 .. n - 1 /\ i + 1 \in 1 .. n
        BY <1>1, <2>2
      <3>2. g[i] = h[i] /\ g[i + 1] = h[i + 1]
        BY <1>5, <3>1
      <3>. QED BY <3>1, <3>2 DEF Explains
    <2>. QED BY <2>1, <2>2
  <1>10. \A i \in 1 .. Len(g) : g[i].event = "STEP" => IsDue(r, g[i].step + 1, g[i].at)
    <2>. SUFFICES ASSUME NEW i \in 1 .. n + 1, g[i].event = "STEP"
                 PROVE  IsDue(r, g[i].step + 1, g[i].at)
      BY <1>5
    <2>1. i # n + 1
      BY <1>3, <1>5
    <2>2. i \in 1 .. n /\ g[i] = h[i]
      BY <1>1, <1>5, <2>1
    <2>. QED BY <2>2 DEF Explains
  <1>11. After(g[n + 1]) = row.next /\ g[n + 1].at <= at
    BY <1>3, <1>5 DEF After
  <1>12. g[n + 1].event = state /\ n + 1 # 1
    BY <1>1, <1>3, <1>5
  <1>13. n + 1 \in 1 .. Len(g)
    BY <1>1, <1>5
  <1>14. Explains(r, g, [state |-> state, next |-> row.next, lastAt |-> at])
    BY <1>3, <1>5, <1>6, <1>7, <1>8, <1>9, <1>10, <1>11, <1>12, <1>13 DEF Explains
  <1>. QED BY <1>14

(* The jobs after the checkpoint a that are due, and the entries of them.   *)
DueJobs(r, a, done, at) == \A i \in 1 .. done : IsDue(r, a + i, at)
StepEntries(steps, a, done, at, detail) ==
    /\ steps \in Seq(Entries) /\ Len(steps) = done
    /\ \A i \in 1 .. done : steps[i] = Event("STEP", a + i - 1, at, detail)

(* Sequence g is h with t behind it.                                        *)
Extends(g, h, t) ==
    /\ Len(g) = Len(h) + Len(t)
    /\ \A i \in 1 .. Len(h) : g[i] = h[i]
    /\ \A i \in 1 .. Len(t) : g[Len(h) + i] = t[i]

LEMMA ConcatExtends ==
    ASSUME NEW S, NEW h \in Seq(S), NEW t \in Seq(S)
    PROVE  h \o t \in Seq(S) /\ Extends(h \o t, h, t)
  BY ConcatFacts DEF Extends

(* What such an entry says.                                                 *)
LEMMA StepEntryFacts ==
    ASSUME NEW a \in Nat, NEW done \in Nat, NEW at \in Nat, NEW detail \in Details,
           NEW steps, StepEntries(steps, a, done, at, detail), NEW i \in 1 .. done
    PROVE  steps[i].event = "STEP" /\ steps[i].step = a + i - 1 /\ steps[i].at = at
  <1>1. PICK m \in Nat : m = a + i - 1
    BY StepNumber
  <1>2. steps[i] = Event("STEP", m, at, detail)
    BY <1>1 DEF StepEntries
  <1>. QED BY <1>1, <1>2 DEF Event

(* The steps of a tick move the checkpoint on, one entry per due job.       *)
LEMMA StepsExplain ==
    ASSUME NEW r \in Runs, NEW h \in Seq(Entries), NEW a \in Nat, NEW b \in Nat,
           Explains(r, h, [state |-> "RUNNING", next |-> a, lastAt |-> b]),
           NEW at \in Nat, at >= b, NEW done \in Nat, DueJobs(r, a, done, at),
           NEW none \in Details, NEW steps, StepEntries(steps, a, done, at, none),
           NEW g \in Seq(Entries), Extends(g, h, steps)
    PROVE  Explains(r, g, [state |-> "RUNNING", next |-> a + done, lastAt |-> at])
  <1>. PICK n : n = Len(h)
    OBVIOUS
  <1>1. /\ h # <<>> /\ n \in Nat \ {0} /\ h[n] \in Entries
        /\ h[n].event \notin Terminal
        /\ After(h[n]) = a /\ h[n].at <= b
    <2>1. PICK row \in Rows : row = [state |-> "RUNNING", next |-> a, lastAt |-> b]
      BY DEF Rows, States
    <2>2. row.state = "RUNNING" /\ row.next = a /\ row.lastAt = b /\ Explains(r, h, row)
      BY <2>1
    <2>. QED BY <2>2, OpenRunOpenAudit
  <1>2. h[n].at \in Nat
    BY <1>1 DEF Entries
  <1>3. /\ g \in Seq(Entries) /\ Len(g) = n + done
        /\ \A i \in 1 .. n : g[i] = h[i]
        /\ \A i \in 1 .. done : g[n + i] = steps[i]
    BY DEF StepEntries, Extends
  <1>4. \A i \in 1 .. done :
            g[n + i].event = "STEP" /\ g[n + i].step = a + i - 1 /\ g[n + i].at = at
    <2>. SUFFICES ASSUME NEW i \in 1 .. done
                 PROVE  /\ g[n + i].event = "STEP" /\ g[n + i].step = a + i - 1
                        /\ g[n + i].at = at
      OBVIOUS
    <2>1. g[n + i] = steps[i]
      BY <1>3
    <2>2. steps[i].event = "STEP" /\ steps[i].step = a + i - 1 /\ steps[i].at = at
      BY StepEntryFacts
    <2>. QED BY <2>1, <2>2
  <1>5. g # <<>>
    BY <1>1, <1>3, EmptyIffNoLength
  <1>6. g[1].event = "REGISTERED" /\ g[1].step = 0
    BY <1>1, <1>3 DEF Explains
  <1>7. PICK i \in 1 .. n : IsLastTransition(h, i) /\ h[i].event = "RUNNING"
    BY <1>1 DEF Explains
  <1>8. IsLastTransition(g, i) /\ g[i].event = "RUNNING" /\ i \in 1 .. Len(g)
    <2>1. g[i] = h[i] /\ i \in 1 .. Len(g)
      BY <1>1, <1>3
    <2>2. ASSUME NEW j \in i + 1 .. Len(g) PROVE g[j].event = "STEP"
      <3>1. CASE j <= n
        <4>1. j \in 1 .. n /\ j \in i + 1 .. n
          BY <1>1, <3>1, <2>2
        <4>. QED BY <1>3, <1>7, <4>1 DEF IsLastTransition
      <3>2. CASE j > n
        <4>1. j - n \in 1 .. done /\ j = n + (j - n)
          BY <1>1, <1>3, <3>2, <2>2
        <4>. QED BY <1>4, <4>1
      <3>. QED BY <1>1, <3>1, <3>2
    <2>. QED BY <1>7, <2>1, <2>2 DEF IsLastTransition
  <1>9. After(g[Len(g)]) = a + done /\ g[Len(g)].at <= at
    <2>1. CASE done = 0
      <3>1. Len(g) = n /\ g[n] = h[n]
        BY <1>1, <1>3, <2>1
      <3>. QED BY <1>1, <1>2, <2>1, <3>1
    <2>2. CASE done # 0
      <3>1. done \in 1 .. done /\ Len(g) = n + done
        BY <1>3, <2>2
      <3>2. /\ g[Len(g)].event = "STEP" /\ g[Len(g)].step = a + done - 1
            /\ g[Len(g)].at = at
        BY <1>4, <3>1
      <3>3. After(g[Len(g)]) = a + done - 1 + 1
        BY <3>2 DEF After
      <3>4. a + done - 1 + 1 = a + done
        BY <1>2
      <3>. QED BY <3>2, <3>3, <3>4
    <2>. QED BY <2>1, <2>2
  <1>10. \A k \in 1 .. Len(g) - 1 : Follows(g[k], g[k + 1])
    <2>. SUFFICES ASSUME NEW k \in 1 .. n + done - 1 PROVE Follows(g[k], g[k + 1])
      BY <1>3
    <2>1. CASE k < n
      <3>1. k \in 1 .. n - 1 /\ k \in 1 .. n /\ k + 1 \in 1 .. n
        BY <1>1, <2>1
      <3>2. g[k] = h[k] /\ g[k + 1] = h[k + 1]
        BY <1>3, <3>1
      <3>. QED BY <3>1, <3>2 DEF Explains
    <2>2. CASE k = n
      <3>1. 1 \in 1 .. done /\ g[k] = h[n] /\ g[k + 1] = g[n + 1]
        BY <1>1, <1>3, <2>2
      <3>2. g[n + 1].event = "STEP" /\ g[n + 1].step = a /\ g[n + 1].at = at
        BY SMTT(20), <1>2, <1>4, <3>1
      <3>. QED BY SMTT(20), <1>1, <1>2, <3>1, <3>2 DEF Follows
    <2>3. CASE k > n
      <3>0. n \in Nat /\ done \in Nat /\ k \in Nat /\ k > n /\ k <= n + done - 1
        BY <1>1, <2>3
      <3>1. /\ k - n \in 1 .. done /\ k = n + (k - n)
            /\ k - n + 1 \in 1 .. done /\ k + 1 = n + (k - n + 1)
        BY <3>0
      <3>2. g[k].event = "STEP" /\ g[k].step = a + (k - n) - 1 /\ g[k].at = at
        BY <1>4, <3>1
      <3>3. /\ g[k + 1].event = "STEP" /\ g[k + 1].step = a + (k - n + 1) - 1
            /\ g[k + 1].at = at
        BY <1>4, <3>1
      <3>4. After(g[k]) = g[k + 1].step
        BY <1>1, <1>2, <3>2, <3>3 DEF After
      <3>. QED BY <3>2, <3>3, <3>4 DEF Follows, Terminal
    <2>. QED BY <1>1, <2>1, <2>2, <2>3
  <1>11. \A k \in 1 .. Len(g) : g[k].event = "STEP" => IsDue(r, g[k].step + 1, g[k].at)
    <2>. SUFFICES ASSUME NEW k \in 1 .. n + done, g[k].event = "STEP"
                 PROVE  IsDue(r, g[k].step + 1, g[k].at)
      BY <1>3
    <2>1. CASE k <= n
      <3>1. k \in 1 .. n /\ g[k] = h[k]
        BY <1>1, <1>3, <2>1
      <3>. QED BY <3>1 DEF Explains
    <2>2. CASE k > n
      <3>1. k - n \in 1 .. done /\ k = n + (k - n)
        BY <1>1, <2>2
      <3>2. g[k].step = a + (k - n) - 1 /\ g[k].at = at
        BY <1>4, <3>1
      <3>3. g[k].step + 1 = a + (k - n)
        BY <1>1, <1>2, <3>1, <3>2
      <3>. QED BY <3>1, <3>2, <3>3 DEF DueJobs
    <2>. QED BY <1>1, <2>1, <2>2
  <1>. QED BY <1>5, <1>6, <1>8, <1>9, <1>10, <1>11 DEF Explains

(* The audit of every run explains its row.                                 *)
Explained == \A r \in Runs : Explains(r, audit[r], runs[r])

(* A transaction that leaves a run alone leaves it explained.               *)
LEMMA OtherRunsExplained ==
    ASSUME Explained, NEW r \in Runs,
           \A q \in Runs : q # r => audit'[q] = audit[q] /\ runs'[q] = runs[q],
           Explains(r, audit'[r], runs'[r])
    PROVE  Explained'
  <1>. SUFFICES ASSUME NEW q \in Runs PROVE Explains(q, audit'[q], runs'[q])
    BY DEF Explained, Explains, After, Follows, IsLastTransition, IsDue, Total
  <1>1. CASE q = r
    BY <1>1
  <1>2. CASE q # r
    BY <1>2 DEF Explained
  <1>. QED BY <1>1, <1>2

LEMMA FunctionLength ==
    ASSUME NEW S, NEW n \in Nat, NEW f \in [1 .. n -> S] PROVE Len(f) = n
  OBVIOUS

(* An entry without a detail.                                               *)
NoDetail == ""

(* It is a detail.                                                          *)
LEMMA NoDetailType == NoDetail \in Details
  BY DEF NoDetail, Details

(* The row of a run is one of the kinds the lemmas are about.               *)
LEMMA RowFacts ==
    ASSUME IInv, NEW r \in Runs
    PROVE  /\ runs[r] \in Rows /\ audit[r] \in Seq(Entries)
           /\ runs[r].next \in Nat /\ runs[r].lastAt \in Nat
           /\ runs[r].next <= Total(r) /\ Total(r) \in Nat
           /\ runs[r] = [state |-> runs[r].state, next |-> runs[r].next,
                         lastAt |-> runs[r].lastAt]
  <1>1. runs[r] \in Rows /\ audit[r] \in Seq(Entries) /\ runs[r].next <= Total(r)
    BY DEF IInv, TypeOK
  <1>. QED BY <1>1, TotalType DEF IInv, Rows

(* The first entry of an audit.                                             *)
LEMMA FirstExplains ==
    ASSUME NEW r \in Runs, NEW at \in Nat, NEW none \in Details, NEW h,
           h = <<Event("REGISTERED", 0, at, none)>>
    PROVE  Explains(r, h, [state |-> "PAUSED", next |-> 0, lastAt |-> at])
  <1>1. h # <<>> /\ Len(h) = 1 /\ h[1] = Event("REGISTERED", 0, at, none)
    OBVIOUS
  <1>2. h[1].event = "REGISTERED" /\ h[1].step = 0 /\ h[1].at = at
    BY <1>1 DEF Event
  <1>3. IsLastTransition(h, 1) /\ 1 \in 1 .. Len(h)
    BY <1>1, <1>2 DEF IsLastTransition
  <1>4. After(h[Len(h)]) = 0 /\ h[Len(h)].at <= at
    BY <1>1, <1>2 DEF After
  <1>. QED BY <1>1, <1>2, <1>3, <1>4 DEF Explains

(* register().                                                              *)
LEMMA RegisterExplained ==
    ASSUME IInv, Explained, NEW r \in Runs, NEW at \in Times, Register(r, at)
    PROVE  Explained'
  <1>1. at \in Nat
    BY DEF IInv, LedgerAssumption
  <1>2. runs' = [runs EXCEPT ![r] = [state |-> "PAUSED", next |-> 0, lastAt |-> at]]
    BY DEF Register
  <1>3. audit' = [audit EXCEPT ![r] = @ \o <<Event("REGISTERED", 0, at, NoDetail)>>]
    BY DEF Register, Log, NoDetail
  <1>4. runs \in [Runs -> Rows] /\ audit \in [Runs -> Seq(Entries)]
    BY DEF IInv, TypeOK
  <1>5. \A q \in Runs : q # r => audit'[q] = audit[q] /\ runs'[q] = runs[q]
    BY <1>2, <1>3, <1>4
  <1>6. audit[r] = <<>>
    BY DEF Register, Explained, Explains
  <1>. PICK e : e = Event("REGISTERED", 0, at, NoDetail)
    OBVIOUS
  <1>7. audit'[r] = <<>> \o <<e>> /\ runs'[r] = [state |-> "PAUSED", next |-> 0, lastAt |-> at]
    BY <1>2, <1>3, <1>4, <1>6
  <1>8. audit'[r] = <<Event("REGISTERED", 0, at, NoDetail)>>
    BY <1>7
  <1>9. Explains(r, audit'[r], runs'[r])
    BY <1>1, <1>7, <1>8, FirstExplains, NoDetailType
  <1>. QED BY <1>5, <1>9, OtherRunsExplained

(* start and pause.                                                         *)
LEMMA SetRunningExplained ==
    ASSUME IInv, Explained, NEW r \in Runs, NEW running \in BOOLEAN, NEW at \in Times,
           SetRunning(r, running, at)
    PROVE  Explained'
  <1>. PICK state \in {"RUNNING", "PAUSED"} : state = IF running THEN "RUNNING" ELSE "PAUSED"
    OBVIOUS
  <1>1. at \in Nat
    BY DEF IInv, LedgerAssumption
  <1>2. /\ runs[r] \in Rows /\ audit[r] \in Seq(Entries) /\ Explains(r, audit[r], runs[r])
        /\ runs[r].next \in Nat /\ runs[r].lastAt \in Nat
    BY RowFacts DEF Explained
  <1>3. runs[r].state \in {"PAUSED", "RUNNING"} /\ at >= runs[r].lastAt
    BY DEF SetRunning, States, Terminal
  <1>4. runs' = [runs EXCEPT ![r] = [state |-> state, next |-> @.next, lastAt |-> at]]
    BY DEF SetRunning
  <1>5. \/ audit' = [audit EXCEPT ![r] = @ \o <<Event(state, runs[r].next, at, NoDetail)>>]
        \/ audit' = audit /\ runs[r].state = state
    BY DEF SetRunning, Log, NoDetail
  <1>6. runs \in [Runs -> Rows] /\ audit \in [Runs -> Seq(Entries)]
    BY DEF IInv, TypeOK
  <1>7. /\ \A q \in Runs : q # r => audit'[q] = audit[q] /\ runs'[q] = runs[q]
        /\ runs'[r] = [state |-> state, next |-> runs[r].next, lastAt |-> at]
    BY <1>4, <1>5, <1>6
  <1>8. Explains(r, audit'[r], runs'[r])
    <2>1. CASE audit' = audit /\ runs[r].state = state
      BY <1>1, <1>2, <1>3, <1>7, <2>1, ClockExplains
    <2>2. CASE audit' = [audit EXCEPT ![r] = @ \o <<Event(state, runs[r].next, at, NoDetail)>>]
      <3>1. audit'[r] = audit[r] \o <<Event(state, runs[r].next, at, NoDetail)>>
        BY <1>6, <2>2
      <3>2. state \in States /\ state # "COMPLETE"
        BY DEF States
      <3>3. Explains(r, audit[r] \o <<Event(state, runs[r].next, at, NoDetail)>>,
                     [state |-> state, next |-> runs[r].next, lastAt |-> at])
        BY <1>1, <1>2, <1>3, <3>2, TransitionExplains, NoDetailType
      <3>. QED BY <1>7, <3>1, <3>3
    <2>. QED BY <1>5, <2>1, <2>2
  <1>. QED BY <1>7, <1>8, OtherRunsExplained

(* A tick appends its steps, and the transition it ends with, if any.       *)
Appends(r, at, index, error, done, steps, state) ==
    /\ index = runs[r].next + done
    /\ StepEntries(steps, runs[r].next, done, at, NoDetail)
    /\ state = "COMPLETE" => index = Total(r)
    /\ runs' = [runs EXCEPT ![r] = [state |-> state, next |-> index, lastAt |-> at]]
    /\ audit' = [audit EXCEPT ![r] = @ \o (steps \o
            (IF state = "RUNNING" THEN <<>> ELSE <<Event(state, index, at, error)>>))]

(* The commit of a tick, in that form.                                      *)
LEMMA CommitAppends ==
    ASSUME IInv, NEW r \in Runs, NEW at \in Nat, NEW error \in Details,
           NEW index \in runs[r].next .. Total(r), Commit(r, at, index, error)
    PROVE  \E done \in Nat, steps \in Seq(Entries), state \in {"FAILED", "COMPLETE", "RUNNING"} :
                Appends(r, at, index, error, done, steps, state)
  <1>. PICK a \in Nat : a = runs[r].next
    BY RowFacts
  <1>1. Total(r) \in Nat
    BY TotalType DEF IInv
  <1>2. index \in Nat /\ index - a \in Nat
    BY <1>1, IntervalFacts
  <1>. PICK done \in Nat : done = index - a
    BY <1>2
  <1>3. index = a + done
    BY <1>2
  <1>. PICK steps : steps = [i \in 1 .. done |-> Event("STEP", a + i - 1, at, NoDetail)]
    OBVIOUS
  <1>. PICK state : state = IF error # "" THEN "FAILED"
                            ELSE IF index = Total(r) THEN "COMPLETE" ELSE "RUNNING"
    OBVIOUS
  <1>4. state \in {"FAILED", "COMPLETE", "RUNNING"} /\ (state = "COMPLETE" => index = Total(r))
    OBVIOUS
  <1>5. StepEntries(steps, a, done, at, NoDetail)
    <2>1. ASSUME NEW i \in 1 .. done PROVE Event("STEP", a + i - 1, at, NoDetail) \in Entries
      <3>1. PICK m \in Nat : m = a + i - 1
        BY StepNumber
      <3>2. "STEP" \in States \cup {"REGISTERED", "STEP"}
        OBVIOUS
      <3>. QED BY <3>1, <3>2, NoDetailType, EntryFacts
    <2>2. steps \in [1 .. done -> Entries]
      BY <2>1
    <2>3. steps \in Seq(Entries) /\ Len(steps) = done
      BY <2>2, FunctionSeq, FunctionLength
    <2>. QED BY <2>3 DEF StepEntries
  <1>6. runs' = [runs EXCEPT ![r] = [state |-> state, next |-> index, lastAt |-> at]]
    BY DEF Commit
  <1>7. audit' = [audit EXCEPT ![r] = @ \o (steps \o
                        (IF state = "RUNNING" THEN <<>>
                         ELSE <<Event(state, index, at, error)>>))]
    BY DEF Commit, Log, NoDetail
  <1>8. Appends(r, at, index, error, done, steps, state)
    BY <1>3, <1>4, <1>5, <1>6, <1>7 DEF Appends
  <1>. QED BY <1>4, <1>5, <1>8 DEF StepEntries

(* Steps and transition appended at once are appended one after the other.  *)
AppendsBoth(x, h, steps, t) == x = h \o (steps \o t)

LEMMA AppendTwice ==
    ASSUME NEW h \in Seq(Entries), NEW steps \in Seq(Entries), NEW t \in Seq(Entries),
           NEW x, AppendsBoth(x, h, steps, t)
    PROVE  x = (h \o steps) \o t
  BY ConcatAssociative DEF AppendsBoth

LEMMA RunningRow ==
    ASSUME NEW next \in Nat, NEW at \in Nat
    PROVE  [state |-> "RUNNING", next |-> next, lastAt |-> at] \in Rows
  BY DEF Rows, States

(* The end of a tick.                                                       *)
LEMMA CommitExplained ==
    ASSUME IInv, Explained, NEW r \in Runs, runs[r].state = "RUNNING",
           NEW at \in Nat, at >= runs[r].lastAt, NEW error \in Details,
           NEW index \in runs[r].next .. Total(r),
           \A i \in runs[r].next + 1 .. index : IsDue(r, i, at),
           Commit(r, at, index, error)
    PROVE  Explained'
  <1>0. PICK done \in Nat, steps \in Seq(Entries),
             state \in {"FAILED", "COMPLETE", "RUNNING"} :
            Appends(r, at, index, error, done, steps, state)
    BY CommitAppends
  <1>1. /\ index = runs[r].next + done
        /\ StepEntries(steps, runs[r].next, done, at, NoDetail)
        /\ state = "COMPLETE" => index = Total(r)
        /\ runs' = [runs EXCEPT ![r] = [state |-> state, next |-> index, lastAt |-> at]]
        /\ audit' = [audit EXCEPT ![r] = @ \o (steps \o
                (IF state = "RUNNING" THEN <<>> ELSE <<Event(state, index, at, error)>>))]
    BY <1>0 DEF Appends
  <1>. PICK h \in Seq(Entries), a \in Nat, b \in Nat :
            /\ h = audit[r] /\ a = runs[r].next /\ b = runs[r].lastAt
            /\ runs[r] = [state |-> "RUNNING", next |-> a, lastAt |-> b]
    BY RowFacts
  <1>2. Explains(r, h, [state |-> "RUNNING", next |-> a, lastAt |-> b])
    BY DEF Explained
  <1>3. DueJobs(r, a, done, at)
    <2>. SUFFICES ASSUME NEW i \in 1 .. done PROVE IsDue(r, a + i, at)
      BY DEF DueJobs
    <2>1. a + i \in a + 1 .. a + done
      OBVIOUS
    <2>. QED BY <1>1, <2>1
  <1>4. steps \in Seq(Entries) /\ StepEntries(steps, a, done, at, NoDetail)
    BY <1>1 DEF StepEntries
  <1>5. PICK g \in Seq(Entries) : g = h \o steps /\ Extends(g, h, steps)
    BY <1>4, ConcatExtends
  <1>6. Explains(r, g, [state |-> "RUNNING", next |-> a + done, lastAt |-> at])
    BY <1>2, <1>3, <1>4, <1>5, NoDetailType, StepsExplain
  <1>7. runs \in [Runs -> Rows] /\ audit \in [Runs -> Seq(Entries)]
    BY DEF IInv, TypeOK
  <1>8. /\ \A q \in Runs : q # r => audit'[q] = audit[q] /\ runs'[q] = runs[q]
        /\ runs'[r] = [state |-> state, next |-> a + done, lastAt |-> at]
    BY <1>1, <1>7
  <1>9. CASE state = "RUNNING"
    <2>1. audit'[r] = h \o (steps \o <<>>)
      BY <1>1, <1>7, <1>9
    <2>2. steps \o <<>> = steps
      BY <1>4
    <2>3. audit'[r] = g
      BY <1>5, <2>1, <2>2
    <2>4. Explains(r, audit'[r], runs'[r])
      BY <1>6, <1>8, <1>9, <2>3
    <2>. QED BY <1>8, <2>4, OtherRunsExplained
  <1>10. CASE state # "RUNNING"
    <2>0. a + done \in Nat
      OBVIOUS
    <2>1. PICK row \in Rows : row = [state |-> "RUNNING", next |-> a + done, lastAt |-> at]
      BY <2>0, RunningRow
    <2>2. row.state \in {"PAUSED", "RUNNING"} /\ row.next = a + done /\ row.lastAt = at
      BY <2>1
    <2>3. state \in States /\ (state = "COMPLETE" => row.next = Total(r)) /\ at >= row.lastAt
      BY <1>1, <2>2 DEF States
    <2>4. Explains(r, g \o <<Event(state, row.next, at, error)>>,
                   [state |-> state, next |-> row.next, lastAt |-> at])
      BY <1>6, <2>1, <2>2, <2>3, TransitionExplains
    <2>5. PICK e : e = Event(state, a + done, at, error)
      OBVIOUS
    <2>6. e \in Entries
      <3>1. state \in States \cup {"REGISTERED", "STEP"} /\ a + done \in Nat
        BY <2>3
      <3>. QED BY <2>5, <3>1, EntryFacts
    <2>7. audit'[r] = h \o (steps \o <<e>>)
      BY <1>1, <1>7, <1>10, <2>5
    <2>8. PICK t \in Seq(Entries) : t = <<e>>
      BY <2>6, SingletonSeq
    <2>9. AppendsBoth(audit'[r], h, steps, t)
      BY <2>7, <2>8 DEF AppendsBoth
    <2>10. audit'[r] = (h \o steps) \o t
      BY <2>9, AppendTwice
    <2>11. audit'[r] = g \o <<e>>
      BY <1>5, <2>8, <2>10
    <2>12. Explains(r, audit'[r], runs'[r])
      BY <1>8, <2>2, <2>4, <2>5, <2>11
    <2>. QED BY <1>8, <2>12, OtherRunsExplained
  <1>. QED BY <1>9, <1>10

(* Every transaction keeps every audit the explanation of its run.          *)
LEMMA StepExplained == IInv /\ Explained /\ [Next]_ledgerVars => Explained'
  <1>. SUFFICES ASSUME IInv, Explained, [Next]_ledgerVars PROVE Explained'
    OBVIOUS
  <1>1. CASE UNCHANGED ledgerVars
    <2>. SUFFICES ASSUME NEW q \in Runs PROVE Explains(q, audit'[q], runs'[q])
      BY DEF Explained, Explains, After, Follows, IsLastTransition, IsDue, Total
    <2>. QED BY <1>1 DEF ledgerVars, Explained
  <1>2. CASE Next
    <2>. PICK r \in Runs, at \in Times :
            \/ Register(r, at)
            \/ \E running \in BOOLEAN : SetRunning(r, running, at)
            \/ \E n \in 1 .. MaxJobs : Tick(r, at, n)
      BY <1>2 DEF Next
    <2>1. CASE Register(r, at)
      BY <2>1, RegisterExplained
    <2>2. CASE \E running \in BOOLEAN : SetRunning(r, running, at)
      BY <2>2, SetRunningExplained
    <2>3. CASE \E n \in 1 .. MaxJobs : Tick(r, at, n)
      <3>1. /\ runs[r].state = "RUNNING" /\ at >= runs[r].lastAt
            /\ \E index \in runs[r].next .. Total(r), error \in Details :
                /\ \A i \in runs[r].next + 1 .. index : IsDue(r, i, at)
                /\ Commit(r, at, index, error)
        BY <2>3 DEF Tick, Details
      <3>2. at \in Nat
        BY DEF IInv, LedgerAssumption
      <3>. QED BY <3>1, <3>2, CommitExplained
    <2>. QED BY <2>1, <2>2, <2>3
  <1>. QED BY <1>1, <1>2

(* The audit of a run replays to its row: whatever was registered, started, *)
(* paused and ticked, and when, the entries name every step once and in     *)
(* order, and the last of them is where the run stands.                     *)
THEOREM AuditStaysExplained == LedgerAssumption /\ Spec => []AuditExplainsRun
  <1>1. Init => Explained
    <2>. SUFFICES ASSUME Init, NEW r \in Runs PROVE Explains(r, audit[r], runs[r])
      BY DEF Explained
    <2>1. audit[r] = <<>> /\ Len(audit[r]) = 0 /\ runs[r].state = "ABSENT"
      BY DEF Init, NoRun
    <2>. QED BY <2>1 DEF Explains
  <1>2. Explained => AuditExplainsRun
    BY DEF Explained, Explains, AuditExplainsRun
  <1>. QED BY <1>1, <1>2, StepExplained, LedgerInvariant, PTL DEF Spec
=============================================================================
