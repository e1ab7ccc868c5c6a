--------------------------- MODULE CaptureProofs ----------------------------
(***************************************************************************)
(* Proofs about the captures, about their paper evaluation, about the      *)
(* histories of facts that sources revise, and about the calls of a        *)
(* provider.                                                               *)
(*                                                                         *)
(* The coordinator, for any number of processes, cycles and bars, any caps *)
(* and any clock: what is sealed is all that was known, what is answered   *)
(* comes from the seal, the audit is in order, and the coordinator keeps   *)
(* the promise of CaptureOnce.  Only the process that holds the guard      *)
(* moves the durable clock, so the time a call carries from one commit to  *)
(* the next is still the last time that was used, and nothing is received  *)
(* behind a seal.                                                          *)
(*                                                                         *)
(* The evaluations, for any number of processes, evaluations that share    *)
(* decisions, and measurements: a stored result is explained by an attempt *)
(* and by the journal, receipts are the traces of attempts, and nothing    *)
(* that was stored is written again.  No attempt is claimed while the      *)
(* second transaction of another is in progress, so the attempt that       *)
(* stores its result is still the latest, and attempts are claimed in the  *)
(* order of their times, so a receipt never lies ahead of the last attempt *)
(* that shares it.                                                         *)
(*                                                                         *)
(* The histories, for any sources, versions, collectors, times, requests   *)
(* and interleaving of batches.  The three keys of a fact end with its     *)
(* identity, so each orders the facts of a time strictly; what is selected *)
(* from facts in order is the selected facts in order, so every history is *)
(* a set of facts in the order of its key, and the contracts and what the  *)
(* engines tell of each other are facts about sets: of a key, nothing is   *)
(* left but the version that no version known by then supersedes, and a    *)
(* version that no version supersedes is superseded by none of those that  *)
(* a filter leaves.                                                        *)
(*                                                                         *)
(* The calls, for any interval, items, pages and caps.  A page holds the   *)
(* first of the items its token leaves, so no item lies between a page and *)
(* the place where the next one begins.  An item that is published late    *)
(* only moves others away from the front, so what lies before a token was  *)
(* always before it or has been fetched.                                   *)
(***************************************************************************)
EXTENDS CaptureCycle, PaperEvaluation, FactHistory, MarketFeed,
        OrderProofs

(* What execute() carries from one of its commits to the next.              *)
CaptureCalls ==
    {Idle}
    \cup [pc : {"giveUp", "claim", "receive", "research"}, cycle : Cycles]
    \cup [pc : {"append", "replay"}, cycle : Cycles, receiptAt : Times]
    \cup [pc : {"seal"}, cycle : Cycles, receiptAt : Times, asOf : Times,
          observations : SUBSET Observations]
    \cup [pc : {"complete"}, cycle : Cycles, result : Results]

Shapes ==
    /\ cycles = [c \in Cycles |->
                    [state |-> cycles[c].state, seal |-> cycles[c].seal,
                     result |-> cycles[c].result]]
    /\ audit = [c \in Cycles |-> audit[c]]
    /\ call \in [Processes -> CaptureCalls]

(* The row of a cycle says whether its batch was received.                  *)
RowsCountBatches ==
    \A c \in Cycles :
        /\ cycles[c].state = "ABSENT" => acquired[c] = 0
        /\ cycles[c].state = "INPUTS_SEALED" => acquired[c] = 1

BatchIn(c, at, S) == \A t \in Batch[c] : \E o \in S : o.cycle = c /\ o.bar = t /\ o.at = at

(* A call stands where the row of its cycle says, and its last time is the  *)
(* last time that was used.                                                 *)
InStep(k) ==
    /\ k.pc = "claim" => cycles[k.cycle].state = "ABSENT"
    /\ k.pc \in {"giveUp", "receive", "append", "replay", "seal"}
        => cycles[k.cycle].state = "ACQUIRING"
    /\ k.pc \in {"research", "complete"} => cycles[k.cycle].state = "INPUTS_SEALED"
    /\ k.pc \in {"receive", "append"} => acquired[k.cycle] = 0
    /\ k.pc \in {"replay", "seal"} => acquired[k.cycle] = 1
    /\ k.pc = "receive" => ScheduledAt[k.cycle] <= lastAt
    /\ k.pc \in {"append", "replay"} => k.receiptAt = lastAt
    /\ k.pc \in {"append", "replay", "seal"} => ScheduledAt[k.cycle] <= k.receiptAt
    /\ k.pc \in {"replay", "seal"} => BatchIn(k.cycle, k.receiptAt, store)
    /\ k.pc = "seal" =>
        /\ k.asOf = lastAt /\ k.receiptAt <= k.asOf
        /\ k.observations = store
        /\ \A o \in store : o.at <= k.receiptAt
        /\ Cardinality(store) <= MaxObservations
    /\ k.pc = "complete" =>
        LET seal == cycles[k.cycle].seal IN
        /\ k.result.completedAt = lastAt
        /\ k.result.history = History(seal.observations)
        /\ ~Rejected(k.result.history, seal.asOf)

CallsAreInStep == \A p \in Processes : InStep(call[p])

(* Receipts have ids of their own, and the revisions of a bar are few       *)
(* enough for one of them to be the latest.                                 *)
StoreIsSound ==
    /\ \A o \in store : o.at <= lastAt
    /\ \A o, other \in store : o.id = other.id => o = other
    /\ \A t \in Sessions : \E m \in Ids \cup {0} : \A o \in store : o.bar = t => o.id <= m

(* What is sealed was valid when it was sealed, and its cutoff is over.     *)
SealsAreSound ==
    \A c \in Cycles : Sealed(c) =>
        LET seal == cycles[c].seal IN
        /\ ValidSeal(c, seal)
        /\ \A o \in seal.observations : o.at <= seal.receiptAt
        /\ {o \in store : o.at < seal.asOf} \subseteq seal.observations
        /\ seal.observations \subseteq store
        /\ seal.asOf <= lastAt

ResultIsSound(row) ==
    row.state = "COMPLETE" =>
        /\ row.result.history = History(row.seal.observations)
        /\ ~Rejected(row.result.history, row.seal.asOf)

ResultsAreSound == \A c \in Cycles : ResultIsSound(cycles[c])

EventIsSound(c, i) ==
    LET e == audit[c][i] IN
    /\ e.stage = "INPUTS_SEALED" => Sealed(c) /\ e.at = cycles[c].seal.sealedAt
    /\ e.stage = "COMPLETE" =>
        cycles[c].state = "COMPLETE" /\ e.at = cycles[c].result.completedAt
    /\ e.at <= lastAt
    /\ \A j \in 1 .. i : audit[c][j].at <= e.at

AuditIsSound == \A c \in Cycles : \A i \in 1 .. Len(audit[c]) : EventIsSound(c, i)

(* The inductive invariant.                                                 *)
IInv ==
    /\ CaptureAssumption
    /\ Shapes /\ TypeOK
    /\ RowsCountBatches
    /\ CallsAreInStep
    /\ StoreIsSound
    /\ SealsAreSound
    /\ ResultsAreSound
    /\ AuditIsSound


-----------------------------------------------------------------------------
(* The rows as TypeOK has them.                                             *)
RowsAreTyped ==
    \A c \in Cycles :
        /\ cycles[c].state \in States \cup {"ABSENT"}
        /\ cycles[c].seal # None => cycles[c].seal \in Seals
        /\ cycles[c].result # None => cycles[c].result \in Results
        /\ cycles[c].state \in {"ABSENT", "ACQUIRING", "UNRESOLVED"} => cycles[c].seal = None
        /\ cycles[c].state \in {"INPUTS_SEALED", "COMPLETE"} => cycles[c].seal # None
        /\ (cycles[c].state = "COMPLETE") <=> (cycles[c].result # None)
        /\ audit[c] \in Seq([stage : States, at : Times])

(* What is said of rows, and what is said of calls.                         *)
RowsInv ==
    /\ cycles = [c \in Cycles |->
                    [state |-> cycles[c].state, seal |-> cycles[c].seal,
                     result |-> cycles[c].result]]
    /\ audit = [c \in Cycles |-> audit[c]]
    /\ RowsAreTyped
    /\ RowsCountBatches
    /\ SealsAreSound
    /\ ResultsAreSound
    /\ AuditIsSound

CallsInv ==
    /\ call \in [Processes -> CaptureCalls]
    /\ guard \in Processes \cup {None}
    /\ \A p \in Processes : call[p] # Idle <=> guard = p
    /\ CallsAreInStep

StoreInv ==
    /\ lastAt \in Times
    /\ store \subseteq Observations
    /\ acquired \in [Cycles -> Nat]
    /\ StoreIsSound

(* The inductive invariant, in the groups the steps change.                 *)
LEMMA IInvParts == IInv <=> CaptureAssumption /\ RowsInv /\ CallsInv /\ StoreInv
  BY DEF IInv, Shapes, TypeOK, RowsInv, RowsAreTyped, CallsInv, StoreInv

(* The same one step later.                                                 *)
LEMMA IInvPartsNext ==
    CaptureAssumption /\ RowsInv' /\ CallsInv' /\ StoreInv' => IInv'
  BY DEF IInv, Shapes, TypeOK, RowsInv, RowsAreTyped, CallsInv, StoreInv, CaptureAssumption

(* The guard keeps every other call out.                                    *)
LEMMA OneCall ==
    ASSUME CallsInv, CaptureAssumption, NEW p \in Processes, call[p] # Idle
    PROVE  guard = p /\ \A q \in Processes \ {p} : call[q] = Idle
  BY DEF CallsInv, CaptureAssumption

(* A call that leaves is the only one, and nobody calls afterwards.         *)
LEMMA LeaveInv ==
    ASSUME CallsInv, CaptureAssumption, NEW p \in Processes, call[p] # Idle, Leave(p)
    PROVE  CallsInv'
  <1>1. \A q \in Processes : call'[q] = Idle
    BY OneCall DEF Leave, CallsInv
  <1>2. call' \in [Processes -> CaptureCalls]
    BY <1>1 DEF Leave, CallsInv, CaptureCalls
  <1>3. CallsAreInStep'
    BY <1>1 DEF CallsAreInStep, InStep, Idle
  <1>. QED BY <1>1, <1>2, <1>3 DEF Leave, CallsInv, CaptureAssumption

(* A call that goes on is the only one and stands where it should.          *)
LEMMA GoOnInv ==
    ASSUME CallsInv, CaptureAssumption, NEW p \in Processes, NEW k \in CaptureCalls,
           call[p] # Idle \/ guard = None, k # Idle,
           call' = [call EXCEPT ![p] = k], guard' = p, InStep(k)'
    PROVE  CallsInv'
  <1>1. \A q \in Processes : call'[q] = IF q = p THEN k ELSE Idle
    BY OneCall DEF CallsInv, CaptureAssumption
  <1>2. call' \in [Processes -> CaptureCalls]
    BY DEF CallsInv
  <1>3. CallsAreInStep'
    BY <1>1 DEF CallsAreInStep, InStep, Idle
  <1>. QED BY <1>1, <1>2, <1>3 DEF CallsInv, CaptureAssumption

(* What SealsAreSound says of one cycle.                                    *)
SealIsSound(c, seal) ==
    /\ ValidSeal(c, seal)
    /\ \A o \in seal.observations : o.at <= seal.receiptAt
    /\ {o \in store : o.at < seal.asOf} \subseteq seal.observations
    /\ seal.observations \subseteq store
    /\ seal.asOf <= lastAt

LEMMA ElementOfSeq ==
    ASSUME NEW S, NEW s \in Seq(S), NEW i \in 1 .. Len(s)
    PROVE  s[i] \in S
  OBVIOUS

(* One more event, dated no earlier than those before it.                   *)
LEMMA AppendEvent ==
    ASSUME NEW S, NEW log \in Seq(S), NEW e \in S
    PROVE  /\ Append(log, e) \in Seq(S)
           /\ Len(Append(log, e)) = Len(log) + 1 /\ Len(log) \in Nat
           /\ \A i \in 1 .. Len(log) : Append(log, e)[i] = log[i]
           /\ Append(log, e)[Len(log) + 1] = e
  OBVIOUS

(* A cycle moves on: the rows stay sound when the new row is.               *)
LEMMA TransitionInv ==
    ASSUME CaptureAssumption, RowsInv, StoreInv,
           NEW c \in Cycles, NEW to \in States, NEW at \in Times, NEW seal, NEW result,
           Transition(c, to, at, seal, result),
           store' = store, acquired' = acquired,
           lastAt' \in Times, lastAt <= at, at <= lastAt',
           cycles[c].state \in {"ABSENT", "ACQUIRING", "INPUTS_SEALED"},
           \/ to = "INPUTS_SEALED" /\ ~Sealed(c) /\ acquired[c] = 1
              /\ seal \in Seals /\ seal.sealedAt = at /\ SealIsSound(c, seal)'
           \/ to # "INPUTS_SEALED" /\ seal = cycles[c].seal,
           to \in {"ACQUIRING", "UNRESOLVED"} => seal = None,
           to = "COMPLETE" =>
                /\ seal # None /\ result \in Results /\ result.completedAt = at
                /\ result.history = History(seal.observations)
                /\ ~Rejected(result.history, seal.asOf),
           to # "COMPLETE" => result = None
    PROVE  RowsInv'
  <1>. DEFINE Row == [state |-> to, seal |-> seal, result |-> result]
              Event == [stage |-> to, at |-> at]
  <1>t. lastAt \in Nat /\ at \in Nat /\ lastAt' \in Nat /\ lastAt <= lastAt'
    <2>1. Times \subseteq Nat
      BY DEF CaptureAssumption
    <2>2. lastAt \in Times
      BY DEF StoreInv
    <2>3. lastAt \in Nat /\ at \in Nat /\ lastAt' \in Nat
      BY <2>1, <2>2
    <2>. QED BY <2>3
  <1>a. RowsAreTyped!(c) /\ Event \in [stage : States, at : Times]
    BY DEF RowsInv, RowsAreTyped
  <1>e. \A d \in Cycles : \A i \in 1 .. Len(audit[d]) :
            EventIsSound(d, i) /\ audit[d][i].at \in Nat /\ audit[d][i].at <= lastAt
    <2>1. ASSUME NEW d \in Cycles, NEW i \in 1 .. Len(audit[d]) PROVE audit[d][i].at \in Nat
      <3>1. audit[d] \in Seq([stage : States, at : Times])
        BY DEF RowsInv, RowsAreTyped
      <3>2. audit[d][i] \in [stage : States, at : Times]
        BY <3>1, ElementOfSeq
      <3>. QED BY <3>2 DEF CaptureAssumption
    <2>2. AuditIsSound
      BY DEF RowsInv
    <2>. QED BY <2>1, <2>2 DEF AuditIsSound, EventIsSound
  <1>1. /\ cycles'[c] = Row
        /\ \A d \in Cycles \ {c} : cycles'[d] = cycles[d]
        /\ cycles' = [d \in Cycles |->
                        [state |-> cycles'[d].state, seal |-> cycles'[d].seal,
                         result |-> cycles'[d].result]]
    <2>1. cycles' = [cycles EXCEPT ![c] = Row]
      BY DEF Transition
    <2>2. cycles'[c] = Row /\ \A d \in Cycles \ {c} : cycles'[d] = cycles[d]
      BY <2>1 DEF RowsInv
    <2>3. cycles' = [d \in Cycles |-> IF d = c THEN Row ELSE cycles[d]]
      BY <2>1 DEF RowsInv
    <2>. QED BY <2>2, <2>3 DEF RowsInv
  <1>2. /\ audit'[c] = Append(audit[c], Event)
        /\ \A d \in Cycles \ {c} : audit'[d] = audit[d]
        /\ audit' = [d \in Cycles |-> audit'[d]]
    BY DEF Transition, RowsInv
  <1>. HIDE DEF Row, Event
  <1>r. Row.state = to /\ Row.seal = seal /\ Row.result = result
    BY DEF Row
  <1>3. RowsAreTyped'
    <2> SUFFICES ASSUME NEW d \in Cycles PROVE RowsAreTyped!(d)'
      BY DEF RowsAreTyped
    <2>1. CASE d # c
      BY <1>1, <1>2, <2>1 DEF RowsInv, RowsAreTyped
    <2>2. CASE d = c
      <3>1. audit'[c] \in Seq([stage : States, at : Times])
        BY <1>a, <1>2, AppendEvent
      <3>2. result = None <=> to # "COMPLETE"
        BY DEF CaptureAssumption
      <3>3. to = "INPUTS_SEALED" => seal # None
        BY DEF CaptureAssumption
      <3>4. seal # None => seal \in Seals
        BY <1>a
      <3>5. to \in States \cup {"ABSENT"} /\ (to = "COMPLETE" => seal # None) /\ to # "ABSENT"
        BY DEF States
      <3>6. result # None => result \in Results
        OBVIOUS
      <3>. QED BY <1>1, <1>r, <2>2, <3>1, <3>2, <3>3, <3>4, <3>5, <3>6
    <2>. QED BY <2>1, <2>2
  <1>4. RowsCountBatches'
    BY <1>1, <1>r DEF RowsInv, RowsCountBatches, States
  <1>5. SealsAreSound'
    <2> SUFFICES ASSUME NEW d \in Cycles, Sealed(d)' PROVE SealIsSound(d, cycles[d].seal)'
      BY DEF SealsAreSound, SealIsSound
    <2>1. CASE Sealed(d) /\ cycles'[d].seal = cycles[d].seal
      <3>1. SealIsSound(d, cycles[d].seal) /\ cycles[d].seal.asOf \in Nat
        BY <2>1 DEF RowsInv, RowsAreTyped, SealsAreSound, SealIsSound, Sealed, Seals, CaptureAssumption
      <3>. QED BY <1>t, <2>1, <3>1 DEF SealIsSound, ValidSeal
    <2>2. CASE d = c /\ to = "INPUTS_SEALED"
      BY <1>1, <1>r, <2>2
    <2>. QED BY <1>1, <1>r, <2>1, <2>2 DEF Sealed
  <1>6. ResultsAreSound'
    <2>1. ResultIsSound(cycles'[c])
      BY <1>1, <1>r DEF ResultIsSound
    <2>2. \A d \in Cycles \ {c} : ResultIsSound(cycles'[d])
      BY <1>1 DEF RowsInv, ResultsAreSound
    <2>. QED BY <2>1, <2>2 DEF ResultsAreSound
  <1>7. AuditIsSound'
    <2> SUFFICES ASSUME NEW d \in Cycles, NEW i \in 1 .. Len(audit'[d])
                 PROVE  EventIsSound(d, i)'
      BY DEF AuditIsSound
    <2>a. audit[c] \in Seq([stage : States, at : Times]) /\ Len(audit[c]) \in Nat
      BY <1>a
    <2>1. CASE d # c
      <3>1. audit'[d] = audit[d] /\ cycles'[d] = cycles[d] /\ i \in 1 .. Len(audit[d])
        BY <1>1, <1>2, <2>1
      <3>2. EventIsSound(d, i) /\ audit[d][i].at \in Nat
        BY <1>e, <3>1
      <3>. QED BY <1>t, <3>1, <3>2 DEF EventIsSound, Sealed
    <2>2. CASE d = c /\ i \in 1 .. Len(audit[c])
      <3>1. \A j \in 1 .. i : j \in 1 .. Len(audit[c]) /\ audit'[c][j] = audit[c][j]
        BY <1>a, <1>2, <2>a, <2>2, AppendEvent
      <3>2. i \in 1 .. i /\ audit[c][i].at \in Nat /\ EventIsSound(c, i)
        BY <1>e, <2>a, <2>2
      <3>3. /\ Sealed(c) => Sealed(c)' /\ cycles'[c].seal = cycles[c].seal
            /\ cycles[c].state # "COMPLETE"
        BY <1>1, <1>r DEF Sealed
      <3>4. audit'[c][i] = audit[c][i]
        BY <3>1, <3>2
      <3>5. \A j \in 1 .. i : audit[c][j].at <= audit[c][i].at
        BY <3>2 DEF EventIsSound
      <3>6. audit[c][i].at <= lastAt'
        BY <1>t, <3>2 DEF EventIsSound
      <3>. QED BY <2>2, <3>1, <3>2, <3>3, <3>4, <3>5, <3>6 DEF EventIsSound
    <2>3. CASE d = c /\ i = Len(audit[c]) + 1
      <3>1. audit'[c][i] = Event /\ \A j \in 1 .. i - 1 : audit'[c][j] = audit[c][j]
        BY <1>a, <1>2, <2>a, <2>3, AppendEvent
      <3>2. \A j \in 1 .. i - 1 : audit[c][j].at <= lastAt /\ audit[c][j].at \in Nat
        BY <1>e, <2>a, <2>3
      <3>3. \A j \in 1 .. i : j \in 1 .. i - 1 \/ j = i
        BY <2>a, <2>3
      <3>4. /\ to = "INPUTS_SEALED" => Sealed(c)' /\ cycles'[c].seal.sealedAt = at
            /\ to = "COMPLETE" => cycles'[c].state = "COMPLETE" /\ cycles'[c].result.completedAt = at
        BY <1>1, <1>r DEF Sealed, CaptureAssumption
      <3>5. Event.stage = to /\ Event.at = at
        BY DEF Event
      <3>6. \A j \in 1 .. i : audit'[c][j].at <= at
        BY <1>t, <3>1, <3>2, <3>3, <3>5
      <3>. QED BY <1>t, <2>3, <3>1, <3>4, <3>5, <3>6 DEF EventIsSound
    <2>4. i \in 1 .. Len(audit[c]) \/ i = Len(audit[c]) + 1 \/ d # c
      BY <1>a, <1>2, <2>a, AppendEvent
    <2>. QED BY <2>1, <2>2, <2>3, <2>4
  <1>. QED BY <1>1, <1>2, <1>3, <1>4, <1>5, <1>6, <1>7 DEF RowsInv

-----------------------------------------------------------------------------
(* The durable clock moves on and the receipts stay.                        *)
LEMMA ClockInv ==
    ASSUME CaptureAssumption, StoreInv, store' = store, acquired' = acquired,
           lastAt' \in Times, lastAt <= lastAt'
    PROVE  StoreInv'
  <1>1. lastAt \in Nat /\ lastAt' \in Nat /\ \A o \in store : o.at \in Nat
    BY DEF StoreInv, CaptureAssumption, Observations
  <1>. QED BY <1>1 DEF StoreInv, StoreIsSound

(* The same for the rows.                                                   *)
LEMMA RowsStayInv ==
    ASSUME CaptureAssumption, RowsInv, StoreInv,
           UNCHANGED <<cycles, audit, store, acquired>>,
           lastAt' \in Times, lastAt <= lastAt'
    PROVE  RowsInv'
  <1>1. lastAt \in Nat /\ lastAt' \in Nat
    BY DEF StoreInv, CaptureAssumption
  <1>2. RowsAreTyped' /\ RowsCountBatches' /\ ResultsAreSound'
    BY DEF RowsInv, RowsAreTyped, RowsCountBatches, ResultsAreSound
  <1>3. SealsAreSound'
    <2> SUFFICES ASSUME NEW c \in Cycles, Sealed(c)' PROVE SealIsSound(c, cycles[c].seal)'
      BY DEF SealsAreSound, SealIsSound
    <2>1. SealIsSound(c, cycles[c].seal) /\ cycles[c].seal.asOf \in Nat
      BY DEF RowsInv, RowsAreTyped, SealsAreSound, SealIsSound, Sealed, Seals, CaptureAssumption
    <2>. QED BY <1>1, <2>1 DEF SealIsSound, ValidSeal
  <1>4. AuditIsSound'
    <2> SUFFICES ASSUME NEW c \in Cycles, NEW i \in 1 .. Len(audit[c]) PROVE EventIsSound(c, i)'
      BY DEF AuditIsSound
    <2>1. audit[c] \in Seq([stage : States, at : Times])
      BY DEF RowsInv, RowsAreTyped
    <2>2. audit[c][i].at \in Nat
      <3>1. audit[c][i] \in [stage : States, at : Times]
        BY <2>1, ElementOfSeq
      <3>. QED BY <3>1 DEF CaptureAssumption
    <2>3. EventIsSound(c, i)
      BY DEF RowsInv, AuditIsSound
    <2>. QED BY <1>1, <2>2, <2>3 DEF EventIsSound, Sealed
  <1>. QED BY <1>2, <1>3, <1>4 DEF RowsInv

(* No row, no receipt, no call.                                             *)
LEMMA InitInv == CaptureAssumption /\ Init => IInv
  <1> SUFFICES ASSUME CaptureAssumption, Init PROVE IInv
    OBVIOUS
  <1>1. StoreInv
    <2>1. \A t \in Sessions : 0 \in Ids \cup {0} /\ \A o \in store : o.bar = t => o.id <= 0
      BY DEF Init
    <2>2. StoreIsSound
      BY <2>1 DEF Init, StoreIsSound
    <2>. QED BY <2>2 DEF Init, StoreInv
  <1>2. CallsInv
    BY DEF Init, CallsInv, CaptureCalls, CallsAreInStep, InStep, Idle, CaptureAssumption
  <1>3. RowsInv
    BY DEF Init, RowsInv, RowsAreTyped, RowsCountBatches, SealsAreSound, Sealed,
           ResultsAreSound, ResultIsSound, AuditIsSound, NoCycle
  <1>. QED BY <1>1, <1>2, <1>3, IInvParts

(* The guard is taken.                                                      *)
LEMMA EnterInv ==
    ASSUME IInv, NEW p \in Processes, NEW c \in Cycles, Enter(p, c)
    PROVE  IInv'
  <1>1. CaptureAssumption /\ RowsInv /\ CallsInv /\ StoreInv
    BY IInvParts
  <1>2. PICK pc \in {"claim", "giveUp", "research"} :
            /\ cycles[c].state = CASE pc = "claim" -> "ABSENT"
                                   [] pc = "giveUp" -> "ACQUIRING"
                                   [] pc = "research" -> "INPUTS_SEALED"
            /\ call' = [call EXCEPT ![p] = [pc |-> pc, cycle |-> c]]
    BY DEF Enter
  <1>. DEFINE k == [pc |-> pc, cycle |-> c]
  <1>3. k \in CaptureCalls /\ k # Idle
    BY DEF CaptureCalls, Idle
  <1>4. InStep(k)'
    BY <1>2 DEF InStep, Enter
  <1>5. CallsInv'
    BY <1>1, <1>2, <1>3, <1>4, GoOnInv DEF Enter
  <1>6. lastAt <= lastAt' /\ lastAt' \in Times
    BY <1>1 DEF Enter, StoreInv, CaptureAssumption
  <1>. QED BY <1>1, <1>5, <1>6, ClockInv, RowsStayInv, IInvPartsNext DEF Enter

(* A call that is not idle works on one of the cycles.                      *)
LEMMA CallOfCycle ==
    ASSUME CallsInv, NEW p \in Processes, call[p].pc # "idle"
    PROVE  call[p] # Idle /\ call[p].cycle \in Cycles /\ InStep(call[p]) /\ call[p] \in CaptureCalls
  BY DEF CallsInv, CaptureCalls, Idle, CallsAreInStep

LEMMA GiveUpInv ==
    ASSUME IInv, NEW p \in Processes, GiveUp(p)
    PROVE  IInv'
  <1>1. CaptureAssumption /\ RowsInv /\ CallsInv /\ StoreInv
    BY IInvParts
  <1>c. PICK c \in Cycles : call[p].cycle = c
    BY <1>1, CallOfCycle DEF GiveUp
  <1>2. c \in Cycles /\ call[p] # Idle /\ cycles[c].state = "ACQUIRING"
    BY <1>1, <1>c, CallOfCycle DEF GiveUp, InStep
  <1>3. PICK v \in Times : Clock(v) /\ Transition(c, "UNRESOLVED", v, None, None)
    BY <1>c DEF GiveUp
  <1>4. lastAt' = v /\ lastAt <= v /\ v <= lastAt' /\ cycles[c].seal = None
    BY <1>1, <1>2, <1>3 DEF Clock, StoreInv, CaptureAssumption, RowsInv, RowsAreTyped
  <1>5. RowsInv'
    <2>1. "UNRESOLVED" \in States
      BY DEF States
    <2>. QED BY <1>1, <1>2, <1>3, <1>4, <2>1, TransitionInv DEF GiveUp
  <1>6. StoreInv'
    BY <1>1, <1>4, ClockInv DEF GiveUp
  <1>7. CallsInv'
    BY <1>1, <1>2, LeaveInv DEF GiveUp
  <1>. QED BY <1>1, <1>5, <1>6, <1>7, IInvPartsNext

LEMMA ClaimInv ==
    ASSUME IInv, NEW p \in Processes, Claim(p)
    PROVE  IInv'
  <1>1. CaptureAssumption /\ RowsInv /\ CallsInv /\ StoreInv
    BY IInvParts
  <1>c. PICK c \in Cycles : call[p].cycle = c
    BY <1>1, CallOfCycle DEF Claim
  <1>2. c \in Cycles /\ call[p] # Idle /\ call[p] \in CaptureCalls /\ cycles[c].state = "ABSENT"
    BY <1>1, <1>c, CallOfCycle DEF Claim, InStep
  <1>3. PICK v \in Times :
            /\ Clock(v)
            /\ \/ Leave(p) /\ UNCHANGED <<cycles, audit>>
               \/ /\ v >= ScheduledAt[c]
                  /\ Transition(c, "ACQUIRING", v, None, None)
                  /\ call' = [call EXCEPT ![p].pc = "receive"]
                  /\ UNCHANGED guard
    BY <1>c DEF Claim
  <1>4. lastAt' = v /\ lastAt <= v /\ v <= lastAt' /\ ScheduledAt[c] \in Nat
    BY <1>1, <1>2, <1>3 DEF Clock, StoreInv, CaptureAssumption
  <1>5. store' = store /\ acquired' = acquired
    BY <1>c DEF Claim
  <1>6. StoreInv'
    BY <1>1, <1>4, <1>5, ClockInv
  <1>7. CASE Leave(p) /\ UNCHANGED <<cycles, audit>>
    BY <1>1, <1>2, <1>4, <1>5, <1>6, <1>7, LeaveInv, RowsStayInv, IInvPartsNext
  <1>8. CASE /\ v >= ScheduledAt[c]
             /\ Transition(c, "ACQUIRING", v, None, None)
             /\ call' = [call EXCEPT ![p].pc = "receive"]
             /\ UNCHANGED guard
    <2>. DEFINE k == [pc |-> "receive", cycle |-> c]
    <2>1. RowsInv'
      <3>1. "ACQUIRING" \in States /\ cycles[c].seal = None
        BY <1>1, <1>2 DEF States, RowsInv, RowsAreTyped
      <3>. QED BY <1>1, <1>2, <1>4, <1>5, <1>8, <3>1, TransitionInv
    <2>2. k \in CaptureCalls /\ k # Idle
      BY <1>2 DEF CaptureCalls, Idle
    <2>3. call[p] = [pc |-> "claim", cycle |-> c]
      BY <1>c, <1>2 DEF Claim, CaptureCalls, Idle
    <2>4. call' = [call EXCEPT ![p] = k] /\ guard' = p
      <3>1. [call[p] EXCEPT !.pc = "receive"] = k
        BY <2>3
      <3>2. call' = [call EXCEPT ![p] = [call[p] EXCEPT !.pc = "receive"]]
        BY <1>8
      <3>. QED BY <1>1, <1>2, <1>8, <3>1, <3>2, OneCall
    <2>5. InStep(k)'
      <3>1. cycles'[c].state = "ACQUIRING"
        BY <1>1, <1>2, <1>8 DEF Transition, RowsInv
      <3>2. acquired'[c] = 0
        BY <1>1, <1>2, <1>5 DEF RowsInv, RowsCountBatches
      <3>. QED BY <1>4, <1>8, <3>1, <3>2 DEF InStep
    <2>6. CallsInv'
      <3>. HIDE DEF k
      <3>. QED BY <1>1, <1>2, <2>2, <2>4, <2>5, GoOnInv
    <2>. QED BY <1>1, <1>6, <2>1, <2>6, IInvPartsNext
  <1>. QED BY <1>3, <1>7, <1>8

LEMMA ReceiveInv ==
    ASSUME IInv, NEW p \in Processes, Receive(p)
    PROVE  IInv'
  <1>1. CaptureAssumption /\ RowsInv /\ CallsInv /\ StoreInv
    BY IInvParts
  <1>c. PICK c \in Cycles : call[p].cycle = c
    BY <1>1, CallOfCycle DEF Receive
  <1>2. /\ c \in Cycles /\ call[p] # Idle
        /\ cycles[c].state = "ACQUIRING" /\ acquired[c] = 0 /\ ScheduledAt[c] <= lastAt
    BY <1>1, <1>c, CallOfCycle DEF Receive, InStep
  <1>3. PICK v \in Times :
            /\ Clock(v)
            /\ call' = [call EXCEPT ![p] = [pc |-> "append", cycle |-> c, receiptAt |-> v]]
    BY <1>c DEF Receive
  <1>. DEFINE k == [pc |-> "append", cycle |-> c, receiptAt |-> v]
  <1>4. lastAt' = v /\ lastAt <= v /\ ScheduledAt[c] <= v
    BY <1>1, <1>2, <1>3 DEF Clock, StoreInv, CaptureAssumption
  <1>5. StoreInv' /\ RowsInv'
    BY <1>1, <1>4, ClockInv, RowsStayInv DEF Receive
  <1>6. k \in CaptureCalls /\ k # Idle
    BY <1>2 DEF CaptureCalls, Idle
  <1>7. InStep(k)'
    BY <1>2, <1>4 DEF InStep, Receive
  <1>8. guard' = p
    BY <1>1, <1>2, OneCall DEF Receive
  <1>9. CallsInv'
    <2>1. call' = [call EXCEPT ![p] = k]
      BY <1>3
    <2>. HIDE DEF k
    <2>. QED BY <1>1, <1>2, <1>6, <1>7, <1>8, <2>1, GoOnInv
  <1>. QED BY <1>1, <1>5, <1>9, IInvPartsNext

(* What is received is not behind any cutoff, and keeps ids apart.          *)
LEMMA AppendBatchInv ==
    ASSUME IInv, NEW p \in Processes, AppendBatch(p)
    PROVE  IInv'
  <1>1. CaptureAssumption /\ RowsInv /\ CallsInv /\ StoreInv
    BY IInvParts
  <1>c. PICK c \in Cycles : call[p].cycle = c
    BY <1>1, CallOfCycle DEF AppendBatch
  <1>2. /\ c \in Cycles /\ call[p] # Idle /\ call[p] \in CaptureCalls
        /\ cycles[c].state = "ACQUIRING" /\ acquired[c] = 0
        /\ call[p].receiptAt = lastAt /\ ScheduledAt[c] <= lastAt
    BY <1>1, <1>c, CallOfCycle DEF AppendBatch, InStep
  <1>3. PICK id \in [Batch[c] -> Ids] :
        LET batch == {[id |-> id[t], at |-> call[p].receiptAt, bar |-> t, cycle |-> c] :
                        t \in Batch[c]}
            conflict == \/ \E t, u \in Batch[c] : t # u /\ id[t] = id[u]
                        \/ \E o \in batch, other \in store : o.id = other.id
        IN
        \/ Leave(p) /\ UNCHANGED <<store, acquired>>
        \/ /\ ~conflict
           /\ store' = store \cup batch
           /\ acquired' = [acquired EXCEPT ![c] = @ + 1]
           /\ call' = [call EXCEPT ![p].pc = "replay"]
           /\ UNCHANGED guard
    BY <1>c DEF AppendBatch
  <1>4. UNCHANGED <<lastAt, cycles, audit>> /\ lastAt \in Nat /\ lastAt \in Times
    BY <1>1 DEF AppendBatch, StoreInv, CaptureAssumption
  <1>5. CASE Leave(p) /\ UNCHANGED <<store, acquired>>
    <2>1. lastAt' \in Times /\ lastAt <= lastAt'
      BY <1>4
    <2>. QED BY <1>1, <1>2, <1>4, <1>5, <2>1, LeaveInv, RowsStayInv, ClockInv, IInvPartsNext
  <1>. DEFINE Receipt(t) == [id |-> id[t], at |-> lastAt, bar |-> t, cycle |-> c]
              batch == {Receipt(t) : t \in Batch[c]}
  <1>6. CASE /\ \A t, u \in Batch[c] : t # u => id[t] # id[u]
             /\ \A o \in batch, other \in store : o.id # other.id
             /\ store' = store \cup batch
             /\ acquired' = [acquired EXCEPT ![c] = @ + 1]
             /\ call' = [call EXCEPT ![p].pc = "replay"]
             /\ UNCHANGED guard
    <2>1. \A t \in Batch[c] : t \in Sessions /\ t \in Nat /\ id[t] \in Ids /\ id[t] \in Nat
      BY <1>1, <1>2 DEF CaptureAssumption
    <2>2. \A o \in batch : \E t \in Batch[c] :
            o.id = id[t] /\ o.at = lastAt /\ o.bar = t /\ o.cycle = c /\ o \in Observations
      BY <1>2, <1>4, <2>1 DEF Observations
    <2>a. /\ acquired'[c] = 1 /\ \A d \in Cycles \ {c} : acquired'[d] = acquired[d]
          /\ acquired' \in [Cycles -> Nat]
      BY <1>1, <1>2, <1>6 DEF StoreInv
    <2>b. BatchIn(c, lastAt, batch)
      <3>1. \A t \in Batch[c] : Receipt(t) \in batch
        OBVIOUS
      <3>. HIDE DEF batch
      <3>. QED BY <3>1 DEF BatchIn
    <2>. HIDE DEF batch
    <2>3. StoreInv'
      <3>1. store' \subseteq Observations
        BY <1>1, <1>6, <2>2 DEF StoreInv
      <3>2. \A o \in store' : o.at <= lastAt
        BY <1>1, <1>4, <1>6, <2>2 DEF StoreInv, StoreIsSound
      <3>3. \A o, other \in batch : o.id = other.id => o = other
        BY <1>6 DEF batch
      <3>4. \A o, other \in store' : o.id = other.id => o = other
        BY <1>1, <1>6, <3>3 DEF StoreInv, StoreIsSound
      <3>5. ASSUME NEW t \in Sessions
            PROVE  \E m \in Ids \cup {0} : \A o \in store' : o.bar = t => o.id <= m
        <4>1. PICK m \in Ids \cup {0} : \A o \in store : o.bar = t => o.id <= m
          BY <1>1 DEF StoreInv, StoreIsSound
        <4>2. m \in Nat /\ \A o \in store : o.id \in Nat
          <5>1. Ids \subseteq Nat /\ store \subseteq Observations
            BY <1>1 DEF CaptureAssumption, StoreInv
          <5>2. \A o \in Observations : o.id \in Ids
            BY DEF Observations
          <5>3. m \in Nat
            BY <5>1
          <5>. QED BY <5>1, <5>2, <5>3
        <4>3. CASE t \in Batch[c]
          <5>. DEFINE n == IF id[t] <= m THEN m ELSE id[t]
          <5>1. n \in Ids \cup {0} /\ n \in Nat /\ m <= n /\ id[t] <= n
            BY <2>1, <4>2, <4>3
          <5>2. \A o \in batch : o.bar = t => o.id <= n
            BY <2>2, <5>1
          <5>. HIDE DEF n
          <5>3. \A o \in store : o.bar = t => o.id <= n
            BY <4>1, <4>2, <5>1
          <5>. QED BY <1>6, <5>1, <5>2, <5>3
        <4>4. CASE t \notin Batch[c]
          <5>1. \A o \in batch : o.bar # t
            BY <2>2, <4>4
          <5>. QED BY <1>6, <4>1, <5>1
        <4>. QED BY <4>3, <4>4
      <3>. QED BY <1>4, <2>a, <3>1, <3>2, <3>4, <3>5 DEF StoreInv, StoreIsSound
    <2>4. RowsInv'
      <3>1. SealsAreSound'
        <4> SUFFICES ASSUME NEW d \in Cycles, Sealed(d)
                     PROVE  SealIsSound(d, cycles[d].seal)'
          BY <1>4 DEF SealsAreSound, SealIsSound, Sealed
        <4>1. SealIsSound(d, cycles[d].seal) /\ cycles[d].seal.asOf \in Nat
          BY <1>1 DEF RowsInv, RowsAreTyped, SealsAreSound, SealIsSound, Sealed, Seals, CaptureAssumption
        <4>2. \A o \in batch : ~(o.at < cycles[d].seal.asOf)
          BY <1>4, <2>2, <4>1 DEF SealIsSound
        <4>. QED BY <1>4, <1>6, <4>1, <4>2 DEF SealIsSound, ValidSeal
      <3>2. RowsCountBatches'
        BY <1>1, <1>2, <1>4, <2>a DEF RowsInv, RowsCountBatches
      <3>3. AuditIsSound'
        BY <1>1, <1>4 DEF RowsInv, AuditIsSound, EventIsSound, Sealed
      <3>. QED BY <1>1, <1>4, <3>1, <3>2, <3>3 DEF RowsInv, RowsAreTyped, ResultsAreSound
    <2>5. CallsInv'
      <3>r. PICK r \in Times : r = lastAt
        BY <1>4
      <3>. DEFINE k == [pc |-> "replay", cycle |-> c, receiptAt |-> r]
      <3>1. call[p] = [pc |-> "append", cycle |-> c, receiptAt |-> lastAt]
        BY <1>c, <1>2 DEF AppendBatch, CaptureCalls, Idle
      <3>2. call' = [call EXCEPT ![p] = k] /\ guard' = p
        <4>1. [call[p] EXCEPT !.pc = "replay"] = k
          BY <3>r, <3>1
        <4>2. call' = [call EXCEPT ![p] = [call[p] EXCEPT !.pc = "replay"]]
          BY <1>6
        <4>. QED BY <1>1, <1>2, <1>6, <4>1, <4>2, OneCall
      <3>3. k \in CaptureCalls /\ k # Idle
        BY <1>2, <1>4 DEF CaptureCalls, Idle
      <3>4. BatchIn(c, lastAt, store')
        BY <1>6, <2>b DEF BatchIn
      <3>5. InStep(k)'
        <4>. HIDE DEF batch
        <4>1. BatchIn(c, r, store)'
          BY <3>r, <3>4
        <4>. QED BY <1>2, <1>4, <2>a, <3>r, <4>1 DEF InStep
      <3>. HIDE DEF k
      <3>. QED BY <1>1, <1>2, <3>2, <3>3, <3>5, GoOnInv
    <2>. QED BY <1>1, <2>3, <2>4, <2>5, IInvPartsNext
  <1>. QED
    BY <1>2, <1>3, <1>5, <1>6

(* All of the store is read: nothing in it is later than the cutoff.        *)
LEMMA ReplayInv ==
    ASSUME IInv, NEW p \in Processes, Replay(p)
    PROVE  IInv'
  <1>1. CaptureAssumption /\ RowsInv /\ CallsInv /\ StoreInv
    BY IInvParts
  <1>c. PICK c \in Cycles : call[p].cycle = c
    BY <1>1, CallOfCycle DEF Replay
  <1>2. /\ call[p] # Idle /\ call[p] \in CaptureCalls
        /\ cycles[c].state = "ACQUIRING" /\ acquired[c] = 1
        /\ call[p].receiptAt = lastAt /\ ScheduledAt[c] <= lastAt
        /\ BatchIn(c, lastAt, store)
    BY <1>1, <1>c, CallOfCycle DEF Replay, InStep
  <1>3. PICK v \in Times :
            LET known == {o \in store : o.at <= v} IN
            /\ Clock(v)
            /\ \/ /\ WithinCaps(Cardinality(known))
                  /\ call' = [call EXCEPT ![p] =
                        [pc |-> "seal", cycle |-> c, receiptAt |-> call[p].receiptAt,
                         asOf |-> v, observations |-> known]]
                  /\ UNCHANGED <<cycles, audit, guard>>
               \/ /\ ~WithinCaps(Cardinality(known))
                  /\ Transition(c, "BLOCKED", v, None, None)
                  /\ Leave(p)
    BY <1>c DEF Replay
  <1>4. /\ lastAt' = v /\ lastAt <= v /\ v <= lastAt' /\ store' = store /\ acquired' = acquired
        /\ lastAt \in Nat /\ lastAt \in Times /\ v \in Nat
    BY <1>1, <1>3 DEF Clock, StoreInv, CaptureAssumption, Replay
  <1>5. StoreInv'
    BY <1>1, <1>4, ClockInv
  <1>6. {o \in store : o.at <= v} = store
    <2>1. \A o \in store : o.at \in Nat /\ o.at <= lastAt
      BY <1>1 DEF StoreInv, StoreIsSound, Observations, CaptureAssumption
    <2>. QED BY <1>4, <2>1
  <1>7. CASE /\ WithinCaps(Cardinality(store))
             /\ call' = [call EXCEPT ![p] =
                    [pc |-> "seal", cycle |-> c, receiptAt |-> call[p].receiptAt,
                     asOf |-> v, observations |-> store]]
             /\ UNCHANGED <<cycles, audit, guard>>
    <2>r. PICK r \in Times : r = lastAt
      BY <1>4
    <2>o. PICK obs \in SUBSET Observations : obs = store
      BY <1>1 DEF StoreInv
    <2>. DEFINE k == [pc |-> "seal", cycle |-> c, receiptAt |-> r, asOf |-> v,
                      observations |-> obs]
    <2>1. k \in CaptureCalls /\ k # Idle
      BY DEF CaptureCalls, Idle
    <2>2. call' = [call EXCEPT ![p] = k] /\ guard' = p
      BY <1>1, <1>2, <1>7, <2>r, <2>o, OneCall
    <2>3. InStep(k)'
      <3>1. BatchIn(c, r, store)'
        BY <1>2, <1>4, <2>r DEF BatchIn
      <3>2. \A o \in store : o.at <= r
        BY <1>1, <2>r DEF StoreInv, StoreIsSound
      <3>3. Cardinality(store) <= MaxObservations
        BY <1>7 DEF WithinCaps
      <3>. QED BY <1>2, <1>4, <1>7, <2>r, <2>o, <3>1, <3>2, <3>3 DEF InStep
    <2>4. CallsInv'
      <3>. HIDE DEF k
      <3>. QED BY <1>1, <1>2, <2>1, <2>2, <2>3, GoOnInv
    <2>. QED BY <1>1, <1>4, <1>5, <1>7, <2>4, RowsStayInv, IInvPartsNext
  <1>8. CASE Transition(c, "BLOCKED", v, None, None) /\ Leave(p)
    <2>1. "BLOCKED" \in States /\ cycles[c].seal = None
      BY <1>1, <1>2 DEF States, RowsInv, RowsAreTyped
    <2>2. RowsInv'
      BY <1>1, <1>2, <1>4, <1>8, <2>1, TransitionInv
    <2>. QED BY <1>1, <1>2, <1>5, <1>8, <2>2, LeaveInv, IInvPartsNext
  <1>. QED BY <1>3, <1>6, <1>7, <1>8

(* What is sealed is the whole store, valid as the seal wants it.           *)
LEMMA SealInv ==
    ASSUME IInv, NEW p \in Processes, Seal(p)
    PROVE  IInv'
  <1>1. CaptureAssumption /\ RowsInv /\ CallsInv /\ StoreInv
    BY IInvParts
  <1>c. PICK c \in Cycles : call[p].cycle = c
    BY <1>1, CallOfCycle DEF Seal
  <1>2. /\ call[p] # Idle /\ call[p] \in CaptureCalls
        /\ cycles[c].state = "ACQUIRING" /\ acquired[c] = 1
        /\ call[p].asOf = lastAt /\ call[p].observations = store
        /\ \A o \in store : o.at <= call[p].receiptAt
    BY <1>1, <1>c, CallOfCycle DEF Seal, InStep
  <1>3. PICK v \in Times :
            /\ Clock(v)
            /\ ValidSeal(c, SealAt(p, v))
            /\ \/ /\ Transition(c, "INPUTS_SEALED", v, SealAt(p, v), None)
                  /\ call' = [call EXCEPT ![p] = [pc |-> "research", cycle |-> c]]
                  /\ UNCHANGED guard
               \/ /\ Transition(c, "BLOCKED", v, None, None)
                  /\ Leave(p)
    BY <1>c DEF Seal
  <1>4. /\ lastAt' = v /\ lastAt <= v /\ v <= lastAt' /\ store' = store /\ acquired' = acquired
        /\ lastAt \in Nat /\ lastAt \in Times /\ v \in Nat
    BY <1>1, <1>3 DEF Clock, StoreInv, CaptureAssumption, Seal
  <1>5. StoreInv'
    BY <1>1, <1>4, ClockInv
  <1>6. "BLOCKED" \in States /\ "INPUTS_SEALED" \in States /\ cycles[c].seal = None
    BY <1>1, <1>2 DEF States, RowsInv, RowsAreTyped
  <1>7. CASE /\ Transition(c, "INPUTS_SEALED", v, SealAt(p, v), None)
             /\ call' = [call EXCEPT ![p] = [pc |-> "research", cycle |-> c]]
             /\ UNCHANGED guard
    <2>0. call[p].receiptAt \in Times /\ store \in SUBSET Observations
      <3>1. call[p].pc = "seal"
        BY DEF Seal
      <3>2. call[p] \in [pc : {"seal"}, cycle : Cycles, receiptAt : Times, asOf : Times,
                         observations : SUBSET Observations]
        BY <1>2, <3>1 DEF CaptureCalls, Idle
      <3>. QED BY <1>1, <3>2 DEF StoreInv
    <2>1. PICK seal \in Seals : seal = SealAt(p, v)
      BY <1>2, <1>4, <2>0 DEF SealAt, Seals
    <2>2. /\ seal.sealedAt = v /\ seal.asOf = lastAt /\ seal.observations = store
          /\ seal.receiptAt = call[p].receiptAt
      BY <1>2, <2>1 DEF SealAt
    <2>3. SealIsSound(c, seal)'
      <3>1. ValidSeal(c, seal)
        BY <1>3, <2>1
      <3>2. \A o \in seal.observations : o.at <= seal.receiptAt
        BY <1>2, <2>2
      <3>. QED BY <1>4, <2>2, <3>1, <3>2 DEF SealIsSound, ValidSeal
    <2>4. RowsInv'
      BY <1>1, <1>2, <1>4, <1>6, <1>7, <2>1, <2>2, <2>3, TransitionInv DEF Sealed
    <2>. DEFINE k == [pc |-> "research", cycle |-> c]
    <2>5. k \in CaptureCalls /\ k # Idle
      BY DEF CaptureCalls, Idle
    <2>6. InStep(k)'
      <3>1. cycles'[c].state = "INPUTS_SEALED"
        BY <1>1, <1>7 DEF Transition, RowsInv
      <3>. QED BY <3>1 DEF InStep
    <2>7. call' = [call EXCEPT ![p] = k] /\ guard' = p
      BY <1>1, <1>2, <1>7, OneCall
    <2>8. CallsInv'
      <3>. HIDE DEF k
      <3>. QED BY <1>1, <1>2, <2>5, <2>6, <2>7, GoOnInv
    <2>. QED BY <1>1, <1>5, <2>4, <2>8, IInvPartsNext
  <1>8. CASE Transition(c, "BLOCKED", v, None, None) /\ Leave(p)
    <2>1. RowsInv'
      BY <1>1, <1>2, <1>4, <1>6, <1>8, TransitionInv
    <2>. QED BY <1>1, <1>2, <1>5, <1>8, <2>1, LeaveInv, IInvPartsNext
  <1>. QED BY <1>3, <1>7, <1>8

LEMMA ResearchInv ==
    ASSUME IInv, NEW p \in Processes, Research(p)
    PROVE  IInv'
  <1>1. CaptureAssumption /\ RowsInv /\ CallsInv /\ StoreInv
    BY IInvParts
  <1>c. PICK c \in Cycles : call[p].cycle = c
    BY <1>1, CallOfCycle DEF Research
  <1>2. call[p] # Idle /\ call[p] \in CaptureCalls /\ cycles[c].state = "INPUTS_SEALED"
    BY <1>1, <1>c, CallOfCycle DEF Research, InStep
  <1>3. cycles[c].seal # None /\ cycles[c].seal \in Seals
    BY <1>1, <1>2 DEF RowsInv, RowsAreTyped
  <1>s. PICK seal \in Seals : seal = cycles[c].seal
    BY <1>3
  <1>h. PICK history \in SUBSET Observations : history = History(seal.observations)
    BY DEF History, Seals
  <1>4. \/ /\ Transition(c, "BLOCKED", lastAt, seal, None)
           /\ Leave(p)
           /\ UNCHANGED lastAt
        \/ /\ ~Rejected(history, seal.asOf)
           /\ \E v \in Times :
                /\ Clock(v)
                /\ call' = [call EXCEPT ![p] = [pc |-> "complete", cycle |-> c,
                             result |-> [history |-> history, completedAt |-> v]]]
           /\ UNCHANGED <<cycles, audit, guard>>
    BY <1>c, <1>s, <1>h DEF Research
  <1>5. store' = store /\ acquired' = acquired /\ lastAt \in Nat /\ lastAt \in Times
    BY <1>1 DEF Research, StoreInv, CaptureAssumption
  <1>6. CASE /\ Transition(c, "BLOCKED", lastAt, seal, None)
             /\ Leave(p)
             /\ UNCHANGED lastAt
    <2>1. PICK at \in Times : at = lastAt
      BY <1>5
    <2>2. "BLOCKED" \in States /\ lastAt <= at /\ at <= lastAt' /\ lastAt' \in Times
      BY <1>5, <1>6, <2>1 DEF States
    <2>3. RowsInv'
      BY <1>1, <1>2, <1>3, <1>s, <1>5, <1>6, <2>1, <2>2, TransitionInv
    <2>4. StoreInv'
      BY <1>1, <1>5, <1>6, <2>1, <2>2, ClockInv
    <2>. QED BY <1>1, <1>2, <1>6, <2>3, <2>4, LeaveInv, IInvPartsNext
  <1>7. CASE /\ ~Rejected(history, seal.asOf)
             /\ \E v \in Times :
                  /\ Clock(v)
                  /\ call' = [call EXCEPT ![p] = [pc |-> "complete", cycle |-> c,
                               result |-> [history |-> history, completedAt |-> v]]]
             /\ UNCHANGED <<cycles, audit, guard>>
    <2>1. PICK v \in Times :
            /\ Clock(v)
            /\ call' = [call EXCEPT ![p] = [pc |-> "complete", cycle |-> c,
                         result |-> [history |-> history, completedAt |-> v]]]
      BY <1>7
    <2>2. lastAt' = v /\ lastAt <= lastAt'
      BY <1>5, <2>1 DEF Clock, CaptureAssumption
    <2>. DEFINE k == [pc |-> "complete", cycle |-> c,
                      result |-> [history |-> history, completedAt |-> v]]
    <2>3. k \in CaptureCalls /\ k # Idle
      BY DEF CaptureCalls, Idle, Results
    <2>4. InStep(k)'
      BY <1>2, <1>s, <1>h, <1>7, <2>2 DEF InStep
    <2>5. call' = [call EXCEPT ![p] = k] /\ guard' = p
      BY <1>1, <1>2, <1>7, <2>1, OneCall
    <2>6. CallsInv'
      <3>. HIDE DEF k
      <3>. QED BY <1>1, <1>2, <2>3, <2>4, <2>5, GoOnInv
    <2>. QED BY <1>1, <1>5, <1>7, <2>2, <2>6, RowsStayInv, ClockInv, IInvPartsNext
  <1>. QED BY <1>4, <1>6, <1>7

LEMMA CompleteInv ==
    ASSUME IInv, NEW p \in Processes, Complete(p)
    PROVE  IInv'
  <1>1. CaptureAssumption /\ RowsInv /\ CallsInv /\ StoreInv
    BY IInvParts
  <1>c. PICK c \in Cycles : call[p].cycle = c
    BY <1>1, CallOfCycle DEF Complete
  <1>2. call[p] # Idle /\ call[p] \in CaptureCalls /\ InStep(call[p])
    BY <1>1, CallOfCycle DEF Complete
  <1>3. cycles[c].state = "INPUTS_SEALED" /\ cycles[c].seal # None /\ cycles[c].seal \in Seals
    BY <1>1, <1>c, <1>2 DEF RowsInv, RowsAreTyped, InStep, Complete
  <1>s. PICK seal \in Seals : seal = cycles[c].seal
    BY <1>3
  <1>r. PICK result \in Results : result = call[p].result
    <2>1. call[p] \in [pc : {"complete"}, cycle : Cycles, result : Results]
      BY <1>2 DEF Complete, CaptureCalls, Idle
    <2>. QED BY <2>1
  <1>4. /\ result.completedAt = lastAt
        /\ result.history = History(seal.observations)
        /\ ~Rejected(result.history, seal.asOf)
    BY <1>c, <1>2, <1>s, <1>r DEF InStep, Complete
  <1>5. /\ store' = store /\ acquired' = acquired /\ lastAt' = lastAt
        /\ lastAt \in Nat /\ lastAt \in Times
    BY <1>1 DEF Complete, StoreInv, CaptureAssumption
  <1>6. PICK at \in Times : at = lastAt
    BY <1>5
  <1>7. /\ "BLOCKED" \in States /\ "COMPLETE" \in States
        /\ lastAt <= at /\ at <= lastAt' /\ lastAt' \in Times /\ lastAt <= lastAt'
    BY <1>5, <1>6 DEF States
  <1>8. RowsInv'
    <2>1. CASE Transition(c, "COMPLETE", at, seal, result)
      BY <1>1, <1>3, <1>s, <1>4, <1>5, <1>6, <1>7, <2>1, TransitionInv
    <2>2. CASE Transition(c, "BLOCKED", at, seal, None)
      BY <1>1, <1>3, <1>s, <1>5, <1>7, <2>2, TransitionInv
    <2>. QED BY <1>c, <1>s, <1>r, <1>4, <1>6, <2>1, <2>2 DEF Complete
  <1>9. StoreInv'
    BY <1>1, <1>5, <1>7, ClockInv
  <1>. QED BY <1>1, <1>2, <1>8, <1>9, LeaveInv, IInvPartsNext DEF Complete

(* What was committed stays when the process dies.                          *)
LEMMA AbandonInv ==
    ASSUME IInv, NEW p \in Processes, Abandon(p) \/ AbandonAfterClock(p)
    PROVE  IInv'
  <1>1. CaptureAssumption /\ RowsInv /\ CallsInv /\ StoreInv
    BY IInvParts
  <1>2. call[p] # Idle /\ Leave(p) /\ UNCHANGED <<cycles, audit, store, acquired>>
    BY DEF Abandon, AbandonAfterClock, Idle
  <1>3. lastAt' \in Times /\ lastAt <= lastAt'
    BY <1>1 DEF Abandon, AbandonAfterClock, Clock, StoreInv, CaptureAssumption
  <1>. QED BY <1>1, <1>2, <1>3, LeaveInv, RowsStayInv, ClockInv, IInvPartsNext

(* Every step keeps the inductive invariant.                                *)
LEMMA NextInv == IInv /\ [Next]_vars => IInv'
  <1> SUFFICES ASSUME IInv, [Next]_vars PROVE IInv'
    OBVIOUS
  <1>1. CASE UNCHANGED vars
    <2>1. CaptureAssumption /\ RowsInv /\ CallsInv /\ StoreInv
      BY IInvParts
    <2>2. lastAt' \in Times /\ lastAt <= lastAt'
      BY <1>1, <2>1 DEF vars, StoreInv, CaptureAssumption
    <2>3. CallsInv'
      BY <1>1, <2>1 DEF vars, CallsInv, CallsAreInStep, InStep, BatchIn
    <2>. QED BY <1>1, <2>1, <2>2, <2>3, RowsStayInv, ClockInv, IInvPartsNext DEF vars
  <1>2. ASSUME NEW p \in Processes, NEW c \in Cycles, Enter(p, c) PROVE IInv'
    BY <1>2, EnterInv
  <1>3. ASSUME NEW p \in Processes, Step(p) PROVE IInv'
    BY <1>3, GiveUpInv, ClaimInv, ReceiveInv, AppendBatchInv, ReplayInv, SealInv,
       ResearchInv, CompleteInv DEF Step
  <1>. QED BY <1>1, <1>2, <1>3, AbandonInv DEF Next

(* The rows, receipts and calls of the coordinator, for any number of       *)
(* processes and cycles (coordinator.py, execute): the durable clock of a   *)
(* call, the stage of its row and what it read agree between its commits.   *)
THEOREM CaptureInvariant == CaptureAssumption /\ Spec => []IInv
  <1>1. CaptureAssumption /\ Init => IInv
    BY InitInv
  <1>. QED BY <1>1, NextInv, PTL DEF Spec

-----------------------------------------------------------------------------
(* A bounded set of naturals has a greatest element: the least upper bound  *)
(* of it is in the set.                                                     *)
LEMMA GreatestElement ==
    ASSUME NEW S \in SUBSET Nat, S # {}, NEW m \in Nat, \A n \in S : n <= m
    PROVE  \E n \in S : \A k \in S : k <= n
  <1>. DEFINE R == OpToRel(<, Nat)
              Above == {b \in Nat : \A n \in S : n <= b}
  <1>1. \A i, j \in Nat : <<i, j>> \in R <=> i < j
    BY DEF OpToRel
  <1>2. IsWellFoundedOn(R, Nat)
    BY NatLessThanWellFounded
  <1>3. Above \subseteq Nat /\ Above # {}
    OBVIOUS
  <1>. HIDE DEF R
  <1>4. PICK b \in Above : \A c \in Above : ~(<<c, b>> \in R)
    <2>. HIDE DEF Above
    <2>. QED BY <1>2, <1>3, WFMin
  <1>5. b \in Nat /\ \A c \in Above : b <= c
    <2>1. \A c \in Above : c \in Nat /\ ~(c < b)
      BY <1>1, <1>3, <1>4
    <2>. HIDE DEF Above
    <2>. QED BY <1>3, <2>1
  <1>6. b \in S
    <2> SUFFICES ASSUME b \notin S PROVE FALSE
      OBVIOUS
    <2>1. \A n \in S : n \in Nat /\ n < b
      <3>1. \A n \in S : n \in Nat /\ n <= b
        OBVIOUS
      <3>. QED BY <1>5, <3>1
    <2>2. b - 1 \in Nat /\ \A n \in S : n <= b - 1
      <3>1. PICK n \in S : TRUE
        OBVIOUS
      <3>2. b - 1 \in Nat
        BY <1>5, <2>1, <3>1
      <3>. QED BY <1>5, <2>1, <3>2
    <2>3. b - 1 \in Above
      BY <2>2
    <2>4. b <= b - 1
      BY <1>5, <2>3
    <2>. QED BY <1>5, <2>4
  <1>. QED BY <1>6

(* Of the receipts of a bar that came last, the one with the greatest id is *)
(* the one that a history shows.                                            *)
LEMMA LatestIsShown ==
    ASSUME CaptureAssumption,
           NEW S \in SUBSET Observations, NEW t \in Nat, NEW at \in Times,
           Start <= t, t < End,
           \A o, other \in S : o.id = other.id => o = other,
           \A o \in S : o.at <= at,
           \E o \in S : o.bar = t /\ o.at = at,
           NEW m \in Nat, \A o \in S : o.bar = t => o.id <= m
    PROVE  \E o \in History(S) : o.bar = t /\ o.at = at
  <1>. DEFINE Newest == {o \in S : o.bar = t /\ o.at = at}
              LastIds == {o.id : o \in Newest}
  <1>1. \A o \in S : o.id \in Nat /\ o.at \in Nat
    BY DEF CaptureAssumption, Observations
  <1>2. LastIds \in SUBSET Nat /\ LastIds # {} /\ \A n \in LastIds : n <= m
    BY <1>1
  <1>3. PICK n \in LastIds : \A k \in LastIds : k <= n
    <2>. HIDE DEF LastIds
    <2>. QED BY <1>2, GreatestElement
  <1>4. PICK o \in Newest : o.id = n
    OBVIOUS
  <1>5. ASSUME NEW other \in S, other.bar = o.bar, other # o
        PROVE  Later(o, other)
    <2>1. other.id # o.id /\ other.at <= at /\ o.at = at
      BY <1>5
    <2>2. CASE other.at = at
      <3>1. other.id \in LastIds
        BY <1>5, <2>2
      <3>2. other.id <= o.id
        BY <1>3, <1>4, <3>1
      <3>. QED BY <1>1, <2>1, <2>2, <3>2 DEF Later
    <2>3. CASE other.at # at
      <3>1. at \in Nat
        BY DEF CaptureAssumption
      <3>. QED BY <1>1, <2>1, <2>3, <3>1 DEF Later
    <2>. QED BY <2>2, <2>3
  <1>6. o \in History(S)
    BY <1>5 DEF History
  <1>. QED BY <1>6

(* A seal holds everything received before its cutoff and nothing received  *)
(* after it, a result is what its seal gives and shows the revisions just   *)
(* received, and the audit is dated in order (coordinator.py, SealedInputs  *)
(* and _research).                                                          *)
THEOREM SealedEvidenceIsSound == CaptureAssumption /\ Spec => []EvidenceIsSound
  <1>1. IInv => EvidenceIsSound
    <2> SUFFICES ASSUME IInv PROVE EvidenceIsSound
      OBVIOUS
    <2>0. CaptureAssumption /\ RowsInv /\ CallsInv /\ StoreInv
      BY IInvParts
    <2>1. \A c \in Cycles : Sealed(c) =>
            /\ {o \in store : o.at < cycles[c].seal.asOf} \subseteq cycles[c].seal.observations
            /\ cycles[c].seal.observations \subseteq {o \in store : o.at <= cycles[c].seal.asOf}
      BY <2>0 DEF RowsInv, SealsAreSound, ValidSeal
    <2>2. ASSUME NEW p \in Processes, call[p].pc = "seal", NEW v \in Times, v >= lastAt
          PROVE  ValidSeal(call[p].cycle, SealAt(p, v))
      <3>1. /\ call[p].cycle \in Cycles /\ InStep(call[p])
            /\ call[p] \in [pc : {"seal"}, cycle : Cycles, receiptAt : Times, asOf : Times,
                            observations : SUBSET Observations]
        BY <2>0, <2>2, CallOfCycle DEF CaptureCalls, Idle
      <3>. DEFINE c == call[p].cycle
      <3>2. /\ call[p].asOf = lastAt /\ call[p].receiptAt <= call[p].asOf
            /\ call[p].observations = store /\ \A o \in store : o.at <= lastAt
            /\ Cardinality(store) <= MaxObservations
            /\ BatchIn(c, call[p].receiptAt, store)
            /\ ScheduledAt[c] <= call[p].receiptAt
        BY <2>0, <2>2, <3>1 DEF InStep, StoreInv, StoreIsSound
      <3>3. \A o, other \in store : o.id = other.id => o = other
        BY <2>0 DEF StoreInv, StoreIsSound
      <3>4. lastAt <= v
        BY <2>0, <2>2 DEF StoreInv, CaptureAssumption
      <3>. HIDE DEF c
      <3>5. ValidSeal(c, SealAt(p, v))
        BY <3>2, <3>3, <3>4 DEF ValidSeal, SealAt, BatchIn
      <3>. QED BY <3>5 DEF c
    <2>3. ASSUME NEW c \in Cycles, cycles[c].state = "COMPLETE"
          PROVE  /\ cycles[c].result.history = History(cycles[c].seal.observations)
                 /\ ~Rejected(cycles[c].result.history, cycles[c].seal.asOf)
                 /\ \A t \in Batch[c] : \E o \in cycles[c].result.history :
                        o.bar = t /\ o.at = cycles[c].seal.receiptAt
      <3>1. /\ cycles[c].result.history = History(cycles[c].seal.observations)
            /\ ~Rejected(cycles[c].result.history, cycles[c].seal.asOf)
        BY <2>0, <2>3 DEF RowsInv, ResultsAreSound, ResultIsSound
      <3>2. PICK seal \in Seals : seal = cycles[c].seal /\ Sealed(c)
        BY <2>0, <2>3 DEF RowsInv, RowsAreTyped, Sealed
      <3>3. /\ ValidSeal(c, seal)
            /\ \A o \in seal.observations : o.at <= seal.receiptAt
            /\ seal.observations \subseteq store
        BY <2>0, <3>2 DEF RowsInv, SealsAreSound
      <3>4. ASSUME NEW t \in Batch[c]
            PROVE  \E o \in History(seal.observations) : o.bar = t /\ o.at = seal.receiptAt
        <4>1. t \in Sessions /\ t \in Nat /\ Start <= t /\ t < End
          BY <2>0 DEF CaptureAssumption
        <4>2. PICK m \in Ids \cup {0} : \A o \in store : o.bar = t => o.id <= m
          BY <2>0, <4>1 DEF StoreInv, StoreIsSound
        <4>3. m \in Nat /\ \A o \in seal.observations : o.bar = t => o.id <= m
          <5>1. Ids \subseteq Nat
            BY <2>0 DEF CaptureAssumption
          <5>. QED BY <3>3, <4>2, <5>1
        <4>4. \E o \in seal.observations : o.bar = t /\ o.at = seal.receiptAt
          BY <3>3 DEF ValidSeal
        <4>5. \A o, other \in seal.observations : o.id = other.id => o = other
          BY <3>3 DEF ValidSeal
        <4>6. seal.observations \in SUBSET Observations /\ seal.receiptAt \in Times
          BY DEF Seals
        <4>. QED BY <2>0, <3>3, <4>1, <4>3, <4>4, <4>5, <4>6, LatestIsShown
      <3>. QED BY <3>1, <3>2, <3>4
    <2>4. \A c \in Cycles : \A i \in 1 .. Len(audit[c]) : EventIsSound(c, i)
      BY <2>0 DEF RowsInv, AuditIsSound
    <2>. QED BY <2>1, <2>2, <2>3, <2>4 DEF EvidenceIsSound, EventIsSound
  <1>. QED BY <1>1, CaptureInvariant, PTL

-----------------------------------------------------------------------------
(* The stage of a cycle as CaptureOnce sees it.                             *)
Stage(c) == IF cycles[c].state = "ABSENT" THEN "NEW" ELSE cycles[c].state
stages == [c \in Cycles |-> Stage(c)]

(* A transition is a move of its cycle alone.                               *)
LEMMA TransitionMoves ==
    ASSUME RowsInv, NEW c \in Cycles, NEW to \in States, NEW at, NEW seal, NEW result,
           Transition(c, to, at, seal, result)
    PROVE  stages' = [stages EXCEPT ![c] = to]
  <1>1. cycles'[c].state = to /\ \A d \in Cycles \ {c} : cycles'[d] = cycles[d]
    BY DEF Transition, RowsInv
  <1>2. Stage(c)' = to /\ \A d \in Cycles \ {c} : Stage(d)' = Stage(d)
    BY <1>1 DEF Stage, States
  <1>. QED BY <1>2 DEF stages

(* Every step of a call is one step of the promise or none.                 *)
LEMMA StepRefines ==
    ASSUME IInv, NEW p \in Processes, Step(p)
    PROVE  Promise!Next \/ UNCHANGED Promise!vars
  <1>1. CaptureAssumption /\ RowsInv /\ CallsInv /\ StoreInv
    BY IInvParts
  <1>i. call[p].pc # "idle"
    BY DEF Step, GiveUp, Claim, Receive, AppendBatch, Replay, Seal, Research, Complete
  <1>c. PICK c \in Cycles : call[p].cycle = c
    BY <1>1, <1>i, CallOfCycle
  <1>2. InStep(call[p])
    BY <1>1, <1>i, CallOfCycle
  <1>3. stages = [d \in Cycles |-> IF cycles[d].state = "ABSENT" THEN "NEW" ELSE cycles[d].state]
    BY DEF stages, Stage
  <1>4. stages[c] = Stage(c)
    BY DEF stages
  <1>s. ASSUME UNCHANGED <<cycles, acquired>> PROVE UNCHANGED Promise!vars
    BY <1>s DEF Promise!vars
  <1>m. ASSUME NEW to \in States, NEW at, NEW seal, NEW result,
               Transition(c, to, at, seal, result), acquired' = acquired,
               \/ Stage(c) = "NEW" /\ to = "ACQUIRING"
               \/ Stage(c) = "ACQUIRING" /\ to = "INPUTS_SEALED" /\ acquired[c] = 1
               \/ Stage(c) = "INPUTS_SEALED" /\ to = "COMPLETE"
               \/ Stage(c) \in {"ACQUIRING", "INPUTS_SEALED"} /\ to = "BLOCKED" /\ acquired[c] = 1
               \/ Stage(c) = "ACQUIRING" /\ to = "UNRESOLVED"
        PROVE  Promise!Next
    <2>1. stages' = [stages EXCEPT ![c] = to]
      BY <1>1, <1>m, TransitionMoves
    <2>2. \/ Promise!Claim(c) \/ Promise!Seal(c) \/ Promise!Complete(c)
          \/ Promise!Block(c) \/ Promise!GiveUp(c)
      BY <1>4, <1>m, <2>1
         DEF stages, Stage, Promise!Claim, Promise!Seal, Promise!Complete, Promise!Block,
             Promise!GiveUp, Promise!Move
    <2>. QED BY <2>2 DEF Promise!Next
  <1>5. CASE GiveUp(p)
    <2>1. Stage(c) = "ACQUIRING" /\ "UNRESOLVED" \in States
      BY <1>c, <1>2, <1>5 DEF GiveUp, InStep, Stage, States
    <2>2. PICK v \in Times : Transition(c, "UNRESOLVED", v, None, None) /\ acquired' = acquired
      BY <1>c, <1>5 DEF GiveUp
    <2>. QED BY <1>m, <2>1, <2>2
  <1>6. CASE Claim(p)
    <2>1. Stage(c) = "NEW" /\ "ACQUIRING" \in States
      BY <1>c, <1>2, <1>6 DEF Claim, InStep, Stage, States
    <2>2. CASE UNCHANGED <<cycles, acquired>>
      BY <1>s, <2>2
    <2>3. CASE \E v \in Times : Transition(c, "ACQUIRING", v, None, None) /\ acquired' = acquired
      BY <1>m, <2>1, <2>3
    <2>. QED BY <1>c, <1>6, <2>2, <2>3 DEF Claim
  <1>7. CASE Receive(p)
    BY <1>s, <1>7 DEF Receive
  <1>8. CASE AppendBatch(p)
    <2>1. Stage(c) = "ACQUIRING" /\ acquired[c] = 0
      BY <1>c, <1>2, <1>8 DEF AppendBatch, InStep, Stage
    <2>2. cycles' = cycles
      BY <1>8 DEF AppendBatch
    <2>3. CASE acquired' = acquired
      BY <1>s, <2>2, <2>3
    <2>4. CASE acquired' = [acquired EXCEPT ![c] = @ + 1]
      <3>1. acquired' = [acquired EXCEPT ![c] = 1]
        BY <1>1, <2>1, <2>4 DEF StoreInv
      <3>2. stages' = stages
        BY <2>2 DEF stages, Stage
      <3>3. Promise!Acquire(c)
        BY <1>4, <2>1, <3>1, <3>2 DEF stages, Stage, Promise!Acquire
      <3>. QED BY <3>3 DEF Promise!Next
    <2>. QED BY <1>c, <1>8, <2>3, <2>4 DEF AppendBatch
  <1>9. CASE Replay(p)
    <2>1. Stage(c) = "ACQUIRING" /\ acquired[c] = 1 /\ "BLOCKED" \in States
      BY <1>c, <1>2, <1>9 DEF Replay, InStep, Stage, States
    <2>2. CASE UNCHANGED <<cycles, acquired>>
      BY <1>s, <2>2
    <2>3. CASE \E v \in Times : Transition(c, "BLOCKED", v, None, None) /\ acquired' = acquired
      BY <1>m, <2>1, <2>3
    <2>. QED BY <1>c, <1>9, <2>2, <2>3 DEF Replay
  <1>10. CASE Seal(p)
    <2>1. /\ Stage(c) = "ACQUIRING" /\ acquired[c] = 1
          /\ "BLOCKED" \in States /\ "INPUTS_SEALED" \in States
      BY <1>c, <1>2, <1>10 DEF Seal, InStep, Stage, States
    <2>2. PICK v \in Times :
            /\ acquired' = acquired
            /\ \/ Transition(c, "INPUTS_SEALED", v, SealAt(p, v), None)
               \/ Transition(c, "BLOCKED", v, None, None)
      BY <1>c, <1>10 DEF Seal
    <2>. QED BY <1>m, <2>1, <2>2
  <1>11. CASE Research(p)
    <2>1. Stage(c) = "INPUTS_SEALED" /\ acquired[c] = 1 /\ "BLOCKED" \in States
      BY <1>1, <1>c, <1>2, <1>11
         DEF Research, InStep, Stage, States, RowsInv, RowsCountBatches
    <2>2. CASE UNCHANGED <<cycles, acquired>>
      BY <1>s, <2>2
    <2>3. CASE Transition(c, "BLOCKED", lastAt, cycles[c].seal, None) /\ acquired' = acquired
      BY <1>m, <2>1, <2>3
    <2>. QED BY <1>c, <1>11, <2>2, <2>3 DEF Research
  <1>12. CASE Complete(p)
    <2>1. /\ Stage(c) = "INPUTS_SEALED" /\ acquired[c] = 1
          /\ "BLOCKED" \in States /\ "COMPLETE" \in States
      BY <1>1, <1>c, <1>2, <1>12
         DEF Complete, InStep, Stage, States, RowsInv, RowsCountBatches
    <2>2. /\ acquired' = acquired
          /\ \/ Transition(c, "COMPLETE", call[p].result.completedAt, cycles[c].seal, call[p].result)
             \/ Transition(c, "BLOCKED", lastAt, cycles[c].seal, None)
      BY <1>c, <1>12 DEF Complete
    <2>. QED BY <1>m, <2>1, <2>2
  <1>. QED BY <1>5, <1>6, <1>7, <1>8, <1>9, <1>10, <1>11, <1>12 DEF Step

(* Each cycle is acquired once at most, moves on to stages of its own only, *)
(* and never leaves a terminal one, whatever dies and whoever calls         *)
(* (coordinator.py, execute): every step of the coordinator is a step of    *)
(* CaptureOnce or a stutter.                                                *)
THEOREM CoordinatorKeepsPromise == CaptureAssumption /\ Spec => CaptureKeepsPromise
  <1>1. Init => Promise!Init
    BY DEF Init, NoCycle, Promise!Init
  <1>2. IInv /\ [Next]_vars => [Promise!Next]_(Promise!vars)
    <2> SUFFICES ASSUME IInv, [Next]_vars PROVE Promise!Next \/ UNCHANGED Promise!vars
      OBVIOUS
    <2>1. ASSUME UNCHANGED <<cycles, acquired>> PROVE UNCHANGED Promise!vars
      BY <2>1 DEF Promise!vars
    <2>2. ASSUME NEW p \in Processes, Step(p) PROVE Promise!Next \/ UNCHANGED Promise!vars
      BY <2>2, StepRefines
    <2>3. ASSUME NEW p \in Processes, NEW c \in Cycles, Enter(p, c) PROVE UNCHANGED Promise!vars
      BY <2>1, <2>3 DEF Enter
    <2>4. ASSUME NEW p \in Processes, Abandon(p) \/ AbandonAfterClock(p)
          PROVE  UNCHANGED Promise!vars
      BY <2>1, <2>4 DEF Abandon, AbandonAfterClock
    <2>5. CASE UNCHANGED vars
      BY <2>1, <2>5 DEF vars
    <2>. QED BY <2>2, <2>3, <2>4, <2>5 DEF Next
  <1>. QED BY <1>1, <1>2, CaptureInvariant, PTL DEF Spec, CaptureKeepsPromise, Promise!Spec

-----------------------------------------------------------------------------
(* The paper evaluations and their journal.                                 *)

(* Attempts are claimed in order, the first of them with the row.           *)
AttemptsAreOrdered ==
    \A e \in Evaluations :
        /\ claimed[e] = Unset <=> attempts[e] = <<>>
        /\ \A i \in 1 .. Len(attempts[e]) :
            claimed[e] <= attempts[e][i] /\ attempts[e][i] <= LastAttempt(e)

(* A call works on an attempt of its own, the latest when it stores.        *)
CallIsAttempt(k) ==
    k # NotEvaluating =>
        /\ k.at \in AttemptsOf(k.evaluation)
        /\ k.pc = "store" =>
            /\ LastAttempt(k.evaluation) <= k.at
            /\ completed[k.evaluation] = Unset
            /\ Journal!Known(DecisionOf[k.evaluation], k.at)

CallsAreAttempts == \A p \in Evaluators : CallIsAttempt(evaluating[p])

ResultsAreExplained ==
    \A e \in Evaluations : completed[e] # Unset =>
        /\ Journal!Known(DecisionOf[e], completed[e])
        /\ completed[e] \in AttemptsOf(e)

ReceiptsAreExplained ==
    \A d \in Decisions : receipts[d] # Unset =>
        /\ EvaluatedAt[d] <= receipts[d]
        /\ \E e \in Evaluations : DecisionOf[e] = d /\ receipts[d] \in AttemptsOf(e)

OutcomesAreExplained ==
    \A m \in Measurements : outcomes[m] # Unset =>
        Journal!Known(m.decision, m.asOf) /\ m.asOf <= outcomes[m]

(* The inductive invariant.                                                 *)
EvaluationInv ==
    /\ PaperAssumption /\ Journal!JournalAssumption
    /\ PaperTypeOK
    /\ AttemptsAreOrdered
    /\ CallsAreAttempts
    /\ ResultsAreExplained
    /\ ReceiptsAreExplained
    /\ OutcomesAreExplained

-----------------------------------------------------------------------------
(* The attempts of an evaluation after one more.                            *)
LEMMA AppendAttempt ==
    ASSUME NEW S, NEW s \in Seq(S), NEW at \in S
    PROVE  /\ Append(s, at) \in Seq(S) /\ Append(s, at) # <<>>
           /\ Len(Append(s, at)) = Len(s) + 1 /\ Len(s) \in Nat
           /\ \A i \in 1 .. Len(s) : Append(s, at)[i] = s[i]
           /\ Append(s, at)[Len(s) + 1] = at
  OBVIOUS

LEMMA AttemptTimes ==
    ASSUME EvaluationInv, NEW e \in Evaluations
    PROVE  /\ AttemptsOf(e) \subseteq PaperTimes /\ AttemptsOf(e) \subseteq Nat
           /\ attempts[e] \in Seq(PaperTimes) /\ Len(attempts[e]) \in Nat
           /\ \A at \in AttemptsOf(e) : claimed[e] <= at /\ at <= LastAttempt(e)
           /\ attempts[e] # <<>> => LastAttempt(e) \in AttemptsOf(e)
           /\ AttemptsOf(e) # {} => claimed[e] # Unset
  <1>1. attempts[e] \in Seq(PaperTimes) /\ Len(attempts[e]) \in Nat /\ PaperTimes \subseteq Nat
    BY DEF EvaluationInv, PaperTypeOK, Journal!JournalAssumption
  <1>2. \A i \in 1 .. Len(attempts[e]) : attempts[e][i] \in PaperTimes
    BY <1>1
  <1>3. attempts[e] # <<>> => Len(attempts[e]) \in 1 .. Len(attempts[e])
    BY <1>1
  <1>4. attempts[e] = <<>> => AttemptsOf(e) = {}
    BY DEF AttemptsOf
  <1>. QED BY <1>1, <1>2, <1>3, <1>4 DEF EvaluationInv, AttemptsAreOrdered, AttemptsOf, LastAttempt

(* A step that keeps the attempts keeps what is said of them.               *)
LEMMA AttemptsStay ==
    ASSUME attempts' = attempts
    PROVE  \A e : AttemptsOf(e)' = AttemptsOf(e) /\ LastAttempt(e)' = LastAttempt(e)
  BY DEF AttemptsOf, LastAttempt

(* The first state satisfies the inductive invariant.                       *)
LEMMA PaperInitInv == PaperAssumption /\ Journal!JournalAssumption /\ PaperInit => EvaluationInv
  <1> SUFFICES ASSUME PaperAssumption, Journal!JournalAssumption, PaperInit PROVE EvaluationInv
    OBVIOUS
  <1>1. PaperTypeOK
    BY DEF PaperInit, Journal!Init, PaperTypeOK, Journal!TypeOK, PaperAssumption, NotEvaluating
  <1>2. AttemptsAreOrdered
    BY DEF PaperInit, AttemptsAreOrdered
  <1>. QED BY <1>1, <1>2
       DEF PaperInit, Journal!Init, EvaluationInv, CallsAreAttempts, CallIsAttempt, ResultsAreExplained,
           ReceiptsAreExplained, OutcomesAreExplained, NotEvaluating

(* A call that leaves gives back the lock if it holds it.                   *)
LEMMA LeaveEvaluationInv ==
    ASSUME EvaluationInv, NEW p \in Evaluators, LeaveEvaluation(p),
           UNCHANGED <<journalVars, claimed, completed, attempts>>
    PROVE  EvaluationInv'
  <1>1. /\ evaluating' \in [Evaluators -> Calls \cup {NotEvaluating}]
        /\ lock' \in Evaluators \cup {Unset}
    BY DEF EvaluationInv, PaperTypeOK, LeaveEvaluation
  <1>2. \A q \in Evaluators : evaluating'[q] = IF q = p THEN NotEvaluating ELSE evaluating[q]
    BY DEF EvaluationInv, PaperTypeOK, LeaveEvaluation
  <1>3. \A q \in Evaluators : evaluating'[q].pc = "store" <=> lock' = q
    BY <1>2 DEF EvaluationInv, PaperTypeOK, LeaveEvaluation, NotEvaluating, PaperAssumption
  <1>4. PaperTypeOK'
    BY <1>1, <1>3 DEF EvaluationInv, PaperTypeOK, Journal!TypeOK, journalVars
  <1>5. CallsAreAttempts'
    BY <1>2, AttemptsStay
       DEF EvaluationInv, CallsAreAttempts, CallIsAttempt, journalVars, Journal!Known
  <1>. QED BY <1>4, <1>5, AttemptsStay
       DEF EvaluationInv, AttemptsAreOrdered, ResultsAreExplained, ReceiptsAreExplained,
           OutcomesAreExplained, journalVars, Journal!Known, PaperAssumption,
           Journal!JournalAssumption

(* Another attempt is made durable: nobody is about to store a result.      *)
LEMMA ClaimEvaluationInv ==
    ASSUME EvaluationInv, NEW p \in Evaluators, NEW e \in Evaluations, NEW at \in PaperTimes,
           ClaimAttempt(p, e, at)
    PROVE  EvaluationInv'
  <1>1. /\ attempts[e] \in Seq(PaperTimes) /\ PaperTimes \subseteq Nat /\ at \in Nat
        /\ AttemptsOf(e) \subseteq Nat
        /\ \A b \in AttemptsOf(e) : claimed[e] <= b /\ b <= LastAttempt(e)
        /\ attempts[e] # <<>> => LastAttempt(e) \in AttemptsOf(e)
        /\ AttemptsOf(e) # {} => claimed[e] # Unset
    BY AttemptTimes DEF EvaluationInv, Journal!JournalAssumption
  <1>2. /\ attempts'[e] = Append(attempts[e], at)
        /\ \A f \in Evaluations \ {e} : attempts'[f] = attempts[f] /\ claimed'[f] = claimed[f]
        /\ claimed'[e] = IF claimed[e] = Unset THEN at ELSE claimed[e]
        /\ attempts' \in [Evaluations -> Seq(PaperTimes)]
        /\ claimed' \in [Evaluations -> PaperTimes \cup {Unset}]
    BY <1>1, AppendAttempt DEF ClaimAttempt, EvaluationInv, PaperTypeOK
  <1>3. LastAttempt(e)' = at /\ AttemptsOf(e)' = AttemptsOf(e) \cup {at}
    BY <1>1, <1>2, AppendAttempt DEF LastAttempt, AttemptsOf
  <1>4. \A f \in Evaluations \ {e} :
            LastAttempt(f)' = LastAttempt(f) /\ AttemptsOf(f)' = AttemptsOf(f)
    BY <1>2 DEF LastAttempt, AttemptsOf
  <1>5. claimed'[e] # Unset /\ \A b \in AttemptsOf(e) \cup {at} : claimed'[e] <= b /\ b <= at
    <2>1. \A b \in AttemptsOf(e) : b <= at
      BY <1>1 DEF ClaimAttempt, OnTime, EvaluationInv, AttemptsAreOrdered
    <2>2. claimed[e] # Unset => claimed[e] <= at
      BY <1>1 DEF ClaimAttempt, OnTime, EvaluationInv, PaperTypeOK
    <2>. QED BY <1>1, <1>2, <2>1, <2>2 DEF EvaluationInv, Journal!JournalAssumption
  <1>6. AttemptsAreOrdered'
    <2>1. attempts'[e] # <<>>
      BY <1>1, <1>2, AppendAttempt
    <2>2. \A i \in 1 .. Len(attempts'[e]) : attempts'[e][i] \in AttemptsOf(e)'
      BY DEF AttemptsOf
    <2>3. \A i \in 1 .. Len(attempts'[e]) :
            claimed'[e] <= attempts'[e][i] /\ attempts'[e][i] <= LastAttempt(e)'
      BY <1>3, <1>5, <2>2
    <2>4. AttemptsAreOrdered
      BY DEF EvaluationInv
    <2>. QED BY <1>2, <1>4, <1>5, <2>1, <2>3, <2>4 DEF AttemptsAreOrdered
  <1>7. \A q \in Evaluators :
            evaluating'[q] = IF q = p THEN [pc |-> "process", evaluation |-> e, at |-> at]
                             ELSE evaluating[q]
    BY DEF ClaimAttempt, EvaluationInv, PaperTypeOK
  <1>8. PaperTypeOK'
    <2>1. evaluating' \in [Evaluators -> Calls \cup {NotEvaluating}]
      BY DEF ClaimAttempt, EvaluationInv, PaperTypeOK, Calls
    <2>2. \A q \in Evaluators : evaluating'[q].pc = "store" <=> lock = q
      BY <1>7 DEF ClaimAttempt, EvaluationInv, PaperTypeOK, PaperAssumption
    <2>. QED BY <1>2, <2>1, <2>2 DEF ClaimAttempt, EvaluationInv, PaperTypeOK, Journal!TypeOK, journalVars
  <1>9. CallsAreAttempts'
    <2> SUFFICES ASSUME NEW q \in Evaluators PROVE CallIsAttempt(evaluating[q])'
      BY DEF CallsAreAttempts
    <2>1. CASE q = p
      BY <1>3, <1>7, <2>1 DEF CallIsAttempt
    <2>2. CASE q # p /\ evaluating[q] # NotEvaluating
      <3>1. PICK k \in Calls : k = evaluating[q]
        BY <2>2 DEF EvaluationInv, PaperTypeOK
      <3>2. k.pc # "store" /\ k.at \in AttemptsOf(k.evaluation) /\ k.evaluation \in Evaluations
        BY <2>2, <3>1 DEF ClaimAttempt, EvaluationInv, PaperTypeOK, PaperAssumption, CallsAreAttempts,
                          CallIsAttempt, Calls
      <3>3. k.at \in AttemptsOf(k.evaluation)'
        BY <1>3, <1>4, <3>2
      <3>. QED BY <1>7, <2>2, <3>1, <3>2, <3>3 DEF CallIsAttempt
    <2>3. CASE q # p /\ evaluating[q] = NotEvaluating
      BY <1>7, <2>3 DEF CallIsAttempt
    <2>. QED BY <2>1, <2>2, <2>3
  <1>10. ResultsAreExplained' /\ ReceiptsAreExplained'
    <2>1. \A f \in Evaluations : AttemptsOf(f) \subseteq AttemptsOf(f)'
      BY <1>3, <1>4
    <2>. QED BY <2>1
         DEF ClaimAttempt, EvaluationInv, ResultsAreExplained, ReceiptsAreExplained, Journal!Known,
             journalVars
  <1>. QED BY <1>6, <1>8, <1>9, <1>10
       DEF ClaimAttempt, EvaluationInv, OutcomesAreExplained, Journal!Known, journalVars, PaperAssumption,
           Journal!JournalAssumption

(* The decision of an attempt reaches the journal, and the lock is taken.   *)
LEMMA RecordInv ==
    ASSUME EvaluationInv, NEW p \in Evaluators, NEW e \in Evaluations, NEW at \in PaperTimes,
           evaluating[p] = [pc |-> "process", evaluation |-> e, at |-> at],
           lock = Unset, ~IsSuperseded(e, at), completed[e] = Unset,
           Journal!Record(DecisionOf[e], at),
           evaluating' = [evaluating EXCEPT ![p].pc = "store"], lock' = p,
           UNCHANGED <<outcomes, claimed, completed, attempts>>
    PROVE  EvaluationInv'
  <1>. DEFINE d == DecisionOf[e]
              k == [pc |-> "store", evaluation |-> e, at |-> at]
  <1>1. /\ d \in Decisions /\ PaperTimes \subseteq Nat /\ Unset \notin PaperTimes /\ at \in Nat
        /\ EvaluatedAt[d] \in Nat
    BY DEF EvaluationInv, PaperAssumption, Journal!JournalAssumption
  <1>2. at \in AttemptsOf(e) /\ LastAttempt(e) <= at
    <2>1. at \in AttemptsOf(e)
      BY DEF EvaluationInv, CallsAreAttempts, CallIsAttempt, NotEvaluating
    <2>2. LastAttempt(e) \in Nat
      BY <2>1, AttemptTimes DEF AttemptsOf
    <2>. QED BY <1>1, <2>1, <2>2 DEF IsSuperseded
  <1>3. /\ receipts'[d] = IF receipts[d] = Unset THEN at ELSE receipts[d]
        /\ \A c \in Decisions \ {d} : receipts'[c] = receipts[c]
        /\ receipts' \in [Decisions -> PaperTimes \cup {Unset}]
        /\ receipts'[d] # Unset /\ receipts'[d] <= at /\ EvaluatedAt[d] <= at
    <2>1. receipts \in [Decisions -> PaperTimes \cup {Unset}]
      BY DEF EvaluationInv, PaperTypeOK, Journal!TypeOK
    <2>. HIDE DEF d
    <2>. QED BY <1>1, <2>1 DEF Journal!Record, Journal!Recordable, d
  <1>4. \A c \in Decisions, t \in PaperTimes : Journal!Known(c, t) => Journal!Known(c, t)'
    BY <1>3 DEF Journal!Known
  <1>5. \A q \in Evaluators : evaluating'[q] = IF q = p THEN k ELSE evaluating[q]
    BY DEF EvaluationInv, PaperTypeOK
  <1>6. PaperTypeOK'
    <2>1. evaluating' \in [Evaluators -> Calls \cup {NotEvaluating}]
      BY <1>5 DEF EvaluationInv, PaperTypeOK, Calls
    <2>2. \A q \in Evaluators : evaluating'[q].pc = "store" <=> lock' = q
      BY <1>5 DEF EvaluationInv, PaperTypeOK, PaperAssumption
    <2>. QED BY <1>3, <2>1, <2>2 DEF EvaluationInv, PaperTypeOK, Journal!TypeOK
  <1>7. CallsAreAttempts'
    <2> SUFFICES ASSUME NEW q \in Evaluators PROVE CallIsAttempt(evaluating[q])'
      BY DEF CallsAreAttempts
    <2>1. CASE q = p
      <3>1. Journal!Known(d, at)'
        BY <1>3 DEF Journal!Known
      <3>. QED BY <1>2, <1>5, <2>1, <3>1, AttemptsStay DEF CallIsAttempt
    <2>2. CASE q # p
      <3>1. evaluating[q].pc # "store"
        BY <2>2 DEF EvaluationInv, PaperTypeOK, PaperAssumption
      <3>2. evaluating'[q] = evaluating[q]
        BY <1>5, <2>2
      <3>. QED BY <3>1, <3>2, AttemptsStay DEF EvaluationInv, CallsAreAttempts, CallIsAttempt
    <2>. QED BY <2>1, <2>2
  <1>8. ReceiptsAreExplained'
    <2> SUFFICES ASSUME NEW c \in Decisions, receipts'[c] # Unset
                 PROVE  /\ EvaluatedAt[c] <= receipts'[c]
                        /\ \E f \in Evaluations :
                             DecisionOf[f] = c /\ receipts'[c] \in AttemptsOf(f)
      BY AttemptsStay DEF ReceiptsAreExplained
    <2>1. CASE receipts[c] # Unset
      <3>1. receipts'[c] = receipts[c]
        BY <1>3, <2>1
      <3>. QED BY <2>1, <3>1 DEF EvaluationInv, ReceiptsAreExplained
    <2>2. CASE receipts[c] = Unset
      <3>1. c = d /\ receipts'[c] = at
        BY <1>3, <2>2
      <3>. QED BY <1>2, <1>3, <3>1
    <2>. QED BY <2>1, <2>2
  <1>9. ResultsAreExplained'
    <2>1. \A f \in Evaluations : completed[f] # Unset =>
            completed[f] \in PaperTimes /\ DecisionOf[f] \in Decisions
      BY DEF EvaluationInv, PaperTypeOK, PaperAssumption
    <2>. QED BY <1>4, <2>1, AttemptsStay DEF EvaluationInv, ResultsAreExplained
  <1>10. OutcomesAreExplained'
    <2>1. \A m \in Measurements : m.decision \in Decisions /\ m.asOf \in PaperTimes
      BY DEF EvaluationInv, Journal!JournalAssumption, Journal!MeasurementShape
    <2>. QED BY <1>4, <2>1 DEF EvaluationInv, OutcomesAreExplained
  <1>. QED BY <1>6, <1>7, <1>8, <1>9, <1>10, AttemptsStay
       DEF EvaluationInv, AttemptsAreOrdered, PaperAssumption, Journal!JournalAssumption

(* The call of a process between its transactions.                          *)
LEMMA CallOf ==
    ASSUME EvaluationInv, NEW p \in Evaluators, evaluating[p].pc # "idle"
    PROVE  /\ evaluating[p] # NotEvaluating /\ evaluating[p] \in Calls
           /\ evaluating[p].evaluation \in Evaluations /\ evaluating[p].at \in PaperTimes
           /\ evaluating[p] = [pc |-> evaluating[p].pc, evaluation |-> evaluating[p].evaluation,
                               at |-> evaluating[p].at]
  BY DEF EvaluationInv, PaperTypeOK, Calls, NotEvaluating

(* A process of the paper evaluation keeps it, whichever step it takes.     *)
LEMMA ProcessInv == ASSUME EvaluationInv, NEW p \in Evaluators, Process(p) PROVE EvaluationInv'
  <1>1. evaluating[p].pc = "process" /\ lock = Unset /\ UNCHANGED <<claimed, completed, attempts>>
    BY DEF Process
  <1>2. PICK e \in Evaluations, at \in PaperTimes :
            evaluating[p] = [pc |-> "process", evaluation |-> e, at |-> at]
    BY <1>1, CallOf
  <1>3. CASE LeaveEvaluation(p) /\ UNCHANGED journalVars
    BY <1>1, <1>3, LeaveEvaluationInv
  <1>4. CASE /\ ~IsSuperseded(e, at) /\ completed[e] = Unset
             /\ Journal!Record(DecisionOf[e], at)
             /\ evaluating' = [evaluating EXCEPT ![p].pc = "store"]
             /\ lock' = p
             /\ UNCHANGED outcomes
    BY <1>1, <1>2, <1>4, RecordInv
  <1>. QED BY <1>2, <1>3, <1>4 DEF Process

(* The result is stored by the only process that may store one.             *)
LEMMA StoreResultInv == ASSUME EvaluationInv, NEW p \in Evaluators, Store(p) PROVE EvaluationInv'
  <1>1. /\ evaluating[p].pc = "store" /\ LeaveEvaluation(p)
        /\ UNCHANGED <<journalVars, claimed, attempts>>
    BY DEF Store
  <1>2. PICK e \in Evaluations, at \in PaperTimes :
            evaluating[p] = [pc |-> "store", evaluation |-> e, at |-> at]
    BY <1>1, CallOf
  <1>3. /\ completed'[e] = at /\ \A f \in Evaluations \ {e} : completed'[f] = completed[f]
        /\ completed' \in [Evaluations -> PaperTimes \cup {Unset}]
    BY <1>2 DEF Store, EvaluationInv, PaperTypeOK
  <1>4. lock = p /\ at \in AttemptsOf(e) /\ Journal!Known(DecisionOf[e], at)
    BY SMTT(20), <1>1, <1>2
       DEF EvaluationInv, PaperTypeOK, CallsAreAttempts, CallIsAttempt, NotEvaluating
  <1>5. \A q \in Evaluators : evaluating'[q] = IF q = p THEN NotEvaluating ELSE evaluating[q]
    BY <1>1 DEF EvaluationInv, PaperTypeOK, LeaveEvaluation
  <1>6. \A q \in Evaluators \ {p} : evaluating[q].pc # "store"
    BY <1>4 DEF EvaluationInv, PaperTypeOK
  <1>7. PaperTypeOK'
    <2>1. evaluating' \in [Evaluators -> Calls \cup {NotEvaluating}] /\ lock' = Unset
      BY <1>1, <1>4 DEF EvaluationInv, PaperTypeOK, LeaveEvaluation
    <2>2. \A q \in Evaluators : evaluating'[q].pc = "store" <=> lock' = q
      BY <1>5, <1>6, <2>1 DEF NotEvaluating, EvaluationInv, PaperAssumption
    <2>. QED BY <1>1, <1>3, <2>1, <2>2 DEF EvaluationInv, PaperTypeOK, Journal!TypeOK, journalVars
  <1>8. CallsAreAttempts'
    <2> SUFFICES ASSUME NEW q \in Evaluators PROVE CallIsAttempt(evaluating[q])'
      BY DEF CallsAreAttempts
    <2>1. CASE q = p
      BY <1>5, <2>1 DEF CallIsAttempt
    <2>2. CASE q # p
      <3>1. evaluating'[q] = evaluating[q] /\ evaluating[q].pc # "store"
        BY <1>5, <1>6, <2>2
      <3>. QED BY <1>1, <3>1, AttemptsStay DEF EvaluationInv, CallsAreAttempts, CallIsAttempt
    <2>. QED BY <2>1, <2>2
  <1>9. ResultsAreExplained'
    BY <1>1, <1>3, <1>4, AttemptsStay
       DEF EvaluationInv, ResultsAreExplained, Journal!Known, journalVars
  <1>. QED BY <1>1, <1>7, <1>8, <1>9, AttemptsStay
       DEF EvaluationInv, AttemptsAreOrdered, ReceiptsAreExplained, OutcomesAreExplained,
           Journal!Known, journalVars, PaperAssumption, Journal!JournalAssumption

(* The first receipt of an outcome stays, and so do the decisions.          *)
LEMMA MeasureInv == ASSUME EvaluationInv, Measure PROVE EvaluationInv'
  <1>1. PICK m \in Measurements, at \in PaperTimes : Journal!RecordOutcome(m, at)
    BY DEF Measure
  <1>2. UNCHANGED <<receipts, claimed, completed, attempts, lock, evaluating>>
    BY DEF Measure
  <1>3. /\ outcomes'[m] = IF outcomes[m] = Unset THEN at ELSE outcomes[m]
        /\ \A n \in Measurements \ {m} : outcomes'[n] = outcomes[n]
        /\ outcomes' \in [Measurements -> PaperTimes \cup {Unset}]
    BY <1>1 DEF Journal!RecordOutcome, EvaluationInv, PaperTypeOK, Journal!TypeOK
  <1>4. PaperTypeOK'
    BY <1>2, <1>3 DEF EvaluationInv, PaperTypeOK, Journal!TypeOK
  <1>5. OutcomesAreExplained'
    BY <1>1, <1>2, <1>3
       DEF EvaluationInv, OutcomesAreExplained, Journal!RecordOutcome, Journal!Known
  <1>6. CallsAreAttempts'
    BY <1>2, AttemptsStay DEF EvaluationInv, CallsAreAttempts, CallIsAttempt, Journal!Known
  <1>. QED BY <1>2, <1>4, <1>5, <1>6, AttemptsStay
       DEF EvaluationInv, AttemptsAreOrdered, ResultsAreExplained, ReceiptsAreExplained,
           Journal!Known, PaperAssumption, Journal!JournalAssumption

(* Every step keeps it.                                                     *)
LEMMA PaperNextInv == EvaluationInv /\ [PaperNext]_paperVars => EvaluationInv'
  <1> SUFFICES ASSUME EvaluationInv, [PaperNext]_paperVars PROVE EvaluationInv'
    OBVIOUS
  <1>1. ASSUME NEW p \in Evaluators, NEW e \in Evaluations, NEW at \in PaperTimes,
               ClaimAttempt(p, e, at)
        PROVE  EvaluationInv'
    BY <1>1, ClaimEvaluationInv
  <1>2. ASSUME NEW p \in Evaluators, EvaluationStep(p) PROVE EvaluationInv'
    BY <1>2, ProcessInv, StoreResultInv, LeaveEvaluationInv DEF EvaluationStep, Busy
  <1>3. ASSUME NEW p \in Evaluators, AbandonEvaluation(p) PROVE EvaluationInv'
    BY <1>3, LeaveEvaluationInv DEF AbandonEvaluation
  <1>4. CASE UNCHANGED paperVars
    <2>1. PaperTypeOK'
      BY <1>4 DEF paperVars, EvaluationInv, PaperTypeOK, Journal!TypeOK
    <2>2. CallsAreAttempts'
      BY <1>4, AttemptsStay DEF paperVars, EvaluationInv, CallsAreAttempts, CallIsAttempt, Journal!Known
    <2>. QED BY <1>4, <2>1, <2>2, AttemptsStay
         DEF paperVars, EvaluationInv, AttemptsAreOrdered, ResultsAreExplained, ReceiptsAreExplained,
             OutcomesAreExplained, Journal!Known, PaperAssumption, Journal!JournalAssumption
  <1>. QED BY <1>1, <1>2, <1>3, <1>4, MeasureInv DEF PaperNext

(* The table of evaluations, its attempts and the journal agree between     *)
(* every two commits of evaluate() (capture/paper.py).                      *)
THEOREM EvaluationInvariant ==
    PaperAssumption /\ Journal!JournalAssumption /\ PaperSpec => []EvaluationInv
  <1>. QED BY PaperInitInv, PaperNextInv, PTL DEF PaperSpec

(* A stored result has its decision in the journal and is dated by one of   *)
(* its attempts, a receipt is the trace of an attempt, an outcome follows   *)
(* its decision (capture/paper.py, evaluate; evaluation/journal.py).        *)
THEOREM ResultsHaveReasons ==
    PaperAssumption /\ Journal!JournalAssumption /\ PaperSpec => []ResultIsExplained
  <1>1. EvaluationInv => ResultIsExplained
    <2> SUFFICES ASSUME EvaluationInv PROVE ResultIsExplained
      OBVIOUS
    <2>1. ASSUME NEW e \in Evaluations, completed[e] # Unset
          PROVE  /\ Journal!Known(DecisionOf[e], completed[e])
                 /\ completed[e] \in AttemptsOf(e)
                 /\ claimed[e] <= completed[e]
      BY <2>1, AttemptTimes DEF EvaluationInv, ResultsAreExplained
    <2>2. ASSUME NEW d \in Decisions, receipts[d] # Unset
          PROVE  \E e \in Evaluations :
                    /\ DecisionOf[e] = d
                    /\ receipts[d] \in AttemptsOf(e)
                    /\ receipts[d] <= LastAttempt(e)
      BY <2>2, AttemptTimes DEF EvaluationInv, ReceiptsAreExplained
    <2>3. ASSUME NEW m \in Measurements, outcomes[m] # Unset
          PROVE  /\ Journal!Known(m.decision, m.asOf)
                 /\ EvaluatedAt[m.decision] <= receipts[m.decision] /\ m.asOf <= outcomes[m]
      <3>1. m.decision \in Decisions
        BY DEF EvaluationInv, Journal!JournalAssumption, Journal!MeasurementShape
      <3>. QED BY <2>3, <3>1
           DEF EvaluationInv, OutcomesAreExplained, ReceiptsAreExplained, Journal!Known
    <2>4. ASSUME NEW d \in Decisions, NEW asOf \in PaperTimes, Journal!Outcomes(d, asOf) # {}
          PROVE  Journal!Known(d, asOf)
      <3>1. PICK m \in Measurements : m.decision = d /\ outcomes[m] # Unset /\ outcomes[m] <= asOf
        BY <2>4 DEF Journal!Outcomes
      <3>2. receipts[d] # Unset /\ receipts[d] <= m.asOf /\ m.asOf <= outcomes[m]
        BY <2>3, <3>1 DEF Journal!Known
      <3>3. receipts[d] \in Nat /\ m.asOf \in Nat /\ outcomes[m] \in Nat /\ asOf \in Nat
        BY <3>1, <3>2
           DEF EvaluationInv, PaperTypeOK, Journal!TypeOK, Journal!JournalAssumption, Journal!MeasurementShape
      <3>. QED BY <3>1, <3>2, <3>3 DEF Journal!Known
    <2>. QED BY <2>1, <2>2, <2>3, <2>4 DEF ResultIsExplained, Journal!OutcomesFollowDecisions
  <1>. QED BY <1>1, EvaluationInvariant, PTL

(* A result, a first receipt and an outcome are never written again, and    *)
(* the attempt that stores a result is the latest (capture/paper.py).       *)
THEOREM StoredStaysStored ==
    PaperAssumption /\ Journal!JournalAssumption /\ PaperSpec => ResultsAreFinal
  <1>. DEFINE Kept ==
        /\ \A e \in Evaluations :
            /\ completed[e] # Unset => completed'[e] = completed[e]
            /\ completed'[e] # completed[e] => completed'[e] >= LastAttempt(e)
        /\ \A d \in Decisions : receipts[d] # Unset => receipts'[d] = receipts[d]
        /\ \A m \in Measurements : outcomes[m] # Unset => outcomes'[m] = outcomes[m]
  <1>1. EvaluationInv /\ [PaperNext]_paperVars => [Kept]_paperVars
    <2> SUFFICES ASSUME EvaluationInv, PaperNext PROVE Kept
      OBVIOUS
    <2>1. ASSUME UNCHANGED <<receipts, outcomes, completed>> PROVE Kept
      BY <2>1
    <2>2. ASSUME NEW p \in Evaluators, NEW e \in Evaluations, NEW at \in PaperTimes,
               ClaimAttempt(p, e, at)
          PROVE  Kept
      BY <2>1, <2>2 DEF ClaimAttempt, journalVars
    <2>3. ASSUME NEW p \in Evaluators, Process(p) PROVE Kept
      <3>1. CASE UNCHANGED journalVars
        BY <2>1, <2>3, <3>1 DEF Process, journalVars
      <3>2. CASE /\ Journal!Record(DecisionOf[evaluating[p].evaluation], evaluating[p].at)
                 /\ UNCHANGED outcomes
        <4>1. \A d \in Decisions : receipts[d] # Unset => receipts'[d] = receipts[d]
          BY <3>2 DEF Journal!Record, EvaluationInv, PaperTypeOK, Journal!TypeOK
        <4>2. completed' = completed
          BY <2>3 DEF Process
        <4>. QED BY <3>2, <4>1, <4>2
      <3>. QED BY <2>3, <3>1, <3>2 DEF Process
    <2>4. ASSUME NEW p \in Evaluators, Store(p) PROVE Kept
      <3>1. PICK e \in Evaluations, at \in PaperTimes :
                evaluating[p] = [pc |-> "store", evaluation |-> e, at |-> at]
        BY <2>4, CallOf DEF Store
      <3>2. at \in AttemptsOf(e) /\ LastAttempt(e) <= at /\ completed[e] = Unset
        BY <3>1 DEF EvaluationInv, CallsAreAttempts, CallIsAttempt, NotEvaluating
      <3>3. completed'[e] = at /\ \A f \in Evaluations \ {e} : completed'[f] = completed[f]
        BY <2>4, <3>1 DEF Store, EvaluationInv, PaperTypeOK
      <3>4. LastAttempt(e) \in Nat /\ at \in Nat
        BY <3>2, AttemptTimes DEF EvaluationInv, Journal!JournalAssumption, AttemptsOf
      <3>5. UNCHANGED <<receipts, outcomes>>
        BY <2>4 DEF Store, journalVars
      <3>. QED BY <3>2, <3>3, <3>4, <3>5
    <2>5. ASSUME NEW p \in Evaluators, Busy(p) \/ AbandonEvaluation(p) PROVE Kept
      BY <2>1, <2>5 DEF Busy, AbandonEvaluation, journalVars
    <2>6. CASE Measure
      <3>1. \A m \in Measurements : outcomes[m] # Unset => outcomes'[m] = outcomes[m]
        BY <2>6 DEF Measure, Journal!RecordOutcome, EvaluationInv, PaperTypeOK, Journal!TypeOK
      <3>. QED BY <2>6, <3>1 DEF Measure
    <2>. QED BY <2>2, <2>3, <2>4, <2>5, <2>6 DEF PaperNext, EvaluationStep
  <1>. QED BY <1>1, EvaluationInvariant, PTL DEF PaperSpec, ResultsAreFinal

-----------------------------------------------------------------------------
(* Facts, and the three orders of them.  What is known at a time has one    *)
(* fact for an identity.                                                    *)
FactType ==
    [at : Nat, id : Nat, source : Sources, key : Nat \cup {NoKey}, label : Labels,
     subjects : SUBSET Subjects, occurred : Nat \cup {NoTime}, published : Nat \cup {NoTime}]
ByKnowledge == [f \in FactType |-> KnowledgeKey(f)]
ByCatalyst == [f \in FactType |-> CatalystKey(f)]
ByEvent == [f \in FactType |-> EventKey(f)]
OneOfEach(S) == S \in SUBSET FactType /\ IsFiniteSet(S) /\ \A f, g \in S : f.id = g.id => f = g

(* A key tells facts apart by their identity, and is compared by KeyBefore.    *)
IsKey(K) ==
    \E n \in Nat : /\ K \in [FactType -> [1 .. n -> Nat]]
                   /\ \A f, g \in FactType : K[f] = K[g] => f.id = g.id

LEMMA PutBefore ==
    ASSUME NEW s \in Seq(Nat), NEW u \in Seq(Nat)
    PROVE  /\ s \o u \in Seq(Nat) /\ Len(s \o u) = Len(s) + Len(u)
           /\ \A i \in 1 .. Len(u) : (s \o u)[Len(s) + i] = u[i]
  <1> DEFINE v == s \o u
  <1>1. /\ v \in Seq(Nat) /\ Len(v) = Len(s) + Len(u) /\ Len(s) \in Nat /\ Len(u) \in Nat
        /\ \A i \in 1 .. Len(u) : v[Len(s) + i] = u[i]
        /\ DOMAIN v = 1 .. Len(v)
    OBVIOUS
  <1> HIDE DEF v
  <1>. QED BY <1>1 DEF v

LEMMA SeqIsFunction ==
    ASSUME NEW s \in Seq(Nat), NEW n, Len(s) = n
    PROVE  s \in [1 .. n -> Nat]
  OBVIOUS

LEMMA KeysAre ==
    /\ IsKey(ByKnowledge) /\ IsKey(ByCatalyst) /\ IsKey(ByEvent)
    /\ \A f \in FactType : /\ ByKnowledge[f] = KnowledgeKey(f)
                           /\ ByCatalyst[f] = CatalystKey(f)
                           /\ ByEvent[f] = EventKey(f)
  <1>1. ASSUME NEW f \in FactType
        PROVE  /\ KnowledgeKey(f) \in [1 .. 2 -> Nat] /\ KnowledgeKey(f)[2] = f.id
               /\ CatalystKey(f) \in [1 .. 4 -> Nat] /\ CatalystKey(f)[4] = f.id
               /\ EventKey(f) \in [1 .. 6 -> Nat] /\ EventKey(f)[6] = f.id
    <2>1. /\ f.at \in Nat /\ f.id \in Nat
          /\ f.occurred \in Nat \cup {NoTime} /\ f.published \in Nat \cup {NoTime}
      BY DEF FactType
    <2>2. /\ Given(f.published, f) \in Seq(Nat) /\ Len(Given(f.published, f)) = 2
          /\ Given(f.occurred, f) \in Seq(Nat) /\ Len(Given(f.occurred, f)) = 2
      BY <2>1 DEF Given
    <2>3. KnowledgeKey(f) \in Seq(Nat) /\ Len(KnowledgeKey(f)) = 2 /\ KnowledgeKey(f)[2] = f.id
      BY <2>1 DEF KnowledgeKey
    <2>4. CatalystKey(f) \in Seq(Nat) /\ Len(CatalystKey(f)) = 4 /\ CatalystKey(f)[4] = f.id
      <3>1. Len(KnowledgeKey(f)) = 2 /\ KnowledgeKey(f) \in Seq(Nat)
        BY <2>3
      <3>2. /\ CatalystKey(f) \in Seq(Nat) /\ Len(CatalystKey(f)) = 2 + 2
            /\ CatalystKey(f)[2 + 2] = KnowledgeKey(f)[2]
        <4> DEFINE g == Given(f.published, f)
                   k == KnowledgeKey(f)
        <4>1. g \in Seq(Nat) /\ Len(g) = 2 /\ CatalystKey(f) = g \o k
          BY <2>2 DEF CatalystKey
        <4>2. k \in Seq(Nat) /\ Len(k) = 2
          BY <3>1
        <4> HIDE DEF g, k
        <4>3. g \o k \in Seq(Nat) /\ Len(g \o k) = Len(g) + Len(k)
              /\ \A i \in 1 .. Len(k) : (g \o k)[Len(g) + i] = k[i]
          BY ONLY <4>1, <4>2, PutBefore
        <4>. QED BY <4>1, <4>2, <4>3 DEF k
      <3>. QED BY <2>3, <3>2
    <2>5. EventKey(f) \in Seq(Nat) /\ Len(EventKey(f)) = 6 /\ EventKey(f)[6] = f.id
      <3>1. Len(CatalystKey(f)) = 4 /\ CatalystKey(f) \in Seq(Nat)
        BY <2>4
      <3>2. /\ EventKey(f) \in Seq(Nat) /\ Len(EventKey(f)) = 2 + 4
            /\ EventKey(f)[2 + 4] = CatalystKey(f)[4]
        <4> DEFINE g == Given(f.occurred, f)
                   k == CatalystKey(f)
        <4>1. g \in Seq(Nat) /\ Len(g) = 2 /\ EventKey(f) = g \o k
          BY <2>2 DEF EventKey
        <4>2. k \in Seq(Nat) /\ Len(k) = 4
          BY <3>1
        <4> HIDE DEF g, k
        <4>3. g \o k \in Seq(Nat) /\ Len(g \o k) = Len(g) + Len(k)
              /\ \A i \in 1 .. Len(k) : (g \o k)[Len(g) + i] = k[i]
          BY ONLY <4>1, <4>2, PutBefore
        <4>. QED BY <4>1, <4>2, <4>3 DEF k
      <3>. QED BY <2>4, <3>2
    <2>6. /\ KnowledgeKey(f) \in [1 .. 2 -> Nat] /\ CatalystKey(f) \in [1 .. 4 -> Nat]
          /\ EventKey(f) \in [1 .. 6 -> Nat]
      BY <2>3, <2>4, <2>5, SeqIsFunction
    <2>. QED BY <2>3, <2>4, <2>5, <2>6
  <1>2. IsKey(ByKnowledge)
    <2>1. ByKnowledge \in [FactType -> [1 .. 2 -> Nat]]
      BY <1>1 DEF ByKnowledge
    <2>2. \A f, g \in FactType : ByKnowledge[f] = ByKnowledge[g] => f.id = g.id
      BY <1>1 DEF ByKnowledge
    <2>3. 2 \in Nat
      OBVIOUS
    <2>. QED BY <2>1, <2>2, <2>3 DEF IsKey
  <1>3. IsKey(ByCatalyst)
    <2>1. ByCatalyst \in [FactType -> [1 .. 4 -> Nat]]
      BY <1>1 DEF ByCatalyst
    <2>2. \A f, g \in FactType : ByCatalyst[f] = ByCatalyst[g] => f.id = g.id
      BY <1>1 DEF ByCatalyst
    <2>3. 4 \in Nat
      OBVIOUS
    <2>. QED BY <2>1, <2>2, <2>3 DEF IsKey
  <1>4. IsKey(ByEvent)
    <2>1. ByEvent \in [FactType -> [1 .. 6 -> Nat]]
      BY <1>1 DEF ByEvent
    <2>2. \A f, g \in FactType : ByEvent[f] = ByEvent[g] => f.id = g.id
      BY <1>1 DEF ByEvent
    <2>3. 6 \in Nat
      OBVIOUS
    <2>. QED BY <2>1, <2>2, <2>3 DEF IsKey
  <1>. QED BY <1>2, <1>3, <1>4 DEF ByKnowledge, ByCatalyst, ByEvent

(* A set of facts in the order of a key.                                    *)
KeyOrder(S, K) == {p \in S \X S : KeyBefore(K[p[1]], K[p[2]])}
InKeyOrder(S, K) == Enumerate(S, KeyOrder(S, K))

LEMMA KeysOrder ==
    ASSUME NEW K, IsKey(K), NEW S, OneOfEach(S)
    PROVE  StrictOrder(S, KeyOrder(S, K))
  <1>1. PICK n \in Nat : /\ K \in [FactType -> [1 .. n -> Nat]]
                         /\ \A f, g \in FactType : K[f] = K[g] => f.id = g.id
    BY DEF IsKey
  <1>2. \A f \in S : f \in FactType /\ K[f] \in [1 .. n -> Nat]
    BY <1>1 DEF OneOfEach
  <1>3. \A f, g \in S : <<f, g>> \in KeyOrder(S, K) <=> KeyBefore(K[f], K[g])
    BY DEF KeyOrder
  <1>0. \A a, b, c \in [1 .. n -> Nat] :
            /\ ~KeyBefore(a, a)
            /\ KeyBefore(a, b) /\ KeyBefore(b, c) => KeyBefore(a, c)
            /\ a = b \/ KeyBefore(a, b) \/ KeyBefore(b, a)
    <2>1. Nat \subseteq Int
      OBVIOUS
    <2>. QED BY <2>1, KeysInOrder
  <1>4. \A f \in S : <<f, f>> \notin KeyOrder(S, K)
    BY <1>2, <1>3, <1>0
  <1>5. \A f, g, h \in S : <<f, g>> \in KeyOrder(S, K) /\ <<g, h>> \in KeyOrder(S, K)
                                => <<f, h>> \in KeyOrder(S, K)
    BY <1>2, <1>3, <1>0
  <1>6. ASSUME NEW f \in S, NEW g \in S
        PROVE  f = g \/ <<f, g>> \in KeyOrder(S, K) \/ <<g, f>> \in KeyOrder(S, K)
    <2>1. K[f] = K[g] \/ KeyBefore(K[f], K[g]) \/ KeyBefore(K[g], K[f])
      BY <1>2, <1>0
    <2>2. K[f] = K[g] => f = g
      BY <1>1, <1>2 DEF OneOfEach
    <2>. QED BY <1>3, <2>1, <2>2
  <1>. QED BY <1>4, <1>5, <1>6 DEF StrictOrder

(* What such a sequence is.                                                 *)
Ordered(s, S, K) ==
    /\ Cardinality(S) \in Nat /\ s \in Seq(S) /\ DOMAIN s = 1 .. Len(s) /\ Len(s) = Cardinality(S)
    /\ \A i, j \in 1 .. Len(s) : i < j <=> KeyBefore(K[s[i]], K[s[j]])
    /\ \A i, j \in 1 .. Len(s) : s[i] = s[j] => i = j
    /\ \A i \in 1 .. Len(s) : s[i] \in S
    /\ \A f \in S : \E i \in 1 .. Len(s) : s[i] = f
    /\ ToSet(s) = S

LEMMA OrderedIs ==
    ASSUME NEW K, IsKey(K), NEW S, OneOfEach(S)
    PROVE  Ordered(InKeyOrder(S, K), S, K)
  <1> DEFINE R == KeyOrder(S, K)
             e == Enumerate(S, R)
  <1>1. StrictOrder(S, R)
    BY KeysOrder
  <1>2. IsFiniteSet(S)
    BY DEF OneOfEach
  <1>3. \A f, g \in S : <<f, g>> \in R <=> KeyBefore(K[f], K[g])
    BY DEF KeyOrder
  <1> HIDE DEF R
  <1>4. /\ Cardinality(S) \in Nat /\ e \in [1 .. Cardinality(S) -> S]
        /\ e \in Seq(S) /\ Len(e) = Cardinality(S) /\ DOMAIN e = 1 .. Cardinality(S)
        /\ \A i, j \in 1 .. Cardinality(S) : i < j <=> <<e[i], e[j]>> \in R
        /\ \A i, j \in 1 .. Cardinality(S) : e[i] = e[j] => i = j
        /\ \A x \in S : \E i \in 1 .. Cardinality(S) : e[i] = x
    BY ONLY <1>1, <1>2, Enumerated
  <1> HIDE DEF e
  <1>5. \A i \in 1 .. Cardinality(S) : e[i] \in S
    BY <1>4
  <1>6. ToSet(e) = S
    BY <1>4, <1>5 DEF ToSet
  <1>7. \A i, j \in 1 .. Len(e) : i < j <=> KeyBefore(K[e[i]], K[e[j]])
    BY <1>3, <1>4, <1>5
  <1>8. Ordered(e, S, K)
    BY <1>4, <1>5, <1>6, <1>7 DEF Ordered
  <1>. QED BY <1>8 DEF e, R, InKeyOrder

LEMMA SomeOfEach ==
    ASSUME NEW S, OneOfEach(S), NEW T, T \subseteq S
    PROVE  /\ OneOfEach(T) /\ Cardinality(T) \in Nat /\ Cardinality(S) \in Nat
           /\ Cardinality(T) <= Cardinality(S)
  <1>1. IsFiniteSet(S)
    BY DEF OneOfEach
  <1>2. IsFiniteSet(T) /\ Cardinality(T) <= Cardinality(S)
    BY <1>1, FS_Subset
  <1>3. Cardinality(T) \in Nat /\ Cardinality(S) \in Nat
    BY <1>1, <1>2, FS_CardinalityType
  <1>. QED BY <1>2, <1>3 DEF OneOfEach

(* What is selected from facts in order is in order.                        *)
LEMMA FilteredFacts ==
    ASSUME NEW K, IsKey(K), NEW S, OneOfEach(S), NEW T
    PROVE  Filtered(InKeyOrder(S, K), T) = InKeyOrder(S \cap T, K)
  <1> DEFINE s == InKeyOrder(S, K)
             U == S \cap T
             Q == KeyOrder(U, K)
             I == Where(s, T)
             e == Enumerate(I, Upward(I))
             n == Cardinality(I)
             t == Filtered(s, T)
  <1>1. /\ s \in Seq(S) /\ DOMAIN s = 1 .. Len(s) /\ Len(s) \in Nat
        /\ \A i, j \in 1 .. Len(s) : i < j <=> KeyBefore(K[s[i]], K[s[j]])
        /\ \A i \in 1 .. Len(s) : s[i] \in S
        /\ \A f \in S : \E i \in 1 .. Len(s) : s[i] = f
    BY OrderedIs DEF Ordered
  <1>2. OneOfEach(U)
    BY SomeOfEach
  <1>3. IsFiniteSet(U) /\ StrictOrder(U, Q)
    BY <1>2, KeysOrder DEF OneOfEach
  <1>4. \A f, g \in U : <<f, g>> \in Q <=> KeyBefore(K[f], K[g])
    BY DEF KeyOrder
  <1>5. \A f : f \in U <=> f \in S /\ f \in T
    OBVIOUS
  <1>6. /\ I \subseteq 1 .. Len(s) /\ Climbs(e, n, I) /\ t = [k \in 1 .. n |-> s[e[k]]]
    <2> HIDE DEF s
    <2>1. Filters(S, s, T)
      BY <1>1, WhereIs
    <2>. QED BY <2>1 DEF Filters
  <1>7. \A i : i \in I <=> i \in 1 .. Len(s) /\ s[i] \in T
    BY <1>1 DEF Where
  <1> HIDE DEF s, U, Q, I, e, n, t
  <1>8. /\ n \in Nat /\ e \in [1 .. n -> I] /\ \A y \in I : \E k \in 1 .. n : e[k] = y
        /\ \A j, k \in 1 .. n : j < k <=> e[j] < e[k]
    BY <1>6 DEF Climbs
  <1>9. \A k \in 1 .. n : e[k] \in I /\ e[k] \in 1 .. Len(s) /\ t[k] = s[e[k]] /\ t[k] \in U
    BY <1>1, <1>5, <1>6, <1>7, <1>8
  <1>10. t \in [1 .. n -> U]
    BY <1>6, <1>9
  <1>11. \A i, j \in 1 .. n : i < j => <<t[i], t[j]>> \in Q
    BY <1>1, <1>4, <1>8, <1>9
  <1>12. ASSUME NEW f \in U PROVE \E k \in 1 .. n : t[k] = f
    <2>1. PICK i \in 1 .. Len(s) : s[i] = f
      BY <1>1, <1>5
    <2>2. i \in I
      BY <1>5, <1>7, <2>1
    <2>3. PICK k \in 1 .. n : e[k] = i
      BY <1>8, <2>2
    <2>. QED BY <1>9, <2>1, <2>3
  <1>13. n \in Nat
    BY <1>8
  <1>14. t = Enumerate(U, Q)
    BY ONLY <1>3, <1>10, <1>11, <1>12, <1>13, EnumeratedOnce
  <1>. QED BY <1>14 DEF t, s, U, Q, InKeyOrder

-----------------------------------------------------------------------------
(* What a request asks for, and the versions that nothing supersedes.       *)
From(request) == {f \in FactType : f.source = request.source}
Wanted(request) == {f \in FactType : Matches(f, request)}
Newer(S, f) == {g \in S : g.key = f.key /\ KeyBefore(ByKnowledge[f], ByKnowledge[g])}
Tops(S) == {f \in S : f.key = NoKey \/ Newer(S, f) = {}}
Known(S) == InKeyOrder(S, ByKnowledge)

LEMMA RequestsSelect ==
    ASSUME NEW S, OneOfEach(S), NEW request
    PROVE  /\ OfSource(Known(S), request) = Known(S \cap From(request))
           /\ Matching(Known(S), request) = Known(S \cap Wanted(request))
  <1>1. \A i \in DOMAIN Known(S) : Known(S)[i] \in FactType
    BY KeysAre, OrderedIs DEF Ordered, Known, OneOfEach
  <1>2. OfSource(Known(S), request) = Filtered(Known(S), From(request))
    <2>1. {i \in DOMAIN Known(S) : Known(S)[i].source = request.source}
            = Where(Known(S), From(request))
      BY <1>1 DEF Where, From
    <2>. QED BY <2>1 DEF OfSource, Select, Filtered
  <1>3. Matching(Known(S), request) = Filtered(Known(S), Wanted(request))
    <2>1. {i \in DOMAIN Known(S) : Matches(Known(S)[i], request)} = Where(Known(S), Wanted(request))
      BY <1>1 DEF Where, Wanted
    <2>. QED BY <2>1 DEF Matching, Select, Filtered
  <1>4. \A T : Filtered(Known(S), T) = Known(S \cap T)
    BY KeysAre, FilteredFacts DEF Known
  <1>. QED BY <1>2, <1>3, <1>4

LEMMA WinnersAre ==
    ASSUME NEW S, OneOfEach(S)
    PROVE  Winners(Known(S)) = Tops(S)
  <1> DEFINE s == Known(S)
             Superseded(i) == s[i].key # NoKey /\ \E j \in i + 1 .. Len(s) : s[j].key = s[i].key
  <1>1. /\ DOMAIN s = 1 .. Len(s) /\ Len(s) \in Nat
        /\ \A i, j \in 1 .. Len(s) : i < j <=> KeyBefore(ByKnowledge[s[i]], ByKnowledge[s[j]])
        /\ \A i \in 1 .. Len(s) : s[i] \in S
        /\ \A f \in S : \E i \in 1 .. Len(s) : s[i] = f
    BY KeysAre, OrderedIs DEF Ordered, Known
  <1>2. Winners(s) = {s[i] : i \in {i \in DOMAIN s : ~Superseded(i)}}
    BY DEF Winners
  <1> HIDE DEF s
  <1>3. ASSUME NEW i \in 1 .. Len(s)
        PROVE  Superseded(i) <=> s[i].key # NoKey /\ Newer(S, s[i]) # {}
    <2>1. ASSUME NEW j \in i + 1 .. Len(s), s[j].key = s[i].key PROVE s[j] \in Newer(S, s[i])
      <3>1. j \in 1 .. Len(s) /\ i < j
        BY <1>1
      <3>. QED BY <1>1, <2>1, <3>1 DEF Newer
    <2>2. ASSUME NEW g \in Newer(S, s[i]) PROVE \E j \in i + 1 .. Len(s) : s[j].key = s[i].key
      <3>1. g \in S /\ g.key = s[i].key /\ KeyBefore(ByKnowledge[s[i]], ByKnowledge[g])
        BY DEF Newer
      <3>2. PICK j \in 1 .. Len(s) : s[j] = g
        BY <1>1, <3>1
      <3>3. i < j
        BY <1>1, <3>1, <3>2
      <3>4. j \in i + 1 .. Len(s)
        BY <1>1, <3>3
      <3>. QED BY <3>1, <3>2, <3>4
    <2>. QED BY <2>1, <2>2
  <1> HIDE DEF Superseded
  <1>4. ASSUME NEW f \in Tops(S) PROVE f \in Winners(s)
    <2>1. PICK i \in 1 .. Len(s) : s[i] = f
      BY <1>1 DEF Tops
    <2>2. ~Superseded(i)
      BY <1>3, <2>1 DEF Tops
    <2>. QED BY <1>1, <1>2, <2>1, <2>2
  <1>5. ASSUME NEW f \in Winners(s) PROVE f \in Tops(S)
    <2>1. PICK i \in 1 .. Len(s) : s[i] = f /\ ~Superseded(i)
      BY <1>1, <1>2
    <2>. QED BY <1>1, <1>3, <2>1 DEF Tops
  <1>. QED BY <1>4, <1>5 DEF s

(* One version of a key is left, and if there is any fact, one is left.     *)
LEMMA TopsAre ==
    ASSUME NEW S, OneOfEach(S)
    PROVE  /\ \A f, g \in Tops(S) : f.key = g.key /\ f.key # NoKey => f = g
           /\ S # {} => Tops(S) # {}
  <1> DEFINE s == Known(S)
  <1>1. /\ DOMAIN s = 1 .. Len(s) /\ Len(s) \in Nat /\ Len(s) = Cardinality(S)
        /\ \A i, j \in 1 .. Len(s) : i < j <=> KeyBefore(ByKnowledge[s[i]], ByKnowledge[s[j]])
        /\ \A i \in 1 .. Len(s) : s[i] \in S
        /\ \A f \in S : \E i \in 1 .. Len(s) : s[i] = f
    BY KeysAre, OrderedIs DEF Ordered, Known
  <1> HIDE DEF s
  <1>2. ASSUME NEW f \in Tops(S), NEW g \in Tops(S), f.key = g.key, f.key # NoKey
        PROVE  f = g
    <2>1. Newer(S, f) = {} /\ Newer(S, g) = {} /\ f \in S /\ g \in S
      BY <1>2 DEF Tops
    <2>2. PICK i \in 1 .. Len(s) : s[i] = f
      BY <1>1, <2>1
    <2>3. PICK j \in 1 .. Len(s) : s[j] = g
      BY <1>1, <2>1
    <2>4. ~(i < j) /\ ~(j < i)
      BY <1>1, <1>2, <2>1, <2>2, <2>3 DEF Newer
    <2>. QED BY <2>2, <2>3, <2>4
  <1>3. ASSUME S # {} PROVE Tops(S) # {}
    <2>1. Len(s) \in 1 .. Len(s)
      BY <1>1, <1>3
    <2>2. Newer(S, s[Len(s)]) = {}
      <3> SUFFICES ASSUME NEW g \in Newer(S, s[Len(s)]) PROVE FALSE
        OBVIOUS
      <3>1. g \in S /\ KeyBefore(ByKnowledge[s[Len(s)]], ByKnowledge[g])
        BY DEF Newer
      <3>2. PICK j \in 1 .. Len(s) : s[j] = g
        BY <1>1, <3>1
      <3>3. Len(s) < j
        BY <1>1, <2>1, <3>1, <3>2
      <3>. QED BY <1>1, <3>3
    <2>. QED BY <1>1, <2>1, <2>2 DEF Tops
  <1>. QED BY <1>2, <1>3

-----------------------------------------------------------------------------
(* The histories of the three engines.                                      *)
Received(S, request) == S \cap From(request)
Asked(S, request) == Received(S, request) \cap Wanted(request)

LEMMA SortedFacts ==
    ASSUME NEW S, S \subseteq FactType
    PROVE  /\ Sorted(S, LAMBDA a, b : KeyBefore(KnowledgeKey(a), KnowledgeKey(b))) = Known(S)
           /\ Sorted(S, LAMBDA a, b : KeyBefore(CatalystKey(a), CatalystKey(b)))
                = InKeyOrder(S, ByCatalyst)
           /\ Sorted(S, LAMBDA a, b : KeyBefore(EventKey(a), EventKey(b))) = InKeyOrder(S, ByEvent)
  <1>1. \A p \in S \X S : p[1] \in FactType /\ p[2] \in FactType
    OBVIOUS
  <1>2. {p \in S \X S : KeyBefore(KnowledgeKey(p[1]), KnowledgeKey(p[2]))} = KeyOrder(S, ByKnowledge)
    BY <1>1, KeysAre DEF KeyOrder
  <1>3. {p \in S \X S : KeyBefore(CatalystKey(p[1]), CatalystKey(p[2]))} = KeyOrder(S, ByCatalyst)
    BY <1>1, KeysAre DEF KeyOrder
  <1>4. {p \in S \X S : KeyBefore(EventKey(p[1]), EventKey(p[2]))} = KeyOrder(S, ByEvent)
    BY <1>1, KeysAre DEF KeyOrder
  <1>. QED BY <1>2, <1>3, <1>4 DEF Sorted, Known, InKeyOrder

LEMMA HistoriesAre ==
    ASSUME NEW S, OneOfEach(S), NEW request
    PROVE  /\ OfSource(Known(S), request) = Known(Received(S, request))
           /\ Eligible(Known(S), request) = Known(Asked(S, request))
           /\ CatalystHistory(Known(S), request)
                = InKeyOrder(Tops(Asked(S, request)), ByCatalyst)
           /\ EventHistory(Known(S), request) = InKeyOrder(Tops(Asked(S, request)), ByEvent)
           /\ InsiderHistory(Known(S), request)
                = Known(Tops(Received(S, request)) \cap Wanted(request))
           /\ OneOfEach(Received(S, request)) /\ OneOfEach(Asked(S, request))
  <1> DEFINE R == Received(S, request)
             E == Asked(S, request)
             T == Tops(R) \cap Wanted(request)
  <1>1. OneOfEach(R) /\ OneOfEach(E)
    <2>1. R \subseteq S /\ E \subseteq S
      BY DEF Received, Asked
    <2>. QED BY <2>1, SomeOfEach
  <1>2. OfSource(Known(S), request) = Known(R)
    BY RequestsSelect DEF Received
  <1>3. Eligible(Known(S), request) = Known(E)
    <2>1. Matching(Known(R), request) = Known(R \cap Wanted(request))
      BY <1>1, RequestsSelect
    <2>. QED BY <1>2, <2>1 DEF Eligible, Asked
  <1>4. Winners(Known(E)) = Tops(E) /\ Tops(E) \subseteq FactType
    BY <1>1, WinnersAre DEF OneOfEach, Tops
  <1>5. Winners(Known(R)) = Tops(R) /\ Tops(R) \subseteq R
    BY <1>1, WinnersAre DEF Tops
  <1>6. Select(Known(R), LAMBDA fact : fact \in Winners(Known(R)) /\ Matches(fact, request))
          = Filtered(Known(R), T)
    <2>1. \A i \in DOMAIN Known(R) : Known(R)[i] \in FactType
      BY <1>1, KeysAre, OrderedIs DEF Ordered, Known, OneOfEach
    <2>2. {i \in DOMAIN Known(R) : Known(R)[i] \in Winners(Known(R)) /\ Matches(Known(R)[i], request)}
            = Where(Known(R), T)
      BY <1>5, <2>1 DEF Where, Wanted
    <2>. QED BY <2>2 DEF Select, Filtered
  <1>7. Filtered(Known(R), T) = Known(R \cap T)
    BY <1>1, KeysAre, FilteredFacts DEF Known
  <1>8. R \cap T = T
    BY <1>5
  <1>9. InsiderHistory(Known(S), request) = Known(T)
    BY <1>2, <1>6, <1>7, <1>8 DEF InsiderHistory
  <1>10. /\ CatalystHistory(Known(S), request) = InKeyOrder(Tops(E), ByCatalyst)
         /\ EventHistory(Known(S), request) = InKeyOrder(Tops(E), ByEvent)
    BY <1>3, <1>4, SortedFacts DEF CatalystHistory, EventHistory
  <1>. QED BY <1>1, <1>2, <1>3, <1>9, <1>10

(* A version that no version supersedes is superseded by none of those that *)
(* are asked for.                                                           *)
LEMMA TopsOfFewer ==
    ASSUME NEW S, NEW T
    PROVE  /\ Tops(S) \cap T \subseteq Tops(S \cap T)
           /\ Tops(S) \subseteq S
  BY DEF Tops, Newer

(* What every history satisfies.                                            *)
LEMMA HistoryIsSelected ==
    ASSUME NEW S, OneOfEach(S), NEW request, \A f \in S : f.at <= request.asOf,
           NEW U, U \subseteq Asked(S, request),
           \A f, g \in U : f.key = g.key /\ f.key # NoKey => f = g,
           NEW K, IsKey(K)
    PROVE  /\ Selected(InKeyOrder(U, K), request)
           /\ \A i \in 2 .. Len(InKeyOrder(U, K)) :
                KeyBefore(K[InKeyOrder(U, K)[i - 1]], K[InKeyOrder(U, K)[i]])
           /\ Len(InKeyOrder(U, K)) = Cardinality(U) /\ ToSet(InKeyOrder(U, K)) = U
           /\ \A i \in DOMAIN InKeyOrder(U, K) : InKeyOrder(U, K)[i] \in FactType
           /\ DOMAIN InKeyOrder(U, K) = 1 .. Len(InKeyOrder(U, K))
           /\ Len(InKeyOrder(U, K)) \in Nat
  <1> DEFINE h == InKeyOrder(U, K)
  <1>1. U \subseteq S
    BY DEF Asked, Received
  <1>2. OneOfEach(U)
    BY <1>1, SomeOfEach
  <1>3. \A f \in U : f \in FactType /\ f.source = request.source /\ Matches(f, request)
    BY DEF Asked, Received, From, Wanted
  <1>4. Ordered(h, U, K)
    BY <1>2, OrderedIs
  <1> HIDE DEF h
  <1>5. /\ DOMAIN h = 1 .. Len(h) /\ Len(h) = Cardinality(U) /\ Len(h) \in Nat /\ ToSet(h) = U
        /\ \A i, j \in 1 .. Len(h) : i < j <=> KeyBefore(K[h[i]], K[h[j]])
        /\ \A i, j \in 1 .. Len(h) : h[i] = h[j] => i = j
        /\ \A i \in 1 .. Len(h) : h[i] \in U
    BY <1>4 DEF Ordered
  <1>6. \A i \in DOMAIN h :
            h[i].source = request.source /\ h[i].at <= request.asOf /\ Matches(h[i], request)
    BY <1>1, <1>3, <1>5
  <1>7. \A i, j \in DOMAIN h : h[i].key = h[j].key /\ h[i].key # NoKey => i = j
    BY <1>5
  <1>8. ASSUME NEW i \in 2 .. Len(h) PROVE KeyBefore(K[h[i - 1]], K[h[i]])
    <2>1. i - 1 \in 1 .. Len(h) /\ i \in 1 .. Len(h) /\ i - 1 < i
      BY <1>5
    <2>. QED BY <1>5, <2>1
  <1>9. Selected(h, request)
    BY <1>6, <1>7 DEF Selected
  <1>10. \A i \in DOMAIN h : h[i] \in FactType
    BY <1>3, <1>5
  <1>. QED BY <1>5, <1>8, <1>9, <1>10 DEF h

(* A request of a source at a time, and the filter that lets all pass.      *)
LEMMA AllPass ==
    ASSUME NEW S, S \subseteq FactType, NEW asOf, NEW source
    PROVE  /\ Asked(S, Unfiltered(asOf, source)) = Received(S, Unfiltered(asOf, source))
           /\ Unfiltered(asOf, source).source = source /\ Unfiltered(asOf, source).asOf = asOf
           /\ \A f \in S : f \in Wanted(Unfiltered(asOf, source))
  <1> DEFINE all == Unfiltered(asOf, source)
  <1>1. /\ all.labels = Labels /\ all.subjects = {} /\ all.occurred = Always
        /\ all.published = Always /\ all.source = source /\ all.asOf = asOf
    BY DEF Unfiltered
  <1> HIDE DEF all
  <1>2. \A time : In(time, Always)
    BY DEF In, Always
  <1>3. \A f \in FactType : f.label \in Labels
    BY DEF FactType
  <1>4. \A f \in S : f \in Wanted(all)
    BY <1>1, <1>2, <1>3 DEF Wanted, Matches
  <1>5. Asked(S, all) = Received(S, all)
    BY <1>4 DEF Asked, Received
  <1>. QED BY <1>1, <1>4, <1>5 DEF all

LEMMA ContractsHold ==
    ASSUME NEW S, OneOfEach(S), NEW request, \A f \in S : f.at <= request.asOf
    PROVE  /\ ValidCatalystHistory(CatalystHistory(Known(S), request), Known(S), request)
           /\ ValidEventHistory(EventHistory(Known(S), request), Known(S), request)
           /\ ValidInsiderHistory(InsiderHistory(Known(S), request), Known(S), request)
           /\ ToSet(CatalystHistory(Known(S), request)) = Tops(Asked(S, request))
           /\ ToSet(EventHistory(Known(S), request)) = Tops(Asked(S, request))
           /\ ToSet(InsiderHistory(Known(S), request))
                = Tops(Received(S, request)) \cap Wanted(request)
  <1> DEFINE facts == Known(S)
             R == Received(S, request)
             E == Asked(S, request)
             W == Tops(E)
             T == Tops(R) \cap Wanted(request)
             catalysts == InKeyOrder(W, ByCatalyst)
             global == InKeyOrder(W, ByEvent)
             insiders == Known(T)
  <1>1. /\ OneOfEach(R) /\ OneOfEach(E) /\ R \subseteq S /\ E \subseteq R
        /\ OfSource(facts, request) = Known(R) /\ Eligible(facts, request) = Known(E)
        /\ CatalystHistory(facts, request) = catalysts /\ EventHistory(facts, request) = global
        /\ InsiderHistory(facts, request) = insiders
    BY HistoriesAre DEF Received, Asked
  <1>2. /\ W \subseteq E /\ T \subseteq W /\ T \subseteq Tops(R) /\ Tops(R) \subseteq R
        /\ \A f, g \in W : f.key = g.key /\ f.key # NoKey => f = g
        /\ \A f, g \in T : f.key = g.key /\ f.key # NoKey => f = g
    <2>1. \A f, g \in W : f.key = g.key /\ f.key # NoKey => f = g
      BY <1>1, TopsAre
    <2>2. \A f, g \in Tops(R) : f.key = g.key /\ f.key # NoKey => f = g
      BY <1>1, TopsAre
    <2>3. W \subseteq E /\ T \subseteq W /\ Tops(R) \subseteq R
      BY TopsOfFewer DEF Asked
    <2>. QED BY <2>1, <2>2, <2>3
  <1>3. /\ Cardinality(S) \in Nat /\ Cardinality(R) \in Nat /\ Cardinality(E) \in Nat
        /\ Cardinality(W) \in Nat /\ Cardinality(T) \in Nat /\ Cardinality(Tops(R)) \in Nat
        /\ Cardinality(R) <= Cardinality(S) /\ Cardinality(E) <= Cardinality(R)
        /\ Cardinality(W) <= Cardinality(E) /\ Cardinality(T) <= Cardinality(Tops(R))
        /\ Cardinality(Tops(R)) <= Cardinality(R)
    <2> HIDE DEF R, E, W, T
    <2>1. Cardinality(R) <= Cardinality(S) /\ Cardinality(S) \in Nat /\ Cardinality(R) \in Nat
      BY <1>1, SomeOfEach
    <2>2. Cardinality(E) <= Cardinality(R) /\ Cardinality(E) \in Nat
      BY <1>1, SomeOfEach
    <2>3. Cardinality(W) <= Cardinality(E) /\ Cardinality(W) \in Nat
      BY <1>1, <1>2, SomeOfEach
    <2>4. /\ OneOfEach(Tops(R)) /\ Cardinality(Tops(R)) <= Cardinality(R)
          /\ Cardinality(Tops(R)) \in Nat
      BY <1>1, <1>2, SomeOfEach
    <2>5. Cardinality(T) <= Cardinality(Tops(R)) /\ Cardinality(T) \in Nat
      BY <1>2, <2>4, SomeOfEach
    <2>. QED BY <2>1, <2>2, <2>3, <2>4, <2>5
  <1>4. /\ Len(facts) = Cardinality(S) /\ Len(Known(R)) = Cardinality(R)
        /\ Len(Known(E)) = Cardinality(E) /\ Winners(Known(R)) = Tops(R)
    <2>1. Ordered(facts, S, ByKnowledge) /\ Ordered(Known(R), R, ByKnowledge)
          /\ Ordered(Known(E), E, ByKnowledge)
      BY <1>1, KeysAre, OrderedIs DEF Known
    <2>. QED BY <1>1, <2>1, WinnersAre DEF Ordered
  <1>5. /\ Selected(catalysts, request) /\ Len(catalysts) = Cardinality(W) /\ ToSet(catalysts) = W
        /\ InOrder(catalysts, CatalystKey)
    <2> HIDE DEF W
    <2>1. /\ Selected(catalysts, request) /\ Len(catalysts) = Cardinality(W)
          /\ ToSet(catalysts) = W /\ Len(catalysts) \in Nat
          /\ \A i \in 2 .. Len(catalysts) :
                KeyBefore(ByCatalyst[catalysts[i - 1]], ByCatalyst[catalysts[i]])
          /\ \A i \in 1 .. Len(catalysts) : catalysts[i] \in FactType
      BY <1>2, KeysAre, HistoryIsSelected
    <2> HIDE DEF catalysts
    <2>2. ASSUME NEW i \in 2 .. Len(catalysts)
          PROVE  KeyBefore(CatalystKey(catalysts[i - 1]), CatalystKey(catalysts[i]))
      <3>1. i - 1 \in 1 .. Len(catalysts) /\ i \in 1 .. Len(catalysts)
        BY <2>1
      <3>. QED BY <2>1, <3>1, KeysAre
    <2>. QED BY <2>1, <2>2 DEF InOrder
  <1>6. /\ Selected(global, request) /\ Len(global) = Cardinality(W) /\ ToSet(global) = W
        /\ InOrder(global, EventKey)
    <2> HIDE DEF W
    <2>1. /\ Selected(global, request) /\ Len(global) = Cardinality(W)
          /\ ToSet(global) = W /\ Len(global) \in Nat
          /\ \A i \in 2 .. Len(global) : KeyBefore(ByEvent[global[i - 1]], ByEvent[global[i]])
          /\ \A i \in 1 .. Len(global) : global[i] \in FactType
      BY <1>2, KeysAre, HistoryIsSelected
    <2> HIDE DEF global
    <2>2. ASSUME NEW i \in 2 .. Len(global)
          PROVE  KeyBefore(EventKey(global[i - 1]), EventKey(global[i]))
      <3>1. i - 1 \in 1 .. Len(global) /\ i \in 1 .. Len(global)
        BY <2>1
      <3>. QED BY <2>1, <3>1, KeysAre
    <2>. QED BY <2>1, <2>2 DEF InOrder
  <1>7. /\ Selected(insiders, request) /\ Len(insiders) = Cardinality(T) /\ ToSet(insiders) = T
        /\ InOrder(insiders, KnowledgeKey)
    <2>0. T \subseteq E
      BY <1>2
    <2> HIDE DEF T
    <2>1. /\ Selected(insiders, request) /\ Len(insiders) = Cardinality(T)
          /\ ToSet(insiders) = T /\ Len(insiders) \in Nat
          /\ \A i \in 2 .. Len(insiders) :
                KeyBefore(ByKnowledge[insiders[i - 1]], ByKnowledge[insiders[i]])
          /\ \A i \in 1 .. Len(insiders) : insiders[i] \in FactType
      BY <1>2, <2>0, KeysAre, HistoryIsSelected DEF Known
    <2> HIDE DEF insiders
    <2>2. ASSUME NEW i \in 2 .. Len(insiders)
          PROVE  KeyBefore(KnowledgeKey(insiders[i - 1]), KnowledgeKey(insiders[i]))
      <3>1. i - 1 \in 1 .. Len(insiders) /\ i \in 1 .. Len(insiders)
        BY <2>1
      <3>. QED BY <2>1, <3>1, KeysAre
    <2>. QED BY <2>1, <2>2 DEF InOrder
  <1>8. Known(R) # <<>> => Cardinality(Tops(R)) > 0
    <2>1. Known(R) # <<>> => R # {}
      <3>1. ASSUME R = {} PROVE Known(R) = <<>>
        <4>1. Known(R) \in Seq(R) /\ Len(Known(R)) = 0
          <5>1. Ordered(Known(R), R, ByKnowledge)
            BY <1>1, KeysAre, OrderedIs DEF Known
          <5>2. Cardinality({}) = 0
            BY FS_EmptySet
          <5>. QED BY <3>1, <5>1, <5>2 DEF Ordered
        <4> HIDE DEF R
        <4>. QED BY <4>1
      <3>. QED BY <3>1
    <2>2. R # {} => Tops(R) # {}
      BY <1>1, TopsAre
    <2>3. IsFiniteSet(Tops(R)) /\ (Tops(R) # {} => Cardinality(Tops(R)) # 0)
      <3>1. OneOfEach(Tops(R))
        BY <1>1, <1>2, SomeOfEach
      <3>2. IsFiniteSet(Tops(R))
        BY <3>1 DEF OneOfEach
      <3>. QED BY <3>2, FS_EmptySet
    <2>. QED BY <1>3, <2>1, <2>2, <2>3
  <1>9. request = Unfiltered(request.asOf, request.source) => T = Tops(R)
    <2>1. S \subseteq FactType /\ Tops(R) \subseteq S
      BY <1>1, <1>2 DEF OneOfEach
    <2>. QED BY <2>1, AllPass
  <1> HIDE DEF facts, R, E, W, T, catalysts, global, insiders
  <1>10. ValidCatalystHistory(catalysts, facts, request)
    BY <1>1, <1>3, <1>4, <1>5 DEF ValidCatalystHistory
  <1>11. ValidEventHistory(global, facts, request)
    BY <1>1, <1>3, <1>4, <1>6 DEF ValidEventHistory
  <1>12. ValidInsiderHistory(insiders, facts, request)
    BY <1>1, <1>3, <1>4, <1>7, <1>8, <1>9 DEF ValidInsiderHistory
  <1>. QED BY <1>1, <1>5, <1>6, <1>7, <1>10, <1>11, <1>12 DEF facts, R, E, W, T

-----------------------------------------------------------------------------
(* The table and the batches hold finitely many rows, one for an identity.  *)
FactInv ==
    /\ FactAssumption /\ FactTypeOK
    /\ IsFiniteSet(events) /\ \A c \in Collectors : IsFiniteSet(collecting[c])

LEMMA FactInitInv == FactAssumption /\ FactInit => FactInv
  <1> SUFFICES ASSUME FactAssumption, FactInit PROVE FactInv
    OBVIOUS
  <1>1. IsFiniteSet({})
    BY FS_EmptySet
  <1>. QED BY <1>1 DEF FactAssumption, FactInit, FactInv, FactTypeOK, Rows

LEMMA CollectInv ==
    ASSUME FactInv, NEW c \in Collectors, Collect(c)
    PROVE  FactInv'
  <1>1. PICK ids \in (SUBSET VersionIds) \ {{}} :
            /\ IsFiniteSet(ids)
            /\ collecting' = [collecting EXCEPT ![c] = [at : {now}, id : ids]]
    BY DEF Collect
  <1> DEFINE batch == [at : {now}, id : ids]
  <1>2. /\ now \in Nat /\ now \in 0 .. MaxTime /\ MaxTime \in Nat /\ now' = now /\ events' = events
        /\ collecting \in [Collectors -> SUBSET Rows]
    BY DEF FactAssumption, FactInv, FactTypeOK, Collect
  <1>3. batch \in SUBSET Rows /\ \A r, s \in batch : r.at = s.at /\ r.at <= now
    <2>1. \A r \in batch : r.at = now /\ r.id \in VersionIds /\ r = [at |-> r.at, id |-> r.id]
      OBVIOUS
    <2>2. \A r \in batch : r \in Rows
      BY <1>2, <2>1 DEF Rows
    <2>. QED BY <1>2, <2>1, <2>2
  <1>4. IsFiniteSet(batch)
    <2> DEFINE f == [id \in ids |-> [at |-> now, id |-> id]]
    <2>1. batch = {f[id] : id \in ids}
      <3>1. \A r \in batch : r.id \in ids /\ r = f[r.id]
        OBVIOUS
      <3>2. \A id \in ids : f[id] \in batch
        OBVIOUS
      <3> HIDE DEF f, batch
      <3>. QED BY <3>1, <3>2
    <2>2. IsFiniteSet(ids)
      BY <1>1
    <2> HIDE DEF f
    <2>3. IsFiniteSet({f[id] : id \in ids})
      BY ONLY <2>2, FiniteValues
    <2>. QED BY <2>1, <2>3
  <1>5. collecting' = [collecting EXCEPT ![c] = batch]
    BY <1>1
  <1> HIDE DEF batch
  <1>6. \A d \in Collectors : collecting'[d] = IF d = c THEN batch ELSE collecting[d]
    BY <1>2, <1>5
  <1>7. collecting' \in [Collectors -> SUBSET Rows]
    BY <1>2, <1>3, <1>5
  <1>8. /\ \A d \in Collectors : \A r, s \in collecting'[d] : r.at = s.at /\ r.at <= now'
        /\ \A d \in Collectors : IsFiniteSet(collecting'[d])
    BY <1>2, <1>3, <1>4, <1>6 DEF FactInv, FactTypeOK
  <1>9. Rows' = Rows /\ FactAssumption'
    BY DEF Rows, FactInv, FactAssumption
  <1>. QED BY <1>2, <1>7, <1>8, <1>9 DEF FactInv, FactTypeOK

LEMMA DiscardInv ==
    ASSUME FactInv, NEW c \in Collectors,
           collecting' = [collecting EXCEPT ![c] = {}]
    PROVE  /\ collecting' \in [Collectors -> SUBSET Rows]
           /\ \A d \in Collectors : \A r, s \in collecting'[d] : r.at = s.at /\ r.at <= now
           /\ \A d \in Collectors : IsFiniteSet(collecting'[d])
  <1>1. IsFiniteSet({})
    BY FS_EmptySet
  <1>2. collecting \in [Collectors -> SUBSET Rows]
    BY DEF FactInv, FactTypeOK
  <1>3. \A d \in Collectors : collecting'[d] = IF d = c THEN {} ELSE collecting[d]
    BY <1>2
  <1>4. collecting' \in [Collectors -> SUBSET Rows]
    BY <1>2
  <1>. QED BY <1>1, <1>3, <1>4 DEF FactInv, FactTypeOK

LEMMA AppendManyInv ==
    ASSUME FactInv, NEW c \in Collectors, AppendMany(c)
    PROVE  FactInv'
  <1>1. /\ collecting' \in [Collectors -> SUBSET Rows]
        /\ \A d \in Collectors : \A r, s \in collecting'[d] : r.at = s.at /\ r.at <= now
        /\ \A d \in Collectors : IsFiniteSet(collecting'[d])
    BY DiscardInv DEF AppendMany
  <1>2. /\ collecting[c] \in SUBSET Rows /\ IsFiniteSet(collecting[c]) /\ IsFiniteSet(events)
        /\ \A r, s \in collecting[c] : r.at = s.at /\ r.at <= now
        /\ events \subseteq Rows /\ \A r, s \in events : r.id = s.id => r = s
        /\ \A r \in events : r.at <= now
        /\ now' = now /\ now \in 0 .. MaxTime
    BY DEF FactInv, FactTypeOK, AppendMany
  <1>3. /\ events' \subseteq Rows /\ \A r, s \in events' : r.id = s.id => r = s
        /\ \A r \in events' : r.at <= now
        /\ IsFiniteSet(events')
    <2>1. CASE \E r \in events, new \in collecting[c] : r.id = new.id
      <3>1. events' = events
        BY <2>1 DEF AppendMany
      <3>. QED BY <1>2, <3>1
    <2>2. CASE ~\E r \in events, new \in collecting[c] : r.id = new.id
      <3>1. events' = events \cup collecting[c]
        BY <2>2 DEF AppendMany
      <3>2. IsFiniteSet(events \cup collecting[c])
        BY <1>2, FS_Union
      <3>3. \A r, s \in collecting[c] : r.id = s.id => r = s
        <4>1. \A r \in Rows : r = [at |-> r.at, id |-> r.id]
          BY DEF Rows
        <4>. QED BY <1>2, <4>1
      <3>4. \A r, s \in events' : r.id = s.id => r = s
        BY <1>2, <2>2, <3>1, <3>3
      <3>. QED BY <1>2, <3>1, <3>2, <3>4
    <2>. QED BY <2>1, <2>2
  <1>4. Rows' = Rows /\ FactAssumption'
    BY DEF Rows, FactInv, FactAssumption
  <1>. QED BY <1>1, <1>2, <1>3, <1>4 DEF FactInv, FactTypeOK

LEMMA FactNextInv == FactInv /\ [FactNext]_factVars => FactInv'
  <1> SUFFICES ASSUME FactInv, [FactNext]_factVars PROVE FactInv'
    OBVIOUS
  <1>1. Rows' = Rows /\ FactAssumption'
    BY DEF Rows, FactInv, FactAssumption, VersionIds, VersionType
  <1>2. CASE Tick
    <2>1. /\ now \in 0 .. MaxTime /\ MaxTime \in Nat /\ now < MaxTime /\ now' = now + 1
          /\ events' = events /\ collecting' = collecting
      BY <1>2 DEF Tick, FactInv, FactTypeOK, FactAssumption
    <2>2. now' \in 0 .. MaxTime /\ now <= now'
      BY <2>1
    <2>3. /\ \A r \in events : r.at \in Nat /\ r.at <= now
          /\ \A c \in Collectors : \A r, s \in collecting[c] :
                r.at \in Nat /\ r.at <= now /\ r.at = s.at
      BY DEF FactInv, FactTypeOK, Rows
    <2>4. \A t \in Nat : t <= now => t <= now'
      BY <2>1
    <2>5. /\ \A r \in events : r.at <= now'
          /\ \A c \in Collectors : \A r, s \in collecting[c] : r.at = s.at /\ r.at <= now'
      BY <2>3, <2>4
    <2>. QED BY <1>1, <2>1, <2>2, <2>5 DEF FactInv, FactTypeOK
  <1>3. ASSUME NEW c \in Collectors, Collect(c) PROVE FactInv'
    BY <1>3, CollectInv
  <1>4. ASSUME NEW c \in Collectors, AppendMany(c) PROVE FactInv'
    BY <1>4, AppendManyInv
  <1>5. ASSUME NEW c \in Collectors, Discard(c) PROVE FactInv'
    <2>1. /\ collecting' \in [Collectors -> SUBSET Rows]
          /\ \A d \in Collectors : \A r, s \in collecting'[d] : r.at = s.at /\ r.at <= now
          /\ \A d \in Collectors : IsFiniteSet(collecting'[d])
      BY <1>5, DiscardInv DEF Discard
    <2>2. now' = now /\ events' = events
      BY <1>5 DEF Discard
    <2>. QED BY <1>1, <2>1, <2>2 DEF FactInv, FactTypeOK
  <1>6. CASE UNCHANGED factVars
    BY <1>1, <1>6 DEF factVars, FactInv, FactTypeOK
  <1>. QED BY <1>2, <1>3, <1>4, <1>5, <1>6 DEF FactNext

-----------------------------------------------------------------------------
(* What the store has made available by a time.                             *)
FactsBy(asOf) == {Fact(row) : row \in {row \in events : row.at <= asOf}}

LEMMA StoreGives ==
    ASSUME FactInv, NEW asOf \in Nat
    PROVE  /\ OneOfEach(FactsBy(asOf)) /\ AvailableAt(asOf) = Known(FactsBy(asOf))
           /\ \A f \in FactsBy(asOf) : f.at <= asOf
  <1> DEFINE rows == {row \in events : row.at <= asOf}
             fact == [row \in rows |-> Fact(row)]
  <1>1. \A row \in rows : /\ row.at \in Nat /\ row.at <= asOf
                          /\ row.id \in Nat /\ row.id \in VersionIds /\ row \in events
    BY DEF FactInv, FactTypeOK, Rows, FactAssumption, VersionIds
  <1>2. ASSUME NEW row \in rows
        PROVE  Fact(row) \in FactType /\ Fact(row).id = row.id /\ Fact(row).at = row.at
    <2> DEFINE v == Versions[row.id]
    <2>1. v \in VersionType
      BY <1>1 DEF FactInv, FactAssumption, VersionIds
    <2>2. /\ v.source \in Sources /\ v.key \in Nat \cup {NoKey} /\ v.label \in Labels
          /\ v.subjects \in SUBSET Subjects /\ v.occurred \in Nat \cup {NoTime}
          /\ v.published \in Nat \cup {NoTime}
      BY <2>1 DEF VersionType
    <2>3. Fact(row) = [at |-> row.at, id |-> row.id, source |-> v.source, key |-> v.key,
                       label |-> v.label, subjects |-> v.subjects,
                       occurred |-> v.occurred, published |-> v.published]
      BY DEF Fact
    <2> HIDE DEF v
    <2>. QED BY <1>1, <2>2, <2>3 DEF FactType
  <1>3. IsFiniteSet(FactsBy(asOf))
    <2>1. rows \subseteq events /\ IsFiniteSet(events)
      BY DEF FactInv
    <2>2. IsFiniteSet(rows)
      BY <2>1, FS_Subset
    <2>3. FactsBy(asOf) = {fact[row] : row \in rows}
      BY DEF FactsBy
    <2> HIDE DEF fact, rows
    <2>4. IsFiniteSet({fact[row] : row \in rows})
      BY ONLY <2>2, FiniteValues
    <2>. QED BY <2>3, <2>4
  <1>4. \A f \in FactsBy(asOf) : \E row \in rows : f = Fact(row)
    BY DEF FactsBy
  <1>5. \A r, s \in rows : r.id = s.id => r = s
    BY DEF FactInv, FactTypeOK
  <1> HIDE DEF rows, fact
  <1>6. FactsBy(asOf) \in SUBSET FactType /\ \A f \in FactsBy(asOf) : f.at <= asOf
    BY <1>1, <1>2, <1>4
  <1>7. \A f, g \in FactsBy(asOf) : f.id = g.id => f = g
    BY <1>2, <1>4, <1>5
  <1>8. AvailableAt(asOf) = Known(FactsBy(asOf))
    BY <1>6, SortedFacts DEF AvailableAt, FactsBy
  <1>. QED BY <1>3, <1>6, <1>7, <1>8 DEF OneOfEach

LEMMA KnownInOrder ==
    ASSUME NEW asOf, NEW S, OneOfEach(S), \A f \in S : f.at <= asOf
    PROVE  InKnowledgeOrder(Known(S), asOf)
  <1> DEFINE facts == Known(S)
  <1>1. Ordered(facts, S, ByKnowledge)
    BY KeysAre, OrderedIs DEF Known
  <1> HIDE DEF facts
  <1>2. /\ DOMAIN facts = 1 .. Len(facts) /\ Len(facts) \in Nat
        /\ \A i, j \in 1 .. Len(facts) :
                i < j <=> KeyBefore(ByKnowledge[facts[i]], ByKnowledge[facts[j]])
        /\ \A i, j \in 1 .. Len(facts) : facts[i] = facts[j] => i = j
        /\ \A i \in 1 .. Len(facts) : facts[i] \in S /\ facts[i] \in FactType
    BY <1>1 DEF Ordered, OneOfEach
  <1>3. ASSUME NEW i \in 2 .. Len(facts)
        PROVE  KeyBefore(KnowledgeKey(facts[i - 1]), KnowledgeKey(facts[i]))
    <2>1. i - 1 \in 1 .. Len(facts) /\ i \in 1 .. Len(facts) /\ i - 1 < i
      BY <1>2
    <2>2. KeyBefore(ByKnowledge[facts[i - 1]], ByKnowledge[facts[i]])
      BY <1>2, <2>1
    <2>. QED BY <1>2, <2>1, <2>2, KeysAre
  <1>4. \A i, j \in DOMAIN facts : facts[i].id = facts[j].id => i = j
    BY <1>2 DEF OneOfEach
  <1>5. \A i \in DOMAIN facts : facts[i].at <= asOf
    BY <1>2
  <1>. QED BY <1>3, <1>4, <1>5 DEF InKnowledgeOrder, facts

(* What an engine shows of the facts known at a time is right.              *)
HistoriesHold(facts, asOf, source) ==
    LET all == Unfiltered(asOf, source)
        known == ToSet(InsiderHistory(facts, all))
    IN /\ InKnowledgeOrder(facts, asOf)
       /\ ToSet(CatalystHistory(facts, all)) = known
       /\ \A request \in Requests(asOf, source) :
            LET catalysts == CatalystHistory(facts, request)
                global == EventHistory(facts, request)
                insiders == InsiderHistory(facts, request)
            IN /\ ValidCatalystHistory(catalysts, facts, request)
               /\ ValidEventHistory(global, facts, request)
               /\ ValidInsiderHistory(insiders, facts, request)
               /\ ToSet(insiders) = {fact \in known : Matches(fact, request)}
               /\ ToSet(catalysts) = ToSet(global)
               /\ ToSet(insiders) \subseteq ToSet(catalysts)

LEMMA HistoriesOf ==
    ASSUME NEW asOf, NEW source, NEW S, OneOfEach(S), \A f \in S : f.at <= asOf
    PROVE  HistoriesHold(Known(S), asOf, source)
  <1> DEFINE all == Unfiltered(asOf, source)
             R == Received(S, all)
             facts == Known(S)
             known == ToSet(InsiderHistory(facts, all))
  <1>1. S \subseteq FactType
    BY DEF OneOfEach
  <1>2. all.source = source /\ all.asOf = asOf /\ Asked(S, all) = R
    BY <1>1, AllPass
  <1>3. Tops(R) \subseteq R /\ R \subseteq S /\ \A f \in Tops(R) : f \in Wanted(all)
    <2>1. Tops(R) \subseteq R /\ R \subseteq S
      BY DEF Tops, Received
    <2>. QED BY <1>1, <2>1, AllPass
  <1>4. known = Tops(R) /\ ToSet(CatalystHistory(facts, all)) = Tops(R)
    <2> HIDE DEF all, R
    <2>1. /\ ToSet(CatalystHistory(facts, all)) = Tops(Asked(S, all))
          /\ ToSet(InsiderHistory(facts, all)) = Tops(Received(S, all)) \cap Wanted(all)
      BY <1>2, ContractsHold
    <2>. QED BY <1>2, <1>3, <2>1 DEF R
  <1> HIDE DEF known
  <1>5. ASSUME NEW request \in Requests(asOf, source)
        PROVE  LET catalysts == CatalystHistory(facts, request)
                   global == EventHistory(facts, request)
                   insiders == InsiderHistory(facts, request)
               IN /\ ValidCatalystHistory(catalysts, facts, request)
                  /\ ValidEventHistory(global, facts, request)
                  /\ ValidInsiderHistory(insiders, facts, request)
                  /\ ToSet(insiders) = {fact \in known : Matches(fact, request)}
                  /\ ToSet(catalysts) = ToSet(global)
                  /\ ToSet(insiders) \subseteq ToSet(catalysts)
    <2>1. request.asOf = asOf /\ request.source = source
      BY DEF Requests
    <2>2. Received(S, request) = R
      BY <1>2, <2>1 DEF Received, From
    <2>3. /\ ValidCatalystHistory(CatalystHistory(facts, request), facts, request)
          /\ ValidEventHistory(EventHistory(facts, request), facts, request)
          /\ ValidInsiderHistory(InsiderHistory(facts, request), facts, request)
          /\ ToSet(CatalystHistory(facts, request)) = Tops(Asked(S, request))
          /\ ToSet(EventHistory(facts, request)) = Tops(Asked(S, request))
          /\ ToSet(InsiderHistory(facts, request))
                = Tops(Received(S, request)) \cap Wanted(request)
      BY <2>1, ContractsHold
    <2> HIDE DEF facts, R, all
    <2>4. Tops(R) \cap Wanted(request) = {fact \in known : Matches(fact, request)}
      BY <1>1, <1>3, <1>4 DEF Wanted
    <2>5. Tops(R) \cap Wanted(request) \subseteq Tops(Asked(S, request))
      BY <2>2, TopsOfFewer DEF Asked
    <2>. QED BY <2>2, <2>3, <2>4, <2>5
  <1>6. InKnowledgeOrder(facts, asOf)
    BY KnownInOrder
  <1>. QED BY <1>4, <1>5, <1>6 DEF known, HistoriesHold

LEMMA SoundHistories == FactInv => HistoriesAreSound
  <1>1. ASSUME FactInv, NEW asOf \in 0 .. MaxTime, NEW source
        PROVE  HistoriesHold(AvailableAt(asOf), asOf, source)
    <2>1. asOf \in Nat
      BY <1>1 DEF FactInv, FactAssumption
    <2>2. /\ OneOfEach(FactsBy(asOf)) /\ AvailableAt(asOf) = Known(FactsBy(asOf))
          /\ \A f \in FactsBy(asOf) : f.at <= asOf
      BY <1>1, <2>1, StoreGives
    <2>. QED BY <2>2, HistoriesOf
  <1> SUFFICES ASSUME FactInv, NEW asOf \in 0 .. MaxTime
               PROVE  /\ InKnowledgeOrder(AvailableAt(asOf), asOf)
                      /\ \A source : HistoriesHold(AvailableAt(asOf), asOf, source)
    BY DEF HistoriesAreSound, HistoriesHold
  <1>2. \A source : HistoriesHold(AvailableAt(asOf), asOf, source)
    BY <1>1
  <1>. QED BY <1>2 DEF HistoriesHold

LEMMA FactsAlways == FactAssumption /\ FactSpec => []FactInv
  BY FactInitInv, FactNextInv, PTL DEF FactSpec

(* The engines build no history that its contract refuses from what the     *)
(* store has, they agree on what was known, and a filter never makes the    *)
(* insider engine show what was superseded: for any sources, versions,      *)
(* collectors, windows and interleaving of their batches.                   *)
THEOREM SoundFacts ==
    FactAssumption /\ FactSpec => []HistoriesAreSound
  BY FactsAlways, SoundHistories, PTL

(* What was known at a cutoff that is past, and by which no batch is on its *)
(* way, is known at it for ever.                                            *)
THEOREM FinalPast ==
    FactAssumption /\ FactSpec => PastIsFinal
  <1>1. ASSUME FactInv, [FactNext]_factVars, NEW asOf \in 0 .. MaxTime,
               \A c \in Collectors : \A r \in collecting[c] : r.at > asOf
        PROVE  AvailableAt(asOf)' = AvailableAt(asOf)
    <2>1. {row \in events' : row.at <= asOf} = {row \in events : row.at <= asOf}
      <3>1. CASE events' = events
        BY <3>1
      <3>2. ASSUME NEW c \in Collectors, AppendMany(c), events' # events
            PROVE  {row \in events' : row.at <= asOf} = {row \in events : row.at <= asOf}
        <4>1. events' = events \cup collecting[c]
          BY <3>2 DEF AppendMany
        <4>2. \A r \in collecting[c] : ~(r.at <= asOf)
          <5>1. \A r \in collecting[c] : r.at \in Nat
            <6>1. collecting \in [Collectors -> SUBSET Rows]
              BY <1>1 DEF FactInv, FactTypeOK
            <6>2. MaxTime \in Nat
              BY <1>1 DEF FactInv, FactAssumption
            <6>3. \A r \in Rows : r.at \in 0 .. MaxTime
              BY DEF Rows
            <6>. QED BY <6>1, <6>2, <6>3
          <5>2. asOf \in Nat
            BY <1>1 DEF FactInv, FactAssumption
          <5>. QED BY <1>1, <5>1, <5>2
        <4>. QED BY <4>1, <4>2
      <3>. QED BY <1>1, <3>1, <3>2 DEF FactNext, Tick, Collect, Discard, factVars
    <2>2. FactsBy(asOf)' = FactsBy(asOf)
      BY <2>1 DEF FactsBy, Fact
    <2>. QED BY <2>2 DEF AvailableAt, FactsBy, Sorted
  <1>2. FactInv /\ [FactNext]_factVars =>
            [\A asOf \in 0 .. MaxTime :
                asOf < now /\ (\A c \in Collectors : \A r \in collecting[c] : r.at > asOf)
                    => AvailableAt(asOf)' = AvailableAt(asOf)]_factVars
    BY <1>1
  <1>. QED BY <1>2, FactsAlways, PTL DEF FactSpec, PastIsFinal

-----------------------------------------------------------------------------
(* What the provider lists when it has published p, and what a token leaves.*)
ListedIn(p, server) == {t \in FeedTimes : p[t] > 0 /\ (t < FeedEnd \/ server.inclusive)}
PassedIn(p, server, token, t) ==
    IF server.cursor = "time" THEN t <= token
    ELSE Cardinality({u \in ListedIn(p, server) : u < t}) < token
LeftIn(p, server, token) == {t \in ListedIn(p, server) : ~PassedIn(p, server, token, t)}
Item == [at : FeedTimes, version : Nat]

LEMMA FeedBounds ==
    ASSUME FeedAssumption
    PROVE  /\ FeedStart \in Nat /\ FeedEnd \in Nat /\ 0 < FeedStart /\ FeedStart < FeedEnd
           /\ ItemsPerPage \in Nat /\ ItemsPerPage > 0 /\ FeedTimes \subseteq Nat /\ Window \subseteq FeedTimes
           /\ IsFiniteSet(FeedTimes)
  <1>1. FeedStart \in Nat /\ FeedEnd \in Nat /\ 0 < FeedStart /\ FeedStart < FeedEnd /\ ItemsPerPage \in Nat \ {0}
    BY DEF FeedAssumption
  <1>2. IsFiniteSet(FeedStart .. FeedEnd)
    BY <1>1, FS_Interval
  <1>. QED BY <1>1, <1>2 DEF FeedTimes, Window

LEMMA ListedIs ==
    ASSUME FeedAssumption, NEW p, NEW server, NEW token
    PROVE  /\ Indexes(ListedIn(p, server)) /\ Indexes(LeftIn(p, server, token))
           /\ ListedIn(p, server) \subseteq FeedTimes
  <1>1. IsFiniteSet(FeedTimes) /\ FeedTimes \subseteq Nat
    BY FeedBounds
  <1>2. ListedIn(p, server) \subseteq FeedTimes /\ LeftIn(p, server, token) \subseteq FeedTimes
    BY DEF ListedIn, LeftIn
  <1>3. IsFiniteSet(ListedIn(p, server)) /\ IsFiniteSet(LeftIn(p, server, token))
    BY <1>1, <1>2, FS_Subset
  <1>. QED BY <1>1, <1>2, <1>3 DEF Indexes

(* What is published meanwhile passes nothing that was not passed.          *)
LEMMA NothingSkipped ==
    ASSUME FeedAssumption, NEW p, NEW q, NEW server, NEW token \in Nat,
           ListedIn(p, server) \subseteq ListedIn(q, server),
           NEW t, PassedIn(q, server, token, t)
    PROVE  PassedIn(p, server, token, t)
  <1>1. CASE server.cursor = "time"
    BY <1>1 DEF PassedIn
  <1>2. CASE server.cursor # "time"
    <2> DEFINE A == {u \in ListedIn(p, server) : u < t}
               B == {u \in ListedIn(q, server) : u < t}
    <2>1. Cardinality(B) < token
      BY <1>2 DEF PassedIn
    <2>2. IsFiniteSet(ListedIn(q, server))
      BY ListedIs DEF Indexes
    <2>3. A \subseteq B /\ B \subseteq ListedIn(q, server)
      OBVIOUS
    <2> HIDE DEF A, B
    <2>4. IsFiniteSet(B)
      BY <2>2, <2>3, FS_Subset
    <2>5. IsFiniteSet(A) /\ Cardinality(A) <= Cardinality(B)
      BY <2>3, <2>4, FS_Subset
    <2>6. Cardinality(A) \in Nat /\ Cardinality(B) \in Nat
      BY <2>4, <2>5, FS_CardinalityType
    <2>7. Cardinality(A) < token
      BY <2>1, <2>5, <2>6
    <2>. QED BY <1>2, <2>7 DEF PassedIn, A
  <1>. QED BY <1>1, <1>2

(* The place of a time that is left, for a token that counts items.         *)
LEMMA LeftAfter ==
    ASSUME FeedAssumption, NEW p, NEW server, server.cursor # "time", NEW token \in Nat,
           NEW k \in 1 .. Cardinality(LeftIn(p, server, token))
    PROVE  LET S == ListedIn(p, server)
               T == LeftIn(p, server, token)
               t == Enumerate(T, Upward(T))[k]
           IN Cardinality({u \in S : u < t}) = token + k - 1
  <1> DEFINE S == ListedIn(p, server)
             T == LeftIn(p, server, token)
             R == Upward(S)
             Q == Upward(T)
             e == Enumerate(S, R)
             n == Cardinality(S)
  <1>1. Indexes(S) /\ Indexes(T) /\ T \subseteq S
    BY ListedIs DEF LeftIn
  <1>2. IsFiniteSet(S) /\ IsFiniteSet(T) /\ S \subseteq Nat
    BY <1>1 DEF Indexes
  <1>3. StrictOrder(S, R)
    BY <1>2 DEF StrictOrder, Upward
  <1>4. \A x \in S : RankIn(S, R, x) = Cardinality({u \in S : u < x})
    <2> SUFFICES ASSUME NEW x \in S PROVE Earlier(S, R, x) = {u \in S : u < x}
      BY DEF RankIn
    <2>. QED BY DEF Earlier, Upward
  <1>5. \A x \in S : x \in T <=> ~(RankIn(S, R, x) < token)
    BY <1>4 DEF LeftIn, PassedIn
  <1>6. \A x, y \in T : <<x, y>> \in Q <=> <<x, y>> \in R
    BY <1>1 DEF Upward
  <1> HIDE DEF S, T, R, Q
  <1>7. n \in Nat /\ Cardinality(T) \in Nat
    BY <1>2, FS_CardinalityType
  <1>8. /\ \A i \in 1 .. n : e[i] \in S /\ RankIn(S, R, e[i]) = i - 1
        /\ \A i, j \in 1 .. n : i < j <=> <<e[i], e[j]>> \in R
        /\ \A x \in S : \E i \in 1 .. n : e[i] = x
    <2>1. \A i \in 1 .. n : e[i] \in S /\ RankIn(S, R, e[i]) = i - 1
      BY <1>2, <1>3, RankAt
    <2>2. IsFiniteSet(S)
      BY <1>2
    <2>3. /\ \A i, j \in 1 .. Cardinality(S) :
                i < j <=> <<Enumerate(S, R)[i], Enumerate(S, R)[j]>> \in R
          /\ \A x \in S : \E i \in 1 .. Cardinality(S) : Enumerate(S, R)[i] = x
      BY ONLY <1>3, <2>2, Enumerated
    <2>. QED BY <2>1, <2>3 DEF e, n
  <1> HIDE DEF e, n
  <1>9. token \in 0 .. n
    <2>1. T # {}
      <3>1. T = {} => Cardinality(T) = 0
        BY FS_EmptySet
      <3>2. k \in 1 .. Cardinality(T)
        BY DEF T
      <3>. QED BY <1>7, <3>1, <3>2
    <2>2. PICK x \in T : TRUE
      BY <2>1
    <2>3. PICK i \in 1 .. n : e[i] = x
      BY <1>1, <1>8, <2>2
    <2>4. ~(i - 1 < token)
      BY <1>1, <1>5, <1>8, <2>2, <2>3
    <2>. QED BY <1>7, <2>3, <2>4
  <1>10. ASSUME NEW x \in S PROVE x \in T <=> (token = 0 \/ <<e[token], x>> \in R)
    <2>1. PICK i \in 1 .. n : e[i] = x
      BY <1>8
    <2>2. x \in T <=> ~(i - 1 < token)
      BY <1>5, <1>8, <2>1
    <2>3. token # 0 => (token < i <=> <<e[token], e[i]>> \in R)
      BY <1>7, <1>8, <1>9, <2>1
    <2>. QED BY <1>7, <1>9, <2>1, <2>2, <2>3
  <1>11. /\ Cardinality(T) = n - token
         /\ Enumerate(T, Q) = [i \in 1 .. n - token |-> e[token + i]]
    <2>1. IsFiniteSet(S)
      BY <1>2
    <2>2. \A x \in S : x \in T <=> (token = 0 \/ <<e[token], x>> \in R)
      BY <1>10
    <2>3. T \subseteq S
      BY <1>1
    <2>. QED BY ONLY <1>3, <1>6, <1>9, <2>1, <2>2, <2>3, EnumeratedAfter DEF e, n
  <1>12. k \in 1 .. n - token /\ token + k \in 1 .. n
    <2>1. k \in 1 .. Cardinality(T)
      BY DEF T
    <2>. QED BY <1>7, <1>9, <1>11, <2>1
  <1>13. Enumerate(T, Q)[k] = e[token + k]
    BY <1>11, <1>12
  <1>14. RankIn(S, R, Enumerate(T, Q)[k]) = token + k - 1 /\ Enumerate(T, Q)[k] \in S
    BY <1>8, <1>12, <1>13
  <1>. QED BY <1>4, <1>14 DEF S, T, Q

-----------------------------------------------------------------------------
(* What a sequence holds that two others make.                              *)
Joins(S, s, u, v) ==
    /\ v \in Seq(S)
    /\ \A i \in DOMAIN v : (\E j \in DOMAIN s : v[i] = s[j]) \/ (\E j \in DOMAIN u : v[i] = u[j])
    /\ \A j \in DOMAIN s : \E i \in DOMAIN v : v[i] = s[j]
    /\ \A j \in DOMAIN u : \E i \in DOMAIN v : v[i] = u[j]

LEMMA Concatenated ==
    ASSUME NEW S, NEW s \in Seq(S), NEW u \in Seq(S)
    PROVE  Joins(S, s, u, s \o u)
  <1> DEFINE v == s \o u
  <1>1. /\ v \in Seq(S) /\ Len(v) = Len(s) + Len(u) /\ Len(s) \in Nat /\ Len(u) \in Nat
        /\ \A i \in 1 .. Len(s) : v[i] = s[i]
        /\ \A i \in 1 .. Len(u) : v[Len(s) + i] = u[i]
        /\ DOMAIN v = 1 .. Len(v) /\ DOMAIN s = 1 .. Len(s) /\ DOMAIN u = 1 .. Len(u)
    OBVIOUS
  <1> HIDE DEF v
  <1>2. ASSUME NEW i \in DOMAIN v
        PROVE  (\E j \in DOMAIN s : v[i] = s[j]) \/ (\E j \in DOMAIN u : v[i] = u[j])
    <2>1. CASE i <= Len(s)
      <3>1. i \in DOMAIN s /\ v[i] = s[i]
        BY <1>1, <2>1
      <3>. QED BY <3>1
    <2>2. CASE ~(i <= Len(s))
      <3>1. i - Len(s) \in DOMAIN u /\ v[i] = u[i - Len(s)]
        <4>1. i - Len(s) \in 1 .. Len(u) /\ Len(s) + (i - Len(s)) = i
          BY <1>1, <2>2
        <4>. QED BY <1>1, <4>1
      <3>. QED BY <3>1
    <2>. QED BY <2>1, <2>2
  <1>3. ASSUME NEW j \in DOMAIN s PROVE \E i \in DOMAIN v : v[i] = s[j]
    <2>1. j \in DOMAIN v /\ v[j] = s[j]
      BY <1>1
    <2>. QED BY <2>1
  <1>4. ASSUME NEW j \in DOMAIN u PROVE \E i \in DOMAIN v : v[i] = u[j]
    <2>1. Len(s) + j \in DOMAIN v /\ v[Len(s) + j] = u[j]
      BY <1>1
    <2>. QED BY <2>1
  <1>. QED BY <1>1, <1>2, <1>3, <1>4 DEF v, Joins

(* The contract of bars rules out a bar that comes twice.                   *)
LEMMA AscendingOnce ==
    ASSUME FeedAssumption, NEW items \in Seq(Item), Ascending(items)
    PROVE  Unrepeated(items)
  <1>1. /\ DOMAIN items = 1 .. Len(items) /\ Len(items) \in Nat
        /\ \A i \in DOMAIN items : items[i].at \in Nat
    <2>1. /\ DOMAIN items = 1 .. Len(items) /\ Len(items) \in Nat
          /\ \A i \in DOMAIN items : items[i] \in Item
      OBVIOUS
    <2>2. \A x \in Item : x.at \in FeedTimes
      BY DEF Item
    <2>3. FeedTimes \subseteq Nat
      BY FeedBounds
    <2>. QED BY <2>1, <2>2, <2>3
  <1>2. ASSUME NEW i \in DOMAIN items, NEW j \in DOMAIN items, i < j
        PROVE  items[i].at < items[j].at
    <2> DEFINE S == {k \in Nat : k \in DOMAIN items => items[i].at < items[k].at}
    <2>1. i + 1 \in S
      BY <1>1, <1>2 DEF Ascending
    <2>2. ASSUME NEW k \in i + 1 .. Len(items), k > i + 1, k - 1 \in S PROVE k \in S
      <3>1. k \in 2 .. Len(items) /\ k - 1 \in DOMAIN items /\ k \in DOMAIN items /\ k \in Nat
        BY <1>1, <2>2
      <3>2. items[k - 1].at < items[k].at
        BY <3>1 DEF Ascending
      <3>3. items[i].at < items[k - 1].at
        BY <2>2, <3>1
      <3>. QED BY <1>1, <3>1, <3>2, <3>3
    <2>3. i + 1 \in Int /\ Len(items) \in Int /\ j \in i + 1 .. Len(items)
      BY <1>1, <1>2
    <2>4. j \in S => items[i].at < items[j].at
      OBVIOUS
    <2> HIDE DEF S
    <2>5. Inductive(i + 1, Len(items), S)
      BY <2>1, <2>2, <2>3 DEF Inductive
    <2>6. i + 1 .. Len(items) \subseteq S
      BY <2>5, IntervalInduction
    <2>. QED BY <2>3, <2>4, <2>6
  <1>3. ASSUME NEW i \in DOMAIN items, NEW j \in DOMAIN items, items[i].at = items[j].at
        PROVE  i = j
    <2>1. i < j \/ i = j \/ j < i
      BY <1>1
    <2>2. ~(i < j)
      BY <1>1, <1>2, <1>3
    <2>3. ~(j < i)
      BY <1>1, <1>2, <1>3
    <2>. QED BY <2>1, <2>2, <2>3
  <1>. QED BY <1>3 DEF Unrepeated

-----------------------------------------------------------------------------
(* A page holds the first of the items its token leaves.                    *)
PageLength(m) == IF m <= ItemsPerPage THEN m ELSE ItemsPerPage

LEMMA PageIs ==
    ASSUME FeedAssumption, published \in [FeedTimes -> Nat], NEW server, NEW token
    PROVE  LET T == LeftIn(published, server, token)
               e == Enumerate(T, Upward(T))
               m == Cardinality(T)
               page == Page(server, token)
           IN /\ Climbs(e, m, T) /\ T \subseteq FeedTimes
              /\ page \in Seq(Item) /\ DOMAIN page = 1 .. PageLength(m)
              /\ \A i \in DOMAIN page : page[i].at = e[i] /\ page[i].version = published[page[i].at]
              /\ NextToken(server, token) = IF m <= ItemsPerPage THEN NoToken
                                            ELSE IF server.cursor = "time" THEN e[ItemsPerPage]
                                            ELSE token + ItemsPerPage
  <1> DEFINE T == LeftIn(published, server, token)
             e == Enumerate(T, Upward(T))
             m == Cardinality(T)
             page == Page(server, token)
             n == PageLength(m)
  <1>1. Indexes(T) /\ T \subseteq FeedTimes
    BY ListedIs DEF LeftIn
  <1>2. Remaining(server, token) = e
    <2>1. {t \in Listed(server) : ~Passed(server, token, t)} = T
      BY DEF Listed, ListedIn, Passed, PassedIn, LeftIn
    <2> HIDE DEF T
    <2>. QED BY <2>1 DEF Remaining, Sorted, Upward
  <1>3. Climbs(e, m, T)
    <2> HIDE DEF T
    <2>. QED BY <1>1, UpwardIs
  <1> HIDE DEF T, e, m
  <1>4. m \in Nat /\ e \in [1 .. m -> T] /\ Len(e) = m
    BY <1>3 DEF Climbs
  <1>5. ItemsPerPage \in Nat \ {0}
    BY DEF FeedAssumption
  <1>6. n \in Nat /\ {i \in DOMAIN e : i <= ItemsPerPage} = 1 .. n
    BY <1>4, <1>5 DEF PageLength
  <1>7. page = [i \in 1 .. n |-> [at |-> e[i], version |-> published[e[i]]]]
    BY <1>2, <1>6 DEF Page
  <1>8. \A i \in 1 .. n : e[i] \in FeedTimes
    BY <1>1, <1>4, <1>5 DEF PageLength
  <1>9. page \in [1 .. n -> Item]
    BY <1>7, <1>8 DEF Item
  <1>10. \A i \in 1 .. n : page[i].at = e[i] /\ page[i].version = published[page[i].at]
    BY <1>7
  <1>11. NextToken(server, token) = IF m <= ItemsPerPage THEN NoToken
                                    ELSE IF server.cursor = "time" THEN e[ItemsPerPage]
                                    ELSE token + ItemsPerPage
    BY <1>2, <1>4 DEF NextToken
  <1> HIDE DEF page, n
  <1>12. page \in Seq(Item) /\ DOMAIN page = 1 .. n
    BY <1>6, <1>9
  <1>. QED BY <1>1, <1>3, <1>10, <1>11, <1>12 DEF T, e, m, n, page

(* Between a page and the place where the next one begins nothing is left   *)
(* out, and after the last page nothing is.                                 *)
LEMMA PageCovers ==
    ASSUME FeedAssumption, published \in [FeedTimes -> Nat], NEW server, NEW token \in Nat
    PROVE  LET next == NextToken(server, token)
               page == Page(server, token)
           IN /\ next \in Nat
              /\ \A t \in ListedIn(published, server) :
                    next = NoToken \/ PassedIn(published, server, next, t)
                        => \/ PassedIn(published, server, token, t)
                           \/ \E i \in DOMAIN page : page[i].at = t
  <1> DEFINE T == LeftIn(published, server, token)
             e == Enumerate(T, Upward(T))
             m == Cardinality(T)
             page == Page(server, token)
             next == NextToken(server, token)
  <1>1. /\ Climbs(e, m, T) /\ T \subseteq FeedTimes /\ DOMAIN page = 1 .. PageLength(m)
        /\ \A i \in DOMAIN page : page[i].at = e[i]
        /\ next = IF m <= ItemsPerPage THEN NoToken
                  ELSE IF server.cursor = "time" THEN e[ItemsPerPage] ELSE token + ItemsPerPage
    BY PageIs
  <1>2. /\ ItemsPerPage \in Nat /\ ItemsPerPage > 0 /\ FeedStart \in Nat /\ 0 < FeedStart
        /\ FeedTimes \subseteq Nat /\ 0 \notin FeedTimes
    BY FeedBounds DEF FeedTimes
  <1>3. server.cursor # "time" =>
            \A k \in 1 .. m : Cardinality({u \in ListedIn(published, server) : u < e[k]})
                                = token + k - 1
    <2> SUFFICES ASSUME server.cursor # "time", NEW k \in 1 .. m
                 PROVE  Cardinality({u \in ListedIn(published, server) : u < e[k]}) = token + k - 1
      OBVIOUS
    <2>1. k \in 1 .. Cardinality(LeftIn(published, server, token))
      OBVIOUS
    <2>2. Cardinality({u \in ListedIn(published, server) :
                           u < Enumerate(LeftIn(published, server, token),
                                         Upward(LeftIn(published, server, token)))[k]})
            = token + k - 1
      <3> HIDE DEF T, e, m, page, next
      <3>. QED BY <2>1, LeftAfter
    <2>. QED BY <2>2
  <1>4. ASSUME NEW t \in ListedIn(published, server), ~PassedIn(published, server, token, t)
        PROVE  t \in T
    BY <1>4 DEF LeftIn
  <1> HIDE DEF T, e, m, page, next
  <1>5. /\ m \in Nat /\ e \in [1 .. m -> T]
        /\ \A i, j \in 1 .. m : i < j <=> e[i] < e[j]
        /\ \A x \in T : \E i \in 1 .. m : e[i] = x
    BY <1>1 DEF Climbs
  <1>6. next \in Nat
    <2>1. m > ItemsPerPage => ItemsPerPage \in 1 .. m
      BY <1>2, <1>5
    <2>. QED BY <1>1, <1>2, <1>5, <2>1 DEF NoToken
  <1>7. ASSUME NEW t \in ListedIn(published, server),
               next = NoToken \/ PassedIn(published, server, next, t),
               ~PassedIn(published, server, token, t)
        PROVE  \E i \in DOMAIN page : page[i].at = t
    <2>1. PICK k \in 1 .. m : e[k] = t
      BY <1>4, <1>5, <1>7
    <2>2. k <= ItemsPerPage
      <3>1. CASE m <= ItemsPerPage
        BY <1>2, <1>5, <2>1, <3>1
      <3>2. CASE ~(m <= ItemsPerPage) /\ server.cursor = "time"
        <4>1. next = e[ItemsPerPage] /\ ItemsPerPage \in 1 .. m
          BY <1>1, <1>2, <1>5, <3>2
        <4>2. next \in FeedTimes /\ next # NoToken /\ t \in Nat
          <5>1. e[ItemsPerPage] \in T /\ e[k] \in T
            BY <1>5, <4>1
          <5>2. T \subseteq FeedTimes
            BY <1>1
          <5>3. e[ItemsPerPage] \in FeedTimes /\ t \in FeedTimes
            BY <2>1, <5>1, <5>2
          <5>. QED BY <1>2, <4>1, <5>3 DEF NoToken
        <4>3. t <= next
          BY <1>7, <3>2, <4>2 DEF PassedIn
        <4>4. ~(e[ItemsPerPage] < e[k])
          BY <1>6, <2>1, <4>1, <4>2, <4>3
        <4>. QED BY <1>2, <1>5, <2>1, <4>1, <4>4
      <3>3. CASE ~(m <= ItemsPerPage) /\ server.cursor # "time"
        <4>1. next = token + ItemsPerPage /\ next # NoToken
          BY <1>1, <1>2, <3>3 DEF NoToken
        <4>2. Cardinality({u \in ListedIn(published, server) : u < t}) < next
          BY <1>7, <3>3, <4>1 DEF PassedIn
        <4>3. token + k - 1 < token + ItemsPerPage
          BY <1>3, <2>1, <3>3, <4>1, <4>2
        <4>. QED BY <1>2, <1>5, <2>1, <4>3
      <3>. QED BY <3>1, <3>2, <3>3
    <2>3. k \in DOMAIN page
      BY <1>1, <1>2, <1>5, <2>1, <2>2 DEF PageLength
    <2>. QED BY <1>1, <2>1, <2>3
  <1>. QED BY <1>6, <1>7 DEF next, page

-----------------------------------------------------------------------------
(* The inductive invariant: no item that was fetched is older than it was   *)
(* at first or newer than it is, and whatever was there at first and lies   *)
(* before the next page has been fetched.                                   *)
Fetching ==
    [pc : {"request"}, kind : FeedKinds, server : Servers, page : Nat, attempt : Nat,
     token : Nat, seen : SUBSET (Nat \ {NoToken}), items : Seq(Item)]
Answers == [pc : {"returned"}, kind : FeedKinds, items : Seq(Item)]
Current(p, items) ==
    \A i \in DOMAIN items : asked[items[i].at] <= items[i].version /\ items[i].version <= p[items[i].at]
Includes(items, t) == \E i \in DOMAIN items : items[i].at = t
CoveredBy(p, server, token, items) ==
    \A t \in Window : asked[t] > 0 /\ PassedIn(p, server, token, t) => Includes(items, t)
Published(p) == p \in [FeedTimes -> Nat] /\ \A t \in FeedTimes : asked[t] <= p[t]
Underway(p, c) ==
    /\ c \in Fetching /\ Current(p, c.items) /\ CoveredBy(p, c.server, c.token, c.items)

FeedInv ==
    /\ FeedAssumption
    /\ asked \in [FeedTimes -> Nat] /\ Published(published)
    /\ \/ fetch = NoFetch
       \/ fetch = [pc |-> "failed"]
       \/ Underway(published, fetch)
       \/ fetch \in Answers /\ FetchIsExact

LEMMA FeedBegins ==
    ASSUME FeedAssumption, FeedInit
    PROVE  FeedInv
  <1>1. published \in [FeedTimes -> Nat] /\ asked = published
    BY DEF FeedInit
  <1>2. \A t \in FeedTimes : asked[t] <= published[t]
    BY <1>1
  <1>. QED BY <1>1, <1>2 DEF FeedInit, FeedInv, Published

(* A new item, or a new version of one, disturbs no call.                   *)
LEMMA PublishKeeps ==
    ASSUME FeedInv, NEW t \in FeedTimes, Publish(t)
    PROVE  FeedInv'
  <1>1. /\ FeedAssumption /\ asked \in [FeedTimes -> Nat] /\ asked' = asked /\ fetch' = fetch
        /\ published \in [FeedTimes -> Nat] /\ published' = [published EXCEPT ![t] = @ + 1]
        /\ \A u \in FeedTimes : asked[u] <= published[u]
        /\ fetch.pc = "request"
    BY DEF FeedInv, Publish, Published
  <1>2. /\ published' \in [FeedTimes -> Nat]
        /\ \A u \in FeedTimes : published[u] <= published'[u]
    BY <1>1
  <1>3. Published(published)'
    <2>1. \A u \in FeedTimes : asked[u] \in Nat /\ published[u] \in Nat /\ published'[u] \in Nat
      BY <1>1, <1>2
    <2>2. \A u \in FeedTimes : asked[u] <= published'[u]
      BY <1>1, <1>2, <2>1
    <2>. QED BY <1>1, <1>2, <2>2 DEF Published
  <1>4. Underway(published, fetch)
    BY <1>1 DEF FeedInv, NoFetch, Answers
  <1>5. fetch \in Fetching /\ fetch.items \in Seq(Item) /\ fetch.token \in Nat
    BY <1>4 DEF Underway, Fetching
  <1>6. \A i \in DOMAIN fetch.items : fetch.items[i].at \in FeedTimes /\ fetch.items[i].version \in Nat
    <2>1. \A i \in DOMAIN fetch.items : fetch.items[i] \in Item
      BY <1>5
    <2>2. \A x \in Item : x.at \in FeedTimes /\ x.version \in Nat
      BY DEF Item
    <2>. QED BY <2>1, <2>2
  <1>7. Current(published', fetch.items)
    <2> SUFFICES ASSUME NEW i \in DOMAIN fetch.items
                 PROVE  /\ asked[fetch.items[i].at] <= fetch.items[i].version
                        /\ fetch.items[i].version <= published'[fetch.items[i].at]
      BY DEF Current
    <2>1. /\ asked[fetch.items[i].at] <= fetch.items[i].version
          /\ fetch.items[i].version <= published[fetch.items[i].at]
      BY <1>4 DEF Underway, Current
    <2>2. /\ published[fetch.items[i].at] <= published'[fetch.items[i].at]
          /\ published[fetch.items[i].at] \in Nat /\ published'[fetch.items[i].at] \in Nat
          /\ fetch.items[i].version \in Nat
      BY <1>1, <1>2, <1>6
    <2>. QED BY <2>1, <2>2
  <1>8. CoveredBy(published', fetch.server, fetch.token, fetch.items)
    <2>1. ListedIn(published, fetch.server) \subseteq ListedIn(published', fetch.server)
      <3>1. \A u \in FeedTimes : published[u] > 0 => published'[u] > 0
        <4>1. \A u \in FeedTimes : published[u] \in Nat /\ published'[u] \in Nat
          BY <1>1, <1>2
        <4>. QED BY <1>2, <4>1
      <3>. QED BY <3>1 DEF ListedIn
    <2>2. \A u : PassedIn(published', fetch.server, fetch.token, u)
                    => PassedIn(published, fetch.server, fetch.token, u)
      BY <1>1, <1>5, <2>1, NothingSkipped
    <2>. QED BY <1>4, <2>2 DEF Underway, CoveredBy
  <1>9. Underway(published, fetch)'
    BY <1>1, <1>5, <1>7, <1>8 DEF Underway, Current, CoveredBy
  <1>10. FeedAssumption' /\ (asked \in [FeedTimes -> Nat])'
    BY <1>1 DEF FeedAssumption, FeedTimes
  <1>. QED BY <1>3, <1>9, <1>10 DEF FeedInv

(* A page and its token: the items so far are as current, and no item that  *)
(* was there at first is missing before the next page.                      *)
LEMMA PageExtends ==
    ASSUME FeedAssumption, asked \in [FeedTimes -> Nat], Published(published),
           Underway(published, fetch)
    PROVE  LET items == fetch.items \o Page(fetch.server, fetch.token)
               next == NextToken(fetch.server, fetch.token)
           IN /\ items \in Seq(Item) /\ Current(published, items) /\ next \in Nat
              /\ \A t \in Window :
                    asked[t] > 0 /\ (next = NoToken \/ PassedIn(published, fetch.server, next, t))
                        => Includes(items, t)
  <1> DEFINE page == Page(fetch.server, fetch.token)
             items == fetch.items \o page
             next == NextToken(fetch.server, fetch.token)
  <1>1. /\ published \in [FeedTimes -> Nat] /\ \A t \in FeedTimes : asked[t] <= published[t]
        /\ fetch.items \in Seq(Item) /\ fetch.token \in Nat
        /\ Current(published, fetch.items)
        /\ CoveredBy(published, fetch.server, fetch.token, fetch.items)
    BY DEF Published, Underway, Fetching
  <1>2. page \in Seq(Item) /\ \A i \in DOMAIN page : page[i].version = published[page[i].at]
    BY <1>1, PageIs
  <1>3. /\ next \in Nat
        /\ \A t \in ListedIn(published, fetch.server) :
              next = NoToken \/ PassedIn(published, fetch.server, next, t)
                  => \/ PassedIn(published, fetch.server, fetch.token, t)
                     \/ \E i \in DOMAIN page : page[i].at = t
    BY <1>1, PageCovers
  <1> HIDE DEF page, next
  <1>4. /\ items \in Seq(Item)
        /\ \A i \in DOMAIN items : \/ \E j \in DOMAIN fetch.items : items[i] = fetch.items[j]
                                   \/ \E j \in DOMAIN page : items[i] = page[j]
        /\ \A j \in DOMAIN fetch.items : \E i \in DOMAIN items : items[i] = fetch.items[j]
        /\ \A j \in DOMAIN page : \E i \in DOMAIN items : items[i] = page[j]
    <2>1. Joins(Item, fetch.items, page, items)
      BY <1>1, <1>2, Concatenated
    <2> HIDE DEF items
    <2>. QED BY <2>1 DEF Joins
  <1> HIDE DEF items
  <1>5. \A j \in DOMAIN page : page[j].at \in FeedTimes /\ page[j].version \in Nat
    <2>1. \A j \in DOMAIN page : page[j] \in Item
      BY <1>2
    <2>2. \A x \in Item : x.at \in FeedTimes /\ x.version \in Nat
      BY DEF Item
    <2>. QED BY <2>1, <2>2
  <1>6. Current(published, items)
    <2>1. \A j \in DOMAIN page : asked[page[j].at] <= page[j].version
                                 /\ page[j].version <= published[page[j].at]
      BY <1>1, <1>2, <1>5
    <2>2. \A j \in DOMAIN fetch.items :
              /\ asked[fetch.items[j].at] <= fetch.items[j].version
              /\ fetch.items[j].version <= published[fetch.items[j].at]
      BY <1>1 DEF Current
    <2>. QED BY <1>4, <2>1, <2>2 DEF Current
  <1>7. ASSUME NEW t \in Window, asked[t] > 0,
               next = NoToken \/ PassedIn(published, fetch.server, next, t)
        PROVE  Includes(items, t)
    <2>1. t \in ListedIn(published, fetch.server)
      <3>1. t \in FeedTimes /\ t < FeedEnd
        BY FeedBounds DEF Window
      <3>2. asked[t] \in Nat /\ published[t] \in Nat /\ asked[t] <= published[t]
        BY <1>1, <3>1
      <3>. QED BY <1>7, <3>1, <3>2 DEF ListedIn
    <2>2. CASE PassedIn(published, fetch.server, fetch.token, t)
      <3>1. Includes(fetch.items, t)
        BY <1>1, <1>7, <2>2 DEF CoveredBy
      <3>. QED BY <1>4, <3>1 DEF Includes
    <2>3. CASE \E i \in DOMAIN page : page[i].at = t
      BY <1>4, <2>3 DEF Includes
    <2>. QED BY <1>3, <1>7, <2>1, <2>2, <2>3
  <1>. QED BY <1>3, <1>4, <1>6, <1>7 DEF items, next, page

LEMMA AnswerKeeps ==
    ASSUME FeedInv, Answer
    PROVE  FeedInv'
  <1> DEFINE next == NextToken(fetch.server, fetch.token)
             items == fetch.items \o Page(fetch.server, fetch.token)
  <1>1. /\ FeedAssumption /\ asked \in [FeedTimes -> Nat] /\ Published(published)
        /\ asked' = asked /\ published' = published /\ fetch.pc = "request"
    BY DEF FeedInv, Answer
  <1>2. Underway(published, fetch)
    BY <1>1 DEF FeedInv, NoFetch, Answers
  <1>3. /\ items \in Seq(Item) /\ Current(published, items) /\ next \in Nat
        /\ \A t \in Window :
              asked[t] > 0 /\ (next = NoToken \/ PassedIn(published, fetch.server, next, t))
                  => Includes(items, t)
    BY <1>1, <1>2, PageExtends
  <1>4. PICK token \in {next} \cup fetch.seen : Continue(items, token)
    BY DEF Answer
  <1> HIDE DEF next, items
  <1>5. fetch \in Fetching /\ fetch.kind \in FeedKinds /\ fetch.seen \in SUBSET (Nat \ {NoToken})
        /\ fetch.page \in Nat /\ fetch.server \in Servers
    BY <1>2 DEF Underway, Fetching
  <1>6. /\ FeedAssumption' /\ (asked \in [FeedTimes -> Nat])' /\ Published(published)'
    BY <1>1 DEF FeedAssumption, FeedTimes, Published
  <1>7. \/ fetch' = [pc |-> "failed"]
        \/ /\ token = NoToken /\ Accepts(fetch.kind, items)
           /\ fetch' = [pc |-> "returned", kind |-> fetch.kind, items |-> items]
        \/ /\ token # NoToken /\ token \notin fetch.seen
           /\ fetch' = [fetch EXCEPT !.page = @ + 1, !.attempt = 1, !.token = token,
                                     !.seen = @ \cup {token}, !.items = items]
    BY <1>4 DEF Continue, Fail
  <1>8. CASE fetch' = [pc |-> "failed"]
    BY <1>6, <1>8 DEF FeedInv
  <1>9. CASE /\ token = NoToken /\ Accepts(fetch.kind, items)
             /\ fetch' = [pc |-> "returned", kind |-> fetch.kind, items |-> items]
    <2>1. token = next
      BY <1>5, <1>9
    <2>2. \A t \in Window : asked[t] > 0 => Includes(items, t)
      BY <1>3, <1>9, <2>1
    <2>3. /\ \A i \in DOMAIN items : items[i].at \in Window
          /\ Unrepeated(items)
          /\ fetch.kind = "bars" => Ascending(items)
      <3>1. \A i \in DOMAIN items : items[i].at \in Window
        BY <1>9 DEF Accepts, InRange
      <3>2. IF fetch.kind = "bars" THEN Ascending(items) ELSE Unrepeated(items)
        BY <1>9 DEF Accepts
      <3>3. Unrepeated(items)
        BY <1>1, <1>3, <3>2, AscendingOnce
      <3>. QED BY <3>1, <3>2, <3>3
    <2>4. \A i \in DOMAIN items : items[i].version \in asked[items[i].at] .. published[items[i].at]
      <3>1. \A i \in DOMAIN items : items[i].at \in FeedTimes /\ items[i].version \in Nat
        <4>1. \A i \in DOMAIN items : items[i] \in Item
          BY <1>3
        <4>2. \A x \in Item : x.at \in FeedTimes /\ x.version \in Nat
          BY DEF Item
        <4>. QED BY <4>1, <4>2
      <3>2. \A t \in FeedTimes : asked[t] \in Nat /\ published[t] \in Nat
        BY <1>1 DEF Published
      <3>3. \A i \in DOMAIN items : /\ asked[items[i].at] <= items[i].version
                                    /\ items[i].version <= published[items[i].at]
        BY <1>3 DEF Current
      <3>. QED BY <3>1, <3>2, <3>3
    <2>5. fetch'.items = items /\ fetch'.kind = fetch.kind /\ fetch' \in Answers
      BY <1>3, <1>5, <1>9 DEF Answers
    <2>6. FetchIsExact'
      <3>1. \A t \in Window : asked[t] > 0 => t \in {items[i].at : i \in DOMAIN items}
        BY <2>2 DEF Includes
      <3>. QED BY <1>1, <2>3, <2>4, <2>5, <3>1 DEF FetchIsExact, Unrepeated, Ascending, Window
    <2>. QED BY <1>6, <2>5, <2>6 DEF FeedInv, Answers
  <1>10. CASE /\ token # NoToken /\ token \notin fetch.seen
              /\ fetch' = [fetch EXCEPT !.page = @ + 1, !.attempt = 1, !.token = token,
                                        !.seen = @ \cup {token}, !.items = items]
    <2>1. token = next /\ token \in Nat \ {NoToken}
      BY <1>3, <1>4, <1>10
    <2>2. CoveredBy(published, fetch.server, token, items)
      BY <1>3, <2>1 DEF CoveredBy
    <2>3. fetch.seen \cup {token} \in SUBSET (Nat \ {NoToken})
      BY <1>5, <2>1
    <2>4. /\ fetch' \in Fetching /\ fetch'.items = items /\ fetch'.token = token
          /\ fetch'.server = fetch.server
      <3>1. fetch \in Fetching
        BY <1>5
      <3>2. fetch.page + 1 \in Nat /\ 1 \in Nat /\ token \in Nat /\ items \in Seq(Item)
        BY <1>3, <1>5, <2>1
      <3>3. fetch' = [fetch EXCEPT !.page = @ + 1, !.attempt = 1, !.token = token,
                                   !.seen = @ \cup {token}, !.items = items]
        BY <1>10
      <3>. QED BY ONLY <2>3, <3>1, <3>2, <3>3 DEF Fetching
    <2>5. Underway(published, fetch)'
      BY <1>1, <1>3, <2>2, <2>4 DEF Underway, Current, CoveredBy
    <2>. QED BY <1>6, <2>5 DEF FeedInv
  <1>. QED BY <1>7, <1>8, <1>9, <1>10

LEMMA CallKeeps ==
    ASSUME FeedInv, Begin \/ Unanswered \/ Refuse
    PROVE  FeedInv'
  <1>1. /\ FeedAssumption /\ asked \in [FeedTimes -> Nat] /\ Published(published)
        /\ asked' = asked /\ published' = published
    BY DEF FeedInv, Begin, Unanswered, Refuse
  <1>2. /\ FeedAssumption' /\ (asked \in [FeedTimes -> Nat])' /\ Published(published)'
    BY <1>1 DEF FeedAssumption, FeedTimes, Published
  <1>3. CASE Begin
    <2>1. PICK kind \in FeedKinds, server \in Servers :
            fetch' = [pc |-> "request", kind |-> kind, server |-> server, page |-> 1,
                      attempt |-> 1, token |-> NoToken, seen |-> {}, items |-> <<>>]
      BY <1>3 DEF Begin
    <2>2. fetch' \in Fetching /\ fetch'.items = <<>> /\ fetch'.token = NoToken
      <3>1. NoToken \in Nat /\ {} \in SUBSET (Nat \ {NoToken}) /\ <<>> \in Seq(Item)
        BY DEF NoToken
      <3>. QED BY <2>1, <3>1 DEF Fetching
    <2>3. \A t \in Window : ~PassedIn(published, fetch'.server, NoToken, t)
      <3> SUFFICES ASSUME NEW t \in Window PROVE ~PassedIn(published, fetch'.server, NoToken, t)
        OBVIOUS
      <3>1. t \in Nat /\ t > 0
        BY <1>1, FeedBounds DEF Window
      <3> DEFINE S == {u \in ListedIn(published, fetch'.server) : u < t}
      <3>2. S \subseteq ListedIn(published, fetch'.server)
        OBVIOUS
      <3>3. IsFiniteSet(ListedIn(published, fetch'.server))
        BY <1>1, ListedIs DEF Indexes
      <3> HIDE DEF S
      <3>4. IsFiniteSet(S)
        BY <3>2, <3>3, FS_Subset
      <3>5. Cardinality(S) \in Nat
        BY <3>4, FS_CardinalityType
      <3>6. ~(t <= NoToken) /\ ~(Cardinality(S) < NoToken)
        BY <3>1, <3>5 DEF NoToken
      <3>. QED BY <3>6 DEF PassedIn, S
    <2>4. Underway(published, fetch)'
      BY <1>1, <2>2, <2>3 DEF Underway, Current, CoveredBy
    <2>. QED BY <1>2, <2>4 DEF FeedInv
  <1>4. CASE Unanswered \/ Refuse
    <2>1. fetch.pc = "request"
      BY <1>4 DEF Unanswered, Refuse
    <2>2. Underway(published, fetch)
      BY <2>1 DEF FeedInv, NoFetch, Answers
    <2>3. fetch' = [pc |-> "failed"] \/ fetch' = [fetch EXCEPT !.attempt = @ + 1]
      BY <1>4 DEF Unanswered, Refuse, Fail
    <2>4. CASE fetch' = [pc |-> "failed"]
      BY <1>2, <2>4 DEF FeedInv
    <2>5. CASE fetch' = [fetch EXCEPT !.attempt = @ + 1]
      <3>1. fetch \in Fetching
        BY <2>2 DEF Underway
      <3>2. /\ fetch' \in Fetching /\ fetch'.items = fetch.items /\ fetch'.token = fetch.token
            /\ fetch'.server = fetch.server
        BY <2>5, <3>1 DEF Fetching
      <3>3. Underway(published, fetch)'
        BY <1>1, <2>2, <3>2 DEF Underway, Current, CoveredBy
      <3>. QED BY <1>2, <3>3 DEF FeedInv
    <2>. QED BY <2>3, <2>4, <2>5
  <1>. QED BY <1>3, <1>4

LEMMA FeedGoesOn ==
    ASSUME FeedInv, [FeedNext]_feedVars
    PROVE  FeedInv'
  <1>1. CASE Begin \/ Unanswered \/ Refuse
    BY <1>1, CallKeeps
  <1>2. CASE Answer
    BY <1>2, AnswerKeeps
  <1>3. CASE \E t \in FeedTimes : Publish(t)
    BY <1>3, PublishKeeps
  <1>4. CASE UNCHANGED feedVars
    <2>1. asked' = asked /\ published' = published /\ fetch' = fetch
      BY <1>4 DEF feedVars
    <2>2. /\ FeedAssumption' /\ (asked \in [FeedTimes -> Nat])' /\ Published(published)'
      BY <2>1 DEF FeedInv, FeedAssumption, FeedTimes, Published
    <2>3. Underway(published, fetch) => Underway(published, fetch)'
      BY <2>1 DEF Underway, Current, CoveredBy
    <2>4. FetchIsExact => FetchIsExact'
      BY <2>1 DEF FetchIsExact, Unrepeated, Ascending, Window
    <2>. QED BY <2>1, <2>2, <2>3, <2>4 DEF FeedInv, NoFetch, Answers
  <1>. QED BY <1>1, <1>2, <1>3, <1>4 DEF FeedNext, FeedStep

LEMMA InvFetchIsExact ==
    ASSUME FeedInv
    PROVE  FetchIsExact
  BY DEF FeedInv, Underway, Fetching, NoFetch, FetchIsExact

(* A provider call that returns, returns the interval it was asked for: all *)
(* that was there when it began, once, as it was then or newer, and nothing *)
(* from outside.  It holds for any page size, any limits and either kind of *)
(* token, whatever is published or corrected between two pages.             *)
THEOREM ExactFetches ==
    FeedAssumption /\ FeedSpec => []FetchIsExact
  <1>1. FeedAssumption /\ FeedInit => FeedInv
    BY FeedBegins
  <1>2. FeedInv /\ [FeedNext]_feedVars => FeedInv'
    BY FeedGoesOn
  <1>3. FeedInv => FetchIsExact
    BY InvFetchIsExact
  <1>. QED BY <1>1, <1>2, <1>3, PTL DEF FeedSpec
=============================================================================
