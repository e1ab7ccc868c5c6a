---------------------------- MODULE CaptureCycle ----------------------------
(***************************************************************************)
(* The capture coordinator (src/app/capture/coordinator.py) over its three *)
(* databases: cycles and their audit with the durable clock (capture.db),  *)
(* the receipts of every cycle (observations.db), and the writer guard     *)
(* (capture-lock.db).  execute() claims the cycle, lets the ingestion      *)
(* coordinator append the batch, replays the store up to a cutoff, seals   *)
(* what it read, and computes the research from the seal.  Every step ends *)
(* in a commit of its own, and a process may die after each.               *)
(*                                                                         *)
(* Requests are valid and authorized, and one cycle id is one request:     *)
(* other content under the id is refused and changes nothing, as is a call *)
(* for a cycle that is COMPLETE (answered from its row), BLOCKED or        *)
(* UNRESOLVED.  A bar is its time; the revisions of a bar are the          *)
(* receipts of it, told apart by their observation ids.                    *)
(***************************************************************************)
EXTENDS Naturals, Sequences, FiniteSets

CONSTANTS
    Processes,         \* processes that call execute()
    Cycles,            \* cycle ids, each with its request
    Batch,             \* [Cycles -> SUBSET Nat]: times of the bars of a request
    ScheduledAt,       \* [Cycles -> Nat]
    Start, End,        \* half-open range of every request
    Sessions,          \* the times of the declared session grid
    RequireAll,        \* policy: require_every_interval
    MaxBarAge, MaxObservations, PageSize, MaxPages,      \* policy: caps
    Ids,               \* observation ids; a tie of receipts is broken by them
    Times,             \* what a host clock may show (bound)
    None

VARIABLES
    lastAt,      \* clock_state: the last host time that was used
    cycles,      \* table cycles: state, sealed inputs and result
    audit,       \* table events, per cycle
    store,       \* observations.db, of all cycles
    guard,       \* the process that holds the lock of capture-lock.db
    call,        \* execute() in progress in each process
    acquired     \* history: how often the batch of a cycle was appended

vars == <<lastAt, cycles, audit, store, guard, call, acquired>>

-----------------------------------------------------------------------------
States == {"ACQUIRING", "INPUTS_SEALED", "COMPLETE", "BLOCKED", "UNRESOLVED"}
Observations == [id : Ids, at : Times, bar : Nat, cycle : Cycles]
Seals == [receiptAt : Times, asOf : Times, sealedAt : Times,
          observations : SUBSET Observations]
Results == [history : SUBSET Observations, completedAt : Times]

CaptureAssumption ==
    /\ Times \subseteq Nat /\ Ids \subseteq Nat /\ Sessions \subseteq Nat
    /\ Start \in Nat /\ End \in Nat
    /\ Batch \in [Cycles -> SUBSET {t \in Sessions : Start <= t /\ t < End}]
    /\ ScheduledAt \in [Cycles -> Nat] /\ \A c \in Cycles : ScheduledAt[c] >= End
    /\ None \notin Processes /\ None \notin Seals /\ None \notin Results
    /\ MaxBarAge \in Nat /\ MaxObservations \in Nat
    /\ MaxPages \in Nat \ {0} /\ PageSize \in Nat \ {0}

NoCycle == [state |-> "ABSENT", seal |-> None, result |-> None]
Idle == [pc |-> "idle"]

(* Types.  A row has a seal from its sealing on and a result when complete. *)
TypeOK ==
    /\ lastAt \in Times
    /\ store \subseteq Observations
    /\ guard \in Processes \cup {None}
    /\ acquired \in [Cycles -> Nat]
    /\ \A c \in Cycles :
        /\ cycles[c].state \in States \cup {"ABSENT"}
        /\ cycles[c].seal # None => cycles[c].seal \in Seals
        /\ cycles[c].result # None => cycles[c].result \in Results
        /\ cycles[c].state \in {"ABSENT", "ACQUIRING", "UNRESOLVED"} => cycles[c].seal = None
        /\ cycles[c].state \in {"INPUTS_SEALED", "COMPLETE"} => cycles[c].seal # None
        /\ (cycles[c].state = "COMPLETE") <=> (cycles[c].result # None)
        /\ audit[c] \in Seq([stage : States, at : Times])
    /\ \A p \in Processes :
        call[p] # Idle <=> guard = p

Init ==
    /\ lastAt \in Times
    /\ cycles = [c \in Cycles |-> NoCycle]
    /\ audit = [c \in Cycles |-> <<>>]
    /\ store = {}
    /\ guard = None
    /\ call = [p \in Processes |-> Idle]
    /\ acquired = [c \in Cycles |-> 0]

-----------------------------------------------------------------------------
(* Receipts in knowledge order: by receipt time, then by id.                *)
Later(o, other) == o.at > other.at \/ (o.at = other.at /\ o.id > other.id)

(* Bug variant: the first receipt of a bar is kept.                         *)
EarliestHistory(observations) ==
    {o \in observations :
        /\ Start <= o.bar /\ o.bar < End
        /\ \A other \in observations : other.bar = o.bar /\ other # o => Later(other, o)}

(* Materialization: the latest receipt of each bar in the half-open range.  *)
History(observations) ==
    {o \in observations :
        /\ Start <= o.bar /\ o.bar < End
        /\ \A other \in observations : other.bar = o.bar /\ other # o => Later(o, other)}

Expected == {t \in Sessions : Start <= t /\ t < End}

(* The coverage and freshness policy of _research().                        *)
Rejected(history, asOf) ==
    LET actual == {o.bar : o \in history}
    IN  \/ ~(actual \subseteq Expected)
        \/ RequireAll /\ actual # Expected
        \/ \E t \in actual : (\A other \in actual : other <= t) /\ asOf - t > MaxBarAge

(* A replay of n observations stays within its caps.  Pages are full but    *)
(* for the last, and an empty store is one page; an observation weighs one  *)
(* towards max_artifact_bytes, which is subsumed in MaxObservations.        *)
WithinCaps(n) == n <= MaxObservations /\ (n + PageSize - 1) \div PageSize <= MaxPages

-----------------------------------------------------------------------------
(* _now(): a host clock behind the last durable time is refused.            *)
Clock(v) == v >= lastAt /\ lastAt' = v

(* _transition(): the row and its event in one transaction.                 *)
Transition(c, to, at, seal, result) ==
    /\ cycles' = [cycles EXCEPT ![c] = [state |-> to, seal |-> seal, result |-> result]]
    /\ audit' = [audit EXCEPT ![c] = Append(@, [stage |-> to, at |-> at])]

(* The call returns or raises, and releases the guard.                      *)
Leave(p) ==
    /\ call' = [call EXCEPT ![p] = Idle]
    /\ guard' = None

(* Bug variant: an interrupted acquisition is simply done again.            *)
EnterAgain(p, c) ==
    /\ call[p] = Idle /\ guard = None
    /\ \E pc \in {"claim", "receive", "research"} :
        /\ cycles[c].state = CASE pc = "claim" -> "ABSENT"
                               [] pc = "receive" -> "ACQUIRING"
                               [] pc = "research" -> "INPUTS_SEALED"
        /\ call' = [call EXCEPT ![p] = [pc |-> pc, cycle |-> c]]
    /\ guard' = p
    /\ UNCHANGED <<lastAt, cycles, audit, store, acquired>>

(* The guard is taken, and the row of the cycle says what is to be done.    *)
Enter(p, c) ==
    /\ call[p] = Idle /\ guard = None
    /\ \E pc \in {"claim", "giveUp", "research"} :
        /\ cycles[c].state = CASE pc = "claim" -> "ABSENT"
                               [] pc = "giveUp" -> "ACQUIRING"
                               [] pc = "research" -> "INPUTS_SEALED"
        /\ call' = [call EXCEPT ![p] = [pc |-> pc, cycle |-> c]]
    /\ guard' = p
    /\ UNCHANGED <<lastAt, cycles, audit, store, acquired>>

(* A claim that outlived its call is never taken up again.                  *)
GiveUp(p) ==
    LET c == call[p].cycle IN
    /\ call[p].pc = "giveUp"
    /\ \E v \in Times : Clock(v) /\ Transition(c, "UNRESOLVED", v, None, None)
    /\ Leave(p)
    /\ UNCHANGED <<store, acquired>>

Claim(p) ==
    LET c == call[p].cycle IN
    /\ call[p].pc = "claim"
    /\ \E v \in Times :
        /\ Clock(v)
        /\ \/ /\ v < ScheduledAt[c]
              /\ Leave(p)
              /\ UNCHANGED <<cycles, audit>>
           \/ /\ v >= ScheduledAt[c]
              /\ Transition(c, "ACQUIRING", v, None, None)
              /\ call' = [call EXCEPT ![p].pc = "receive"]
              /\ UNCHANGED guard
    /\ UNCHANGED <<store, acquired>>

(* ingest_bars(): one receipt time for the whole batch.                     *)
Receive(p) ==
    /\ call[p].pc = "receive"
    /\ \E v \in Times :
        /\ Clock(v)
        /\ call' = [call EXCEPT ![p] =
                        [pc |-> "append", cycle |-> call[p].cycle, receiptAt |-> v]]
    /\ UNCHANGED <<cycles, audit, store, guard, acquired>>

(* The batch is appended as a whole, with ids of the host's factory; an id  *)
(* that exists already rolls all of it back.                                *)
AppendBatch(p) ==
    LET c == call[p].cycle IN
    /\ call[p].pc = "append"
    /\ \E id \in [Batch[c] -> Ids] :
        LET batch == {[id |-> id[t], at |-> call[p].receiptAt, bar |-> t, cycle |-> c] :
                        t \in Batch[c]}
            conflict == \/ \E t, u \in Batch[c] : t # u /\ id[t] = id[u]
                        \/ \E o \in batch, other \in store : o.id = other.id
        IN
        \/ /\ conflict
           /\ Leave(p)
           /\ UNCHANGED <<store, acquired>>
        \/ /\ ~conflict
           /\ store' = store \cup batch
           /\ acquired' = [acquired EXCEPT ![c] = @ + 1]
           /\ call' = [call EXCEPT ![p].pc = "replay"]
           /\ UNCHANGED guard
    /\ UNCHANGED <<lastAt, cycles, audit>>

(* Everything known at the cutoff is read, page by page, from one snapshot. *)
Replay(p) ==
    LET c == call[p].cycle IN
    /\ call[p].pc = "replay"
    /\ \E v \in Times :
        LET known == {o \in store : o.at <= v} IN
        /\ Clock(v)
        /\ \/ /\ WithinCaps(Cardinality(known))
              /\ call' = [call EXCEPT ![p] =
                    [pc |-> "seal", cycle |-> c, receiptAt |-> call[p].receiptAt,
                     asOf |-> v, observations |-> known]]
              /\ UNCHANGED <<cycles, audit, guard>>
           \/ /\ ~WithinCaps(Cardinality(known))
              /\ Transition(c, "BLOCKED", v, None, None)
              /\ Leave(p)
    /\ UNCHANGED <<store, acquired>>

(* What SealedInputs requires of itself.                                    *)
ValidSeal(c, seal) ==
    /\ ScheduledAt[c] <= seal.receiptAt /\ seal.receiptAt <= seal.asOf
    /\ seal.asOf <= seal.sealedAt
    /\ Cardinality(seal.observations) <= MaxObservations
    /\ \A o, other \in seal.observations : o.id = other.id => o = other
    /\ \A o \in seal.observations : o.at <= seal.asOf
    /\ \A t \in Batch[c] :
        \E o \in seal.observations : o.cycle = c /\ o.bar = t /\ o.at = seal.receiptAt

SealAt(p, v) ==
    [receiptAt |-> call[p].receiptAt, asOf |-> call[p].asOf, sealedAt |-> v,
     observations |-> call[p].observations]

(* The seal is written with its own time, or is too large for its policy; a *)
(* seal that is not valid raises, which is Abandon.                         *)
Seal(p) ==
    LET c == call[p].cycle IN
    /\ call[p].pc = "seal"
    /\ \E v \in Times :
        /\ Clock(v)
        /\ ValidSeal(c, SealAt(p, v))
        /\ \/ /\ Transition(c, "INPUTS_SEALED", v, SealAt(p, v), None)
              /\ call' = [call EXCEPT ![p] = [pc |-> "research", cycle |-> c]]
              /\ UNCHANGED guard
           \/ /\ Transition(c, "BLOCKED", v, None, None)
              /\ Leave(p)
    /\ UNCHANGED <<store, acquired>>

(* _research(): the history of the seal, rejected for good or completed at  *)
(* a later time; a rejection is dated by the durable clock.                 *)
Research(p) ==
    LET c == call[p].cycle
        seal == cycles[c].seal
        history == History(seal.observations)
    IN
    /\ call[p].pc = "research"
    /\ \/ /\ Rejected(history, seal.asOf)
          /\ Transition(c, "BLOCKED", lastAt, seal, None)
          /\ Leave(p)
          /\ UNCHANGED lastAt
       \/ /\ ~Rejected(history, seal.asOf)
          /\ \E v \in Times :
                /\ Clock(v)
                /\ call' = [call EXCEPT ![p] = [pc |-> "complete", cycle |-> c,
                             result |-> [history |-> history, completedAt |-> v]]]
          /\ UNCHANGED <<cycles, audit, guard>>
    /\ UNCHANGED <<store, acquired>>

(* The result and its event, unless the result is too large for its policy. *)
Complete(p) ==
    LET c == call[p].cycle
        seal == cycles[c].seal
    IN
    /\ call[p].pc = "complete"
    /\ \/ Transition(c, "COMPLETE", call[p].result.completedAt, seal, call[p].result)
       \/ Transition(c, "BLOCKED", lastAt, seal, None)
    /\ Leave(p)
    /\ UNCHANGED <<lastAt, store, acquired>>

(* The process dies, or an exception other than CaptureBlocked ends the     *)
(* call: the lock is released and what was committed stays.                 *)
Abandon(p) ==
    /\ call[p] # Idle
    /\ Leave(p)
    /\ UNCHANGED <<lastAt, cycles, audit, store, acquired>>

(* The same right after _now(), whose write is a commit of its own.         *)
AbandonAfterClock(p) ==
    /\ call[p].pc \in {"giveUp", "claim", "receive", "replay", "seal", "research"}
    /\ \E v \in Times : Clock(v)
    /\ Leave(p)
    /\ UNCHANGED <<cycles, audit, store, acquired>>

Step(p) ==
    \/ GiveUp(p) \/ Claim(p) \/ Receive(p) \/ AppendBatch(p)
    \/ Replay(p) \/ Seal(p) \/ Research(p) \/ Complete(p)

Next ==
    \E p \in Processes :
        \/ \E c \in Cycles : Enter(p, c)
        \/ Step(p)
        \/ Abandon(p)
        \/ AbandonAfterClock(p)

Spec == Init /\ [][Next]_vars

-----------------------------------------------------------------------------
Sealed(c) == cycles[c].seal # None

(* A seal holds everything that was received before its cutoff and nothing  *)
(* received after it: later cycles, other processes and clocks that go back *)
(* cannot add knowledge to the past.  The coordinator's own checks never    *)
(* refuse what it read.  A result is what its seal gives, however often the *)
(* research was interrupted and whatever was received meanwhile, and shows  *)
(* a bar of its own batch in the revision just received, or in one received *)
(* at the same instant, never in an older one.  The audit of a cycle is     *)
(* dated in order, its seal and its result at the times of their events.    *)
EvidenceIsSound ==
    /\ \A c \in Cycles : Sealed(c) =>
        LET seal == cycles[c].seal IN
        /\ {o \in store : o.at < seal.asOf} \subseteq seal.observations
        /\ seal.observations \subseteq {o \in store : o.at <= seal.asOf}
    /\ \A p \in Processes : call[p].pc = "seal" =>
        \A v \in Times : v >= lastAt => ValidSeal(call[p].cycle, SealAt(p, v))
    /\ \A c \in Cycles : cycles[c].state = "COMPLETE" =>
        LET result == cycles[c].result
            seal == cycles[c].seal
        IN
        /\ result.history = History(seal.observations) /\ ~Rejected(result.history, seal.asOf)
        /\ \A t \in Batch[c] :
            \E o \in result.history : o.bar = t /\ o.at = seal.receiptAt
    /\ \A c \in Cycles : \A i \in 1 .. Len(audit[c]) :
        LET e == audit[c][i] IN
        /\ e.stage = "INPUTS_SEALED" => e.at = cycles[c].seal.sealedAt
        /\ e.stage = "COMPLETE" => e.at = cycles[c].result.completedAt
        /\ e.at <= lastAt
        /\ \A j \in 1 .. i : audit[c][j].at <= e.at

(* Each cycle is acquired at most once and only moves on to a stage of its  *)
(* own, a terminal one staying: the coordinator keeps the promise of        *)
(* CaptureOnce.                                                             *)
Promise == INSTANCE CaptureOnce WITH
    stage <- [c \in Cycles |->
                IF cycles[c].state = "ABSENT" THEN "NEW" ELSE cycles[c].state]
CaptureKeepsPromise == Promise!Spec
=============================================================================
