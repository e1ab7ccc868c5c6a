---------------------------- MODULE ServerProofs ----------------------------
(***************************************************************************)
(* Proofs about what the two local servers answer from: the control plane, *)
(* and the promo codes and the scans of the dashboard.                     *)
(*                                                                         *)
(* The control plane, for every set of planes, commands, grants and runs:  *)
(* a command takes effect once at most and explains the audit, a saved     *)
(* response is honest, and the ledger is final.                            *)
(*                                                                         *)
(* Promo codes, for any number of requests, accounts and codes, however    *)
(* redemptions and edits of a code interleave: the count of a code is the  *)
(* number of accounts that used it, and a limit that stays as it is is     *)
(* exceeded by fewer redemptions than there are requests at a time.  The   *)
(* row a request read may be stale by the time it writes, but nothing it   *)
(* writes to the count or the redemptions comes from that row; the primary *)
(* key of the redemptions is tested by the transaction itself.  And a      *)
(* request goes underway only while the count is below the limit, so that  *)
(* the count together with what is underway stays below the limit plus the *)
(* number of requests.                                                     *)
(*                                                                         *)
(* Scans, for any number of threads, bars, saves and restarts: the saved   *)
(* report is on record, outcomes are measured forward in time, and a       *)
(* claim about a connection or a report that is of old settings has a      *)
(* reason: a save that has yet to reset it, or replaced a file while it    *)
(* was made, or failed or died halfway. The id of a scan belongs to no     *)
(* row before the scan is recorded, so that of the rows it selected        *)
(* before its transaction none can be a later one; and every request       *)
(* underway carries the settings there are, unless what it is going to     *)
(* write is in doubt.                                                      *)
(***************************************************************************)
EXTENDS LocalControl, Accounts, MarketScan, FiniteSetTheorems, TLAPS

(* The theorems about the runtime the commands are run against.             *)
Ledger == INSTANCE RunLedgerProofs WITH Times <- CommandTimes

-----------------------------------------------------------------------------
LedgerRows ==
    {NoCommand} \cup {Unresolved(c) : c \in Commands}
            \cup {Saved(x[1], x[2]) : x \in Commands \X Responses}

RuntimeTypes ==
    /\ runs \in [Runs -> Runtime!Rows]
    /\ audit \in [Runs -> Seq(Runtime!Entries)]
    /\ \A r \in Runs : runs[r].next <= Runtime!Total(r)
    /\ \A r \in Runs : runs[r].state = "ABSENT" => runs[r] = Runtime!NoRun

Types ==
    /\ RuntimeTypes
    /\ commands \in [Ids -> LedgerRows]
    /\ \A i \in Ids : commands[i] # NoCommand => commands[i].command.id = i
    /\ grants \in [Planes -> Grants]
    /\ executing \in [Planes -> {NoCall} \cup Calls]
    /\ effects \in [Ids -> Seq(Runtime!States)]

(* What ResponseIsHonest asks of a response to a command: it holds from the *)
(* moment the plane has it in hand.                                         *)
Honest(c, r) ==
    /\ r.reason \in {"PLAN_MISMATCH", "RUNTIME_REJECTED"} => effects[c.id] = <<>>
    /\ (c.action = "TICK" /\ r.outcome = "COMPLETED") =>
            effects[c.id] \in {<<>>, <<"RUNNING">>, <<"COMPLETE">>}
    /\ (c.action \in {"START", "PAUSE"} /\ r.outcome = "COMPLETED") =>
            Len(effects[c.id]) = 1
    /\ (c.action = "REGISTER" /\ r.outcome = "COMPLETED") =>
            runs[c.run].state # "ABSENT"

(* The transaction of a command is done and its run not yet read again: a   *)
(* failed tick is still to be seen in the run's row.                        *)
Landed(c) ==
    /\ Len(effects[c.id]) = 1
    /\ c.action = "TICK" =>
            effects[c.id] \in {<<"RUNNING">>, <<"COMPLETE">>} \/ runs[c.run].state = "FAILED"
    /\ c.action = "REGISTER" => runs[c.run].state # "ABSENT"

(* A call in progress holds the unresolved row of its command, and how far  *)
(* it is says what the command has done.                                    *)
CallInv(p) ==
    executing[p] # NoCall =>
        LET c == executing[p].command IN
        /\ commands[c.id] = Unresolved(c)
        /\ executing[p].pc = "dispatch" => effects[c.id] = <<>>
        /\ executing[p].pc = "read" => Landed(c)
        /\ executing[p].pc = "respond" => Honest(c, executing[p].response)

(* No two planes are at work on one command.                                *)
OneWorker ==
    \A p, q \in Planes :
        (p # q /\ executing[p] # NoCall /\ executing[q] # NoCall) =>
            executing[p].command.id # executing[q].command.id

(* A row nobody claimed has done nothing, a saved one is honest.            *)
RowInv(i) ==
    /\ Len(effects[i]) <= 1
    /\ commands[i] = NoCommand => effects[i] = <<>>
    /\ commands[i].status = "SAVED" => Honest(commands[i].command, commands[i].response)

(* The command of row i took effect and left entries like e in run r.       *)
Caused(i, r, e) ==
    LET c == commands[i].command IN
    /\ effects[i] # <<>>
    /\ c.run = r /\ c.at = e.at
    /\ c.action = Cause[e.event]

AuditIsCaused ==
    \A r \in Runs : \A j \in 1 .. Len(audit[r]) : \E i \in Ids : Caused(i, r, audit[r][j])

(* The inductive invariant.                                                 *)
IInv ==
    /\ ControlAssumption
    /\ Types
    /\ \A p \in Planes : CallInv(p)
    /\ OneWorker
    /\ \A i \in Ids : RowInv(i)
    /\ AuditIsCaused

-----------------------------------------------------------------------------
(* Facts about sequences.                                                   *)

LEMMA ElementOfSeq ==
    ASSUME NEW S, NEW s \in Seq(S), NEW i \in 1 .. Len(s) PROVE s[i] \in S
  OBVIOUS

LEMMA AppendOne ==
    ASSUME NEW S, NEW e \in S
    PROVE  /\ Append(<<>>, e) = <<e>>
           /\ <<e>> \in Seq(S)
           /\ Len(<<e>>) = 1
           /\ <<e>> # <<>>
  OBVIOUS

LEMMA EmptyFacts == ASSUME NEW S PROVE <<>> \in Seq(S) /\ Len(<<>>) = 0
  OBVIOUS

LEMMA SingleEntry ==
    ASSUME NEW S, NEW e \in S
    PROVE  <<e>> \in Seq(S) /\ \A j \in 1 .. Len(<<e>>) : <<e>>[j] = e
  OBVIOUS

LEMMA ConcatEntry ==
    ASSUME NEW S, NEW s \in Seq(S), NEW t \in Seq(S), NEW j \in 1 .. Len(s \o t)
    PROVE  \/ j \in 1 .. Len(s) /\ (s \o t)[j] = s[j]
           \/ \E k \in 1 .. Len(t) : (s \o t)[j] = t[k]
  <1>1. CASE j <= Len(s)
    BY <1>1
  <1>2. CASE j > Len(s)
    <2>1. j - Len(s) \in 1 .. Len(t) /\ (s \o t)[j] = t[j - Len(s)]
      BY <1>2
    <2>. QED BY <2>1
  <1>. QED BY <1>1, <1>2

LEMMA ConcatSeq ==
    ASSUME NEW S, NEW s \in Seq(S), NEW t \in Seq(S) PROVE s \o t \in Seq(S)
  OBVIOUS

LEMMA StepNumber ==
    ASSUME NEW a \in Nat, NEW n \in Nat, NEW i \in 1 .. n PROVE a + i - 1 \in Nat
  OBVIOUS

LEMMA IntervalFacts ==
    ASSUME NEW a \in Nat, NEW b \in Nat, NEW i \in a .. b
    PROVE  i \in Nat /\ i - a \in Nat
  OBVIOUS

LEMMA FunctionSeq ==
    ASSUME NEW S, NEW n \in Nat, NEW f \in [1 .. n -> S]
    PROVE  f \in Seq(S) /\ Len(f) = n
  OBVIOUS

-----------------------------------------------------------------------------
(* What a transaction of the runtime does for the command it is run for.    *)

(* Entries a command leaves in the audit.                                   *)
EntriesOf(c) ==
    {e \in Runtime!Entries : e.at = c.at /\ e.event \in DOMAIN Cause /\ c.action = Cause[e.event]}

(* The command moved its own run from state to state and logged entries of  *)
(* its own there.                                                           *)
MovesOwnRun(c, before, after) ==
    /\ \E row \in Runtime!Rows :
        /\ runs' = [runs EXCEPT ![c.run] = row]
        /\ runs[c.run].state \in before /\ row.state \in after
    /\ \E entries \in Seq(EntriesOf(c)) :
        audit' = [audit EXCEPT ![c.run] = @ \o entries]

(* Which entries are of a command.                                          *)
LEMMA EventOfCommand ==
    ASSUME ControlAssumption, NEW c \in Commands, NEW name \in DOMAIN Cause,
           NEW step \in Nat, NEW detail \in Runtime!Errors \cup {""},
           c.action = Cause[name]
    PROVE  Runtime!Event(name, step, c.at, detail) \in EntriesOf(c)
  BY DEF ControlAssumption, CommandShape, Runtime!Event, EntriesOf,
         Runtime!Entries, Runtime!States, Cause

(* The invariant of the runtime's own proofs is RuntimeTypes.               *)
LEMMA SameRuntime ==
    ControlAssumption => (RuntimeTypes <=> Ledger!IInv) /\ (RuntimeTypes' <=> Ledger!IInv')
  BY DEF ControlAssumption, RuntimeTypes, Ledger!LedgerAssumption, Ledger!IInv, Ledger!TypeOK, Ledger!UnregisteredIsEmpty,
         Runtime!Rows, Runtime!Entries, Runtime!States, Runtime!Total, Runtime!NoRun,
         Runtime!Errors, Ledger!Rows, Ledger!Entries, Ledger!States, Ledger!Total,
         Ledger!NoRun, Ledger!Errors

LEMMA PlanLength == ASSUME ControlAssumption, NEW r \in Runs PROVE Runtime!Total(r) \in Nat
  BY DEF ControlAssumption, Runtime!Total

(* What a command names.                                                    *)
LEMMA CommandFacts ==
    ASSUME ControlAssumption, NEW c \in Commands
    PROVE  /\ c.id \in Ids /\ c.run \in Runs /\ c.at \in CommandTimes /\ c.at \in Nat
           /\ c.jobs \in 1 .. MaxJobs
  BY DEF ControlAssumption, CommandShape

LEMMA RegisterMoves ==
    ASSUME ControlAssumption, RuntimeTypes, NEW c \in Commands,
           c.action = "REGISTER", Runtime!Register(c.run, c.at)
    PROVE  RuntimeTypes' /\ MovesOwnRun(c, {"ABSENT"}, {"PAUSED"})
  <1>1. Ledger!Register(c.run, c.at)
    BY DEF Ledger!Register, Runtime!Register, Ledger!Log, Runtime!Log, Ledger!Event,
           Runtime!Event, Ledger!Total, Runtime!Total
  <1>2. RuntimeTypes'
    BY <1>1, CommandFacts, SameRuntime, Ledger!RegisterInv DEF ControlAssumption
  <1>. DEFINE row == [state |-> "PAUSED", next |-> 0, lastAt |-> c.at]
              entry == Runtime!Event("REGISTERED", 0, c.at, "")
  <1>3. row \in Runtime!Rows
    BY CommandFacts DEF Runtime!Rows, Runtime!States
  <1>4. entry \in EntriesOf(c)
    BY EventOfCommand DEF Cause
  <1>5. <<entry>> \in Seq(EntriesOf(c))
    BY <1>4, SingleEntry
  <1>6. /\ runs[c.run].state \in {"ABSENT"} /\ row.state \in {"PAUSED"}
        /\ runs' = [runs EXCEPT ![c.run] = row]
        /\ audit' = [audit EXCEPT ![c.run] = @ \o <<entry>>]
    BY DEF Runtime!Register, Runtime!Log
  <1>. HIDE DEF row, entry
  <1>. QED BY <1>2, <1>3, <1>5, <1>6 DEF MovesOwnRun

LEMMA SetRunningMoves ==
    ASSUME ControlAssumption, RuntimeTypes, NEW c \in Commands, NEW running \in BOOLEAN,
           c.action = IF running THEN "START" ELSE "PAUSE",
           Runtime!SetRunning(c.run, running, c.at)
    PROVE  RuntimeTypes' /\ MovesOwnRun(c, {"PAUSED", "RUNNING"}, {"PAUSED", "RUNNING"})
  <1>0. c.run \in Runs /\ runs[c.run] \in Runtime!Rows /\ c.at \in Nat
    BY CommandFacts DEF RuntimeTypes
  <1>1. Ledger!SetRunning(c.run, running, c.at)
    BY DEF Ledger!SetRunning, Runtime!SetRunning, Ledger!Log, Runtime!Log, Ledger!Event,
           Runtime!Event, Ledger!States, Runtime!States, Ledger!Terminal, Runtime!Terminal
  <1>2. RuntimeTypes'
    BY <1>1, CommandFacts, SameRuntime, Ledger!SetRunningInv DEF ControlAssumption
  <1>. DEFINE state == IF running THEN "RUNNING" ELSE "PAUSED"
              row == [state |-> state, next |-> runs[c.run].next, lastAt |-> c.at]
              entry == Runtime!Event(state, runs[c.run].next, c.at, "")
  <1>3. row \in Runtime!Rows
    BY <1>0 DEF Runtime!Rows, Runtime!States
  <1>4. entry \in EntriesOf(c)
    <2>1. state \in DOMAIN Cause /\ c.action = Cause[state]
      BY DEF Cause
    <2>2. runs[c.run].next \in Nat
      BY <1>0 DEF Runtime!Rows
    <2>. HIDE DEF state
    <2>. QED BY <2>1, <2>2, EventOfCommand
  <1>5. <<entry>> \in Seq(EntriesOf(c)) /\ <<>> \in Seq(EntriesOf(c))
    BY <1>4, SingleEntry, EmptyFacts
  <1>6. runs' = [runs EXCEPT ![c.run] = row]
    BY <1>0 DEF Runtime!SetRunning, RuntimeTypes
  <1>7. runs[c.run].state \in {"PAUSED", "RUNNING"} /\ row.state \in {"PAUSED", "RUNNING"}
    BY DEF Runtime!SetRunning, Runtime!States, Runtime!Terminal
  <1>8. \/ audit' = [audit EXCEPT ![c.run] = @ \o <<entry>>]
        \/ audit' = [audit EXCEPT ![c.run] = @ \o <<>>]
    <2>1. audit \in [Runs -> Seq(Runtime!Entries)]
      BY DEF RuntimeTypes
    <2>2. CASE Runtime!Log(c.run, <<entry>>)
      BY <2>2 DEF Runtime!Log
    <2>3. CASE UNCHANGED audit
      <3>1. audit[c.run] \o <<>> = audit[c.run]
        BY <1>0, <2>1
      <3>. QED BY <1>0, <2>1, <2>3, <3>1
    <2>. QED BY <2>2, <2>3 DEF Runtime!SetRunning
  <1>9. \E entries \in Seq(EntriesOf(c)) : audit' = [audit EXCEPT ![c.run] = @ \o entries]
    <2>. HIDE DEF entry
    <2>. QED BY <1>5, <1>8
  <1>10. \E r \in Runtime!Rows :
            /\ runs' = [runs EXCEPT ![c.run] = r]
            /\ runs[c.run].state \in {"PAUSED", "RUNNING"} /\ r.state \in {"PAUSED", "RUNNING"}
    <2>. HIDE DEF row
    <2>. QED BY <1>3, <1>6, <1>7
  <1>. QED BY <1>2, <1>9, <1>10 DEF MovesOwnRun

LEMMA TickMoves ==
    ASSUME ControlAssumption, RuntimeTypes, NEW c \in Commands,
           c.action = "TICK", Runtime!Tick(c.run, c.at, c.jobs)
    PROVE  RuntimeTypes' /\ MovesOwnRun(c, {"RUNNING"}, {"RUNNING", "COMPLETE", "FAILED"})
  <1>0. /\ c.run \in Runs /\ runs[c.run] \in Runtime!Rows /\ c.at \in Nat
        /\ runs[c.run].next \in Nat
    BY CommandFacts DEF RuntimeTypes, Runtime!Rows
  <1>1. Ledger!Tick(c.run, c.at, c.jobs)
    BY DEF Ledger!Tick, Runtime!Tick, Ledger!Log, Runtime!Log, Ledger!Event,
           Runtime!Event, Ledger!Commit, Runtime!Commit, Ledger!Errors, Runtime!Errors,
           Ledger!Total, Runtime!Total, Ledger!IsDue, Runtime!IsDue
  <1>2. RuntimeTypes'
    BY <1>1, CommandFacts, SameRuntime, Ledger!TickInv DEF ControlAssumption
  <1>3. /\ runs[c.run].state = "RUNNING"
        /\ \E index \in runs[c.run].next .. Runtime!Total(c.run),
              error \in Runtime!Errors \cup {""} : Runtime!Commit(c.run, c.at, index, error)
    BY DEF Runtime!Tick
  <1>. PICK index \in runs[c.run].next .. Runtime!Total(c.run),
            error \in Runtime!Errors \cup {""} : Runtime!Commit(c.run, c.at, index, error)
    BY <1>3
  <1>. DEFINE done == index - runs[c.run].next
              state == IF error # "" THEN "FAILED"
                       ELSE IF index = Runtime!Total(c.run) THEN "COMPLETE" ELSE "RUNNING"
              row == [state |-> state, next |-> index, lastAt |-> c.at]
              steps == [i \in 1 .. done |->
                          Runtime!Event("STEP", runs[c.run].next + i - 1, c.at, "")]
              last == IF state = "RUNNING" THEN <<>>
                      ELSE <<Runtime!Event(state, index, c.at, error)>>
  <1>4. index \in Nat /\ done \in Nat /\ state \in {"RUNNING", "COMPLETE", "FAILED"}
    <2>1. Runtime!Total(c.run) \in Nat
      BY <1>0, PlanLength
    <2>2. index \in Nat /\ done \in Nat
      <3>. HIDE DEF Runtime!Total
      <3>. QED BY <1>0, <2>1, IntervalFacts
    <2>. QED BY <2>2
  <1>5. row \in Runtime!Rows /\ row.state \in {"RUNNING", "COMPLETE", "FAILED"}
    BY <1>0, <1>4 DEF Runtime!Rows, Runtime!States
  <1>6. steps \in Seq(EntriesOf(c))
    <2>1. ASSUME NEW i \in 1 .. done
          PROVE  Runtime!Event("STEP", runs[c.run].next + i - 1, c.at, "") \in EntriesOf(c)
      <3>1. runs[c.run].next + i - 1 \in Nat
        BY <1>0, <1>4, StepNumber
      <3>2. "STEP" \in DOMAIN Cause /\ c.action = Cause["STEP"]
        BY DEF Cause
      <3>. QED BY <3>1, <3>2, EventOfCommand
    <2>. HIDE DEF done
    <2>1a. steps \in [1 .. done -> EntriesOf(c)]
      BY <2>1
    <2>. QED BY <1>4, <2>1a, FunctionSeq
  <1>7. last \in Seq(EntriesOf(c))
    <2>1. CASE state = "RUNNING"
      BY <2>1, EmptyFacts
    <2>2. CASE state # "RUNNING"
      <3>1. state \in DOMAIN Cause /\ c.action = Cause[state]
        BY <1>4, <2>2 DEF Cause
      <3>2. Runtime!Event(state, index, c.at, error) \in EntriesOf(c)
        <4>. HIDE DEF state
        <4>. QED BY <1>4, <3>1, EventOfCommand
      <3>. HIDE DEF state
      <3>. QED BY <2>2, <3>2, SingleEntry
    <2>. QED BY <2>1, <2>2
  <1>8. /\ runs' = [runs EXCEPT ![c.run] = row]
        /\ audit' = [audit EXCEPT ![c.run] = @ \o (steps \o last)]
    BY DEF Runtime!Commit, Runtime!Log
  <1>9. steps \o last \in Seq(EntriesOf(c))
    <2>. HIDE DEF steps, last
    <2>. QED BY <1>6, <1>7, ConcatSeq
  <1>. HIDE DEF row, steps, last
  <1>. QED BY <1>2, <1>3, <1>5, <1>8, <1>9 DEF MovesOwnRun

-----------------------------------------------------------------------------
(* What every step leaves of the runs: a failed run stays failed, and a     *)
(* registered one stays registered.                                         *)
RunsMove ==
    \A r \in Runs :
        /\ runs[r].state = "FAILED" => runs'[r].state = "FAILED"
        /\ runs[r].state # "ABSENT" => runs'[r].state # "ABSENT"

LEMMA OwnRunMoves ==
    ASSUME ControlAssumption, RuntimeTypes, NEW c \in Commands, NEW before, NEW after,
           "FAILED" \notin before, after \subseteq Runtime!States,
           MovesOwnRun(c, before, after)
    PROVE  RunsMove /\ runs'[c.run].state \in after
  <1>. PICK row \in Runtime!Rows :
        /\ runs' = [runs EXCEPT ![c.run] = row]
        /\ runs[c.run].state \in before /\ row.state \in after
    BY DEF MovesOwnRun
  <1>. QED BY CommandFacts DEF RunsMove, RuntimeTypes, Runtime!States

LEMMA EffectMoves ==
    ASSUME ControlAssumption, RuntimeTypes, NEW c \in Commands, Effect(c)
    PROVE  /\ RuntimeTypes'
           /\ RunsMove
           /\ runs'[c.run].state \in Runtime!States
           /\ c.action = "TICK" => runs'[c.run].state \in {"RUNNING", "COMPLETE", "FAILED"}
           /\ \E entries \in Seq(EntriesOf(c)) :
                audit' = [audit EXCEPT ![c.run] = @ \o entries]
  <1>1. CASE c.action = "REGISTER" /\ c.digest = "plan" /\ Runtime!Register(c.run, c.at)
    <2>1. RuntimeTypes' /\ MovesOwnRun(c, {"ABSENT"}, {"PAUSED"})
      BY <1>1, RegisterMoves
    <2>2. RunsMove /\ runs'[c.run].state \in {"PAUSED"}
      BY <2>1, OwnRunMoves DEF Runtime!States
    <2>. QED BY <1>1, <2>1, <2>2 DEF MovesOwnRun, Runtime!States
  <1>2. ASSUME NEW running \in BOOLEAN, c.action = IF running THEN "START" ELSE "PAUSE",
               Runtime!SetRunning(c.run, running, c.at)
        PROVE  /\ RuntimeTypes'
               /\ RunsMove
               /\ runs'[c.run].state \in Runtime!States
               /\ c.action # "TICK"
               /\ \E entries \in Seq(EntriesOf(c)) :
                    audit' = [audit EXCEPT ![c.run] = @ \o entries]
    <2>1. RuntimeTypes' /\ MovesOwnRun(c, {"PAUSED", "RUNNING"}, {"PAUSED", "RUNNING"})
      BY <1>2, SetRunningMoves
    <2>2. RunsMove /\ runs'[c.run].state \in {"PAUSED", "RUNNING"}
      BY <2>1, OwnRunMoves DEF Runtime!States
    <2>. QED BY <1>2, <2>1, <2>2 DEF MovesOwnRun, Runtime!States
  <1>3. CASE c.action = "TICK" /\ Runtime!Tick(c.run, c.at, c.jobs)
    <2>1. RuntimeTypes' /\ MovesOwnRun(c, {"RUNNING"}, {"RUNNING", "COMPLETE", "FAILED"})
      BY <1>3, TickMoves
    <2>2. RunsMove /\ runs'[c.run].state \in {"RUNNING", "COMPLETE", "FAILED"}
      BY <2>1, OwnRunMoves DEF Runtime!States
    <2>. QED BY <1>3, <2>1, <2>2 DEF MovesOwnRun, Runtime!States
  <1>4. CASE c.action = "START" /\ Runtime!SetRunning(c.run, TRUE, c.at)
    BY <1>2, <1>4
  <1>5. CASE c.action = "PAUSE" /\ Runtime!SetRunning(c.run, FALSE, c.at)
    BY <1>2, <1>5
  <1>. QED BY <1>1, <1>3, <1>4, <1>5 DEF Effect

-----------------------------------------------------------------------------
(* What a step leaves of the calls and rows it does not touch.              *)

(* An honest answer stays honest.                                           *)
LEMMA HonestStays ==
    ASSUME RunsMove, NEW c, NEW r, c.run \in Runs, Honest(c, r), effects'[c.id] = effects[c.id]
    PROVE  Honest(c, r)'
  BY DEF RunsMove, Honest

(* An effect that landed stays landed.                                      *)
LEMMA LandedStays ==
    ASSUME RunsMove, NEW c, c.run \in Runs, Landed(c), effects'[c.id] = effects[c.id]
    PROVE  Landed(c)'
  BY DEF RunsMove, Landed

(* The shapes of a call in progress.                                        *)
LEMMA CallShape ==
    ASSUME NEW k \in {NoCall} \cup Calls
    PROVE  \/ k = NoCall
           \/ /\ k # NoCall /\ k.command \in Commands
              /\ k.pc \in {"dispatch", "read", "respond"}
              /\ k.pc = "respond" => k.response \in Responses
  BY DEF NoCall, Calls

LEMMA CallStays ==
    ASSUME ControlAssumption, Types, RunsMove, NEW q \in Planes, CallInv(q),
           executing'[q] = executing[q],
           executing[q] # NoCall =>
                /\ commands'[executing[q].command.id] = commands[executing[q].command.id]
                /\ effects'[executing[q].command.id] = effects[executing[q].command.id]
    PROVE  CallInv(q)'
  <1>. PICK k \in {NoCall} \cup Calls : executing[q] = k
    BY DEF Types
  <1>. SUFFICES ASSUME k # NoCall
                PROVE  /\ commands'[k.command.id] = Unresolved(k.command)
                       /\ k.pc = "dispatch" => effects'[k.command.id] = <<>>
                       /\ k.pc = "read" => Landed(k.command)'
                       /\ k.pc = "respond" => Honest(k.command, k.response)'
    BY DEF CallInv
  <1>1. k.command \in Commands /\ k.command.run \in Runs
    BY CallShape, CommandFacts
  <1>2. /\ commands[k.command.id] = Unresolved(k.command)
        /\ k.pc = "dispatch" => effects[k.command.id] = <<>>
        /\ k.pc = "read" => Landed(k.command)
        /\ k.pc = "respond" => Honest(k.command, k.response)
    BY DEF CallInv
  <1>. QED BY <1>1, <1>2, HonestStays, LandedStays

(* The shapes of a row.                                                     *)
LEMMA RowShape ==
    ASSUME NEW x \in LedgerRows
    PROVE  \/ x = NoCommand /\ x.status = "ABSENT"
           \/ \E c \in Commands : x = Unresolved(c) /\ x # NoCommand /\ x.status = "STARTED" /\ x.command = c
           \/ \E c \in Commands, r \in Responses :
                /\ x = Saved(c, r) /\ x # NoCommand
                /\ x.status = "SAVED" /\ x.command = c /\ x.response = r
  <1>1. CASE x = NoCommand
    BY <1>1 DEF NoCommand
  <1>2. CASE x \in {Unresolved(c) : c \in Commands}
    BY <1>2 DEF NoCommand, Unresolved
  <1>3. CASE x \in {Saved(y[1], y[2]) : y \in Commands \X Responses}
    <2>. PICK y \in Commands \X Responses : x = Saved(y[1], y[2])
      BY <1>3
    <2>. QED BY DEF Saved, NoCommand
  <1>. QED BY <1>1, <1>2, <1>3 DEF LedgerRows

LEMMA RowStays ==
    ASSUME ControlAssumption, Types, RunsMove, NEW i \in Ids, RowInv(i),
           commands'[i] = commands[i], effects'[i] = effects[i]
    PROVE  RowInv(i)'
  <1>. PICK x \in LedgerRows : commands[i] = x
    BY DEF Types
  <1>1. x # NoCommand => x.command.id = i
    BY DEF Types
  <1>2. ASSUME x.status = "SAVED" PROVE Honest(x.command, x.response)'
    <2>1. x.command \in Commands /\ x # NoCommand
      BY <1>2, RowShape
    <2>2. x.command.run \in Runs /\ effects'[x.command.id] = effects[x.command.id]
      BY <1>1, <2>1, CommandFacts
    <2>3. Honest(x.command, x.response)
      BY <1>2 DEF RowInv
    <2>. QED BY <2>2, <2>3, HonestStays
  <1>3. /\ Len(effects'[i]) <= 1
        /\ x = NoCommand => effects'[i] = <<>>
    BY DEF RowInv
  <1>. QED BY <1>2, <1>3 DEF RowInv

(* A step that adds nothing to the audit leaves it caused if the commands   *)
(* that took effect are still there.                                        *)
LEMMA AuditStays ==
    ASSUME AuditIsCaused, audit' = audit,
           \A i \in Ids : effects[i] # <<>> =>
                effects'[i] # <<>> /\ commands'[i].command = commands[i].command
    PROVE  AuditIsCaused'
  <1>. SUFFICES ASSUME NEW r \in Runs, NEW j \in 1 .. Len(audit[r])
                PROVE  \E i \in Ids : Caused(i, r, audit[r][j])'
    BY DEF AuditIsCaused
  <1>. PICK e : audit[r][j] = e
    OBVIOUS
  <1>. PICK i \in Ids : Caused(i, r, e)
    BY DEF AuditIsCaused
  <1>1. Caused(i, r, e)'
    BY DEF Caused
  <1>. QED BY <1>1

(* A step of one plane for one command: the invariant is kept if it holds   *)
(* of that plane's call and of that command's row.                          *)
LEMMA StepInv ==
    ASSUME IInv, Types', RunsMove, AuditIsCaused', NEW p \in Planes, NEW c \in Commands,
           \A q \in Planes \ {p} :
                /\ executing'[q] = executing[q]
                /\ executing[q] # NoCall => executing[q].command.id # c.id,
           \A i \in Ids \ {c.id} : commands'[i] = commands[i] /\ effects'[i] = effects[i],
           executing'[p] # NoCall => executing'[p].command = c,
           CallInv(p)', RowInv(c.id)'
    PROVE  IInv'
  <1>1. ASSUME NEW q \in Planes, q # p PROVE CallInv(q)'
    <2>. PICK k \in {NoCall} \cup Calls : executing[q] = k
      BY DEF IInv, Types
    <2>1. k # NoCall => k.command.id \in Ids \ {c.id}
      BY <1>1, CallShape, CommandFacts DEF IInv
    <2>2. k # NoCall =>
            /\ commands'[k.command.id] = commands[k.command.id]
            /\ effects'[k.command.id] = effects[k.command.id]
      BY <2>1
    <2>. QED BY <1>1, <2>2, CallStays DEF IInv
  <1>2. ASSUME NEW i \in Ids, i # c.id PROVE RowInv(i)'
    BY <1>2, RowStays DEF IInv
  <1>3. OneWorker'
    BY DEF IInv, OneWorker
  <1>. QED BY <1>1, <1>2, <1>3 DEF IInv

-----------------------------------------------------------------------------
(* The steps of execute().                                                  *)

(* The plane takes a new command: its row is there before it has done       *)
(* anything, so nobody else takes it.                                       *)
LEMMA ClaimInv ==
    ASSUME IInv, NEW p \in Planes, NEW c \in Commands, Claim(p, c)
    PROVE  IInv'
  <1>. DEFINE k == [pc |-> "dispatch", command |-> c]
  <1>0. ControlAssumption /\ c.id \in Ids
    BY CommandFacts DEF IInv
  <1>1. k \in Calls /\ k # NoCall /\ Unresolved(c) \in LedgerRows /\ Unresolved(c) # NoCommand
        /\ Unresolved(c).command = c /\ Unresolved(c).status = "STARTED"
    BY DEF Calls, NoCall, LedgerRows, Unresolved, NoCommand
  <1>2. /\ commands[c.id] = NoCommand
        /\ commands' = [commands EXCEPT ![c.id] = Unresolved(c)]
        /\ executing' = [executing EXCEPT ![p] = k]
        /\ UNCHANGED <<runs, audit, grants, effects>>
    BY DEF Claim
  <1>. HIDE DEF k
  <1>3. Types'
    <2>1. RuntimeTypes'
      BY <1>2 DEF IInv, Types, RuntimeTypes, Runtime!Total
    <2>2. commands' \in [Ids -> LedgerRows]
      BY <1>0, <1>1, <1>2 DEF IInv, Types
    <2>3. \A i \in Ids : commands'[i] # NoCommand => commands'[i].command.id = i
      BY <1>0, <1>1, <1>2 DEF IInv, Types
    <2>4. executing' \in [Planes -> {NoCall} \cup Calls]
      BY <1>1, <1>2 DEF IInv, Types
    <2>. QED BY <1>2, <2>1, <2>2, <2>3, <2>4 DEF IInv, Types
  <1>4. RunsMove
    BY <1>2 DEF RunsMove
  <1>5. effects[c.id] = <<>>
    BY <1>0, <1>2 DEF IInv, RowInv
  <1>6. AuditIsCaused'
    <2>1. ASSUME NEW i \in Ids, effects[i] # <<>>
          PROVE  effects'[i] # <<>> /\ commands'[i].command = commands[i].command
      BY <1>0, <1>2, <1>5, <2>1 DEF IInv, Types
    <2>. QED BY <1>2, <2>1, AuditStays DEF IInv
  <1>7. commands'[c.id] = Unresolved(c) /\ executing'[p] = k /\ effects'[c.id] = <<>>
    BY <1>0, <1>2, <1>5 DEF IInv, Types
  <1>8. CallInv(p)'
    BY <1>7 DEF CallInv, k
  <1>9. RowInv(c.id)'
    BY <1>1, <1>7, EmptyFacts DEF RowInv
  <1>10. ASSUME NEW q \in Planes \ {p}
         PROVE  /\ executing'[q] = executing[q]
                /\ executing[q] # NoCall => executing[q].command.id # c.id
    <2>1. executing[q] # NoCall => commands[executing[q].command.id] = Unresolved(executing[q].command)
      BY DEF IInv, CallInv
    <2>2. executing[q] # NoCall => Unresolved(executing[q].command) # NoCommand
      BY DEF Unresolved, NoCommand
    <2>. QED BY <1>2, <2>1, <2>2 DEF IInv, Types
  <1>11. \A i \in Ids \ {c.id} : commands'[i] = commands[i] /\ effects'[i] = effects[i]
    BY <1>2 DEF IInv, Types
  <1>12. executing'[p].command = c
    BY <1>7 DEF k
  <1>. QED BY <1>3, <1>4, <1>6, <1>8, <1>9, <1>10, <1>11, <1>12, StepInv

(* What the plane knows of the command it is at work on.                    *)
LEMMA AtWork ==
    ASSUME IInv, NEW p \in Planes, NEW c, executing[p] # NoCall, executing[p].command = c
    PROVE  /\ c \in Commands /\ c.id \in Ids /\ c.run \in Runs
           /\ commands[c.id] = Unresolved(c) /\ Len(effects[c.id]) <= 1
           /\ \A q \in Planes \ {p} : executing[q] # NoCall => executing[q].command.id # c.id
  <1>1. c \in Commands
    BY CallShape DEF IInv, Types
  <1>2. c.id \in Ids /\ c.run \in Runs
    BY <1>1, CommandFacts DEF IInv
  <1>. QED BY <1>1, <1>2 DEF IInv, CallInv, OneWorker, RowInv

(* A step after the claim: the row stays the unresolved one.                *)
LEMMA WorkInv ==
    ASSUME IInv, NEW p \in Planes, NEW c, executing[p] # NoCall, executing[p].command = c,
           NEW k \in Calls, k.command = c, k # NoCall,
           executing' = [executing EXCEPT ![p] = k],
           RuntimeTypes', RunsMove, UNCHANGED <<commands, grants>>,
           effects' \in [Ids -> Seq(Runtime!States)], Len(effects'[c.id]) <= 1,
           \A i \in Ids \ {c.id} : effects'[i] = effects[i],
           AuditIsCaused',
           k.pc = "dispatch" => effects'[c.id] = <<>>,
           k.pc = "read" => Landed(c)',
           k.pc = "respond" => Honest(c, k.response)'
    PROVE  IInv'
  <1>0. /\ c \in Commands /\ c.id \in Ids /\ c.run \in Runs
        /\ commands[c.id] = Unresolved(c) /\ Len(effects[c.id]) <= 1
        /\ \A q \in Planes \ {p} : executing[q] # NoCall => executing[q].command.id # c.id
    BY AtWork
  <1>1. executing'[p] = k /\ commands'[c.id] = Unresolved(c)
    BY <1>0 DEF IInv, Types
  <1>2. Types'
    <2>1. executing' \in [Planes -> {NoCall} \cup Calls]
      BY DEF IInv, Types
    <2>. QED BY <2>1 DEF IInv, Types
  <1>3. CallInv(p)'
    BY <1>1 DEF CallInv
  <1>4. RowInv(c.id)'
    <2>1. Unresolved(c) # NoCommand /\ Unresolved(c).status # "SAVED"
      BY DEF Unresolved, NoCommand
    <2>. QED BY <1>1, <2>1 DEF RowInv
  <1>5. \A q \in Planes \ {p} :
            /\ executing'[q] = executing[q]
            /\ executing[q] # NoCall => executing[q].command.id # c.id
    BY <1>0 DEF IInv, Types
  <1>6. \A i \in Ids \ {c.id} : commands'[i] = commands[i] /\ effects'[i] = effects[i]
    OBVIOUS
  <1>. QED BY <1>0, <1>1, <1>2, <1>3, <1>4, <1>5, <1>6, StepInv

(* The plane has a response in hand that is honest.                         *)
LEMMA AnswerInv ==
    ASSUME IInv, NEW p \in Planes, NEW c, executing[p] # NoCall, executing[p].command = c,
           NEW r \in Responses, Honest(c, r), Answer(p, r),
           UNCHANGED <<runs, audit, commands, grants, effects>>
    PROVE  IInv'
  <1>. DEFINE k == [pc |-> "respond", command |-> c, response |-> r]
  <1>0. c \in Commands /\ c.run \in Runs /\ c.id \in Ids /\ Len(effects[c.id]) <= 1
    BY AtWork
  <1>1. k \in Calls /\ k # NoCall /\ executing' = [executing EXCEPT ![p] = k]
    BY <1>0 DEF Calls, NoCall, Answer
  <1>2. RuntimeTypes' /\ RunsMove
    BY DEF IInv, Types, RuntimeTypes, RunsMove, Runtime!Total
  <1>3. AuditIsCaused'
    BY AuditStays DEF IInv
  <1>4. Honest(c, r)'
    BY <1>0, <1>2, HonestStays
  <1>5. effects' \in [Ids -> Seq(Runtime!States)]
    BY DEF IInv, Types
  <1>6. k.command = c /\ k.pc = "respond" /\ k.response = r
    OBVIOUS
  <1>. HIDE DEF k
  <1>7. /\ Len(effects'[c.id]) <= 1
        /\ \A i \in Ids \ {c.id} : effects'[i] = effects[i]
        /\ k.pc = "dispatch" => effects'[c.id] = <<>>
        /\ k.pc = "read" => Landed(c)'
        /\ k.pc = "respond" => Honest(c, k.response)'
    BY <1>0, <1>4, <1>6
  <1>. QED BY <1>1, <1>2, <1>3, <1>5, <1>6, <1>7, WorkInv

(* The history of a command that has one effect.                            *)
LEMMA EffectType ==
    ASSUME Types, NEW i \in Ids, NEW s \in Runtime!States,
           effects' = [effects EXCEPT ![i] = <<s>>]
    PROVE  effects' \in [Ids -> Seq(Runtime!States)] /\ effects'[i] = <<s>>
  <1>1. effects \in [Ids -> Seq(Runtime!States)] /\ <<s>> \in Seq(Runtime!States)
    BY AppendOne DEF Types
  <1>. QED BY <1>1

(* The runtime's transaction: the command takes effect, its entries are in  *)
(* the audit, and its run is still to be read.                              *)
LEMMA EffectInv ==
    ASSUME IInv, NEW p \in Planes, NEW c, executing[p] # NoCall, executing[p].command = c,
           executing[p].pc = "dispatch", Effect(c),
           effects' = [effects EXCEPT ![c.id] = Append(@, runs'[c.run].state)],
           executing' = [executing EXCEPT ![p].pc = "read"],
           UNCHANGED <<commands, grants>>
    PROVE  IInv'
  <1>. DEFINE k == [pc |-> "read", command |-> c]
  <1>0. /\ c \in Commands /\ c.run \in Runs /\ c.id \in Ids
        /\ commands[c.id] = Unresolved(c)
        /\ ControlAssumption /\ RuntimeTypes
    BY AtWork DEF IInv, Types
  <1>1. k \in Calls /\ k # NoCall /\ executing' = [executing EXCEPT ![p] = k]
    <2>1. executing[p] = [pc |-> "dispatch", command |-> c]
      <3>1. executing[p] \in Calls
        BY DEF IInv, Types
      <3>. QED BY <3>1 DEF Calls
    <2>2. [executing[p] EXCEPT !.pc = "read"] = k
      BY <2>1
    <2>3. executing' = [executing EXCEPT ![p] = [executing[p] EXCEPT !.pc = "read"]]
      OBVIOUS
    <2>. QED BY <1>0, <2>2, <2>3 DEF Calls, NoCall
  <1>2. /\ RuntimeTypes'
        /\ RunsMove
        /\ runs'[c.run].state \in Runtime!States
        /\ c.action = "TICK" => runs'[c.run].state \in {"RUNNING", "COMPLETE", "FAILED"}
        /\ \E entries \in Seq(EntriesOf(c)) : audit' = [audit EXCEPT ![c.run] = @ \o entries]
    BY <1>0, EffectMoves
  <1>. PICK s \in Runtime!States : runs'[c.run].state = s
    BY <1>2
  <1>. PICK entries \in Seq(EntriesOf(c)) : audit' = [audit EXCEPT ![c.run] = @ \o entries]
    BY <1>2
  <1>3. effects' = [effects EXCEPT ![c.id] = <<s>>]
    <2>1. effects[c.id] = <<>>
      BY <1>0 DEF IInv, CallInv
    <2>2. effects' = [effects EXCEPT ![c.id] = Append(effects[c.id], s)]
      OBVIOUS
    <2>. QED BY <2>1, <2>2, AppendOne
  <1>4. <<s>> \in Seq(Runtime!States) /\ Len(<<s>>) = 1 /\ <<s>> # <<>>
    BY AppendOne
  <1>5. effects' \in [Ids -> Seq(Runtime!States)] /\ effects'[c.id] = <<s>>
    BY ZenonT(40), <1>0, <1>3, EffectType DEF IInv
  <1>6. Landed(c)'
    <2>1. c.action = "TICK" => s \in {"RUNNING", "COMPLETE", "FAILED"}
      BY <1>2
    <2>2. runs'[c.run].state # "ABSENT"
      BY <1>2 DEF Runtime!States
    <2>. QED BY <1>4, <1>5, <2>1, <2>2 DEF Landed
  <1>7. AuditIsCaused'
    <2>. SUFFICES ASSUME NEW r \in Runs, NEW j \in 1 .. Len(audit'[r])
                  PROVE  \E i \in Ids : Caused(i, r, audit[r][j])'
      BY DEF AuditIsCaused
    <2>. PICK e : audit'[r][j] = e
      OBVIOUS
    <2>1. ASSUME NEW l \in 1 .. Len(audit[r]), audit[r][l] = e
          PROVE  \E i \in Ids : Caused(i, r, e)'
      <3>. PICK i \in Ids : Caused(i, r, e)
        BY <2>1 DEF IInv, AuditIsCaused
      <3>1. effects'[i] # <<>>
        BY <1>0, <1>3, <1>4 DEF Caused, IInv, Types
      <3>2. Caused(i, r, e)'
        BY <3>1 DEF Caused
      <3>. QED BY <3>2
    <2>2. ASSUME r = c.run, e \in EntriesOf(c)
          PROVE  \E i \in Ids : Caused(i, r, e)'
      <3>1. Unresolved(c).command = c
        BY DEF Unresolved
      <3>2. Caused(c.id, r, e)'
        BY <1>0, <1>4, <1>5, <2>2, <3>1 DEF Caused, EntriesOf
      <3>. QED BY <1>0, <3>2
    <2>3. CASE r # c.run
      <3>1. audit'[r] = audit[r]
        BY <2>3 DEF IInv, Types, RuntimeTypes
      <3>. QED BY <2>1, <3>1
    <2>4. CASE r = c.run
      <3>. PICK h \in Seq(Runtime!Entries) : audit[r] = h
        BY DEF IInv, Types, RuntimeTypes
      <3>0. EntriesOf(c) \subseteq Runtime!Entries
        BY DEF EntriesOf
      <3>1. entries \in Seq(Runtime!Entries)
        BY <3>0
      <3>2. audit'[r] = h \o entries
        BY <2>4 DEF IInv, Types, RuntimeTypes
      <3>3. \/ j \in 1 .. Len(h) /\ (h \o entries)[j] = h[j]
            \/ \E l \in 1 .. Len(entries) : (h \o entries)[j] = entries[l]
        BY SMTT(20), <3>1, <3>2, ConcatEntry
      <3>4. CASE j \in 1 .. Len(h) /\ (h \o entries)[j] = h[j]
        BY <2>1, <3>2, <3>4
      <3>5. CASE \E l \in 1 .. Len(entries) : (h \o entries)[j] = entries[l]
        <4>. PICK l \in 1 .. Len(entries) : (h \o entries)[j] = entries[l]
          BY <3>5
        <4>1. e \in EntriesOf(c)
          BY <3>2, ElementOfSeq
        <4>. QED BY <2>2, <2>4, <4>1
      <3>. QED BY <3>3, <3>4, <3>5
    <2>. QED BY <2>3, <2>4
  <1>8. k.command = c /\ k.pc = "read"
    OBVIOUS
  <1>9. \A i \in Ids \ {c.id} : effects'[i] = effects[i]
    BY <1>3 DEF IInv, Types
  <1>. HIDE DEF k
  <1>10. /\ k.pc = "dispatch" => effects'[c.id] = <<>>
         /\ k.pc = "read" => Landed(c)'
         /\ k.pc = "respond" => Honest(c, k.response)'
         /\ Len(effects'[c.id]) <= 1
    BY <1>4, <1>5, <1>6, <1>8
  <1>. QED BY <1>1, <1>2, <1>5, <1>7, <1>8, <1>9, <1>10, WorkInv

(* A refusal of a command that did nothing is honest.                       *)
LEMMA RejectionIsHonest ==
    ASSUME NEW c, NEW reason \in {"RUNTIME_REJECTED", "PLAN_MISMATCH"}, effects[c.id] = <<>>
    PROVE  Rejected(reason) \in Responses /\ Honest(c, Rejected(reason))
  BY DEF Rejected, Response, Responses, Honest

(* _dispatch() up to the end of the runtime's transaction.                  *)
LEMMA DispatchInv ==
    ASSUME IInv, NEW p \in Planes, DispatchCommand(p)
    PROVE  IInv'
  <1>1. executing[p].pc = "dispatch" /\ executing[p] # NoCall
    BY DEF DispatchCommand, NoCall
  <1>. PICK c \in Commands : executing[p].command = c
    BY <1>1, CallShape DEF IInv, Types
  <1>2. /\ c.run \in Runs /\ c.id \in Ids /\ effects[c.id] = <<>>
    BY <1>1, AtWork DEF IInv, CallInv
  <1>3. UNCHANGED <<commands, grants>>
    BY DEF DispatchCommand
  <1>4. ASSUME NEW r \in Responses, Honest(c, r), Answer(p, r),
               UNCHANGED <<runs, audit, effects>>
        PROVE  IInv'
    BY <1>1, <1>3, <1>4, AnswerInv
  <1>5. ASSUME NEW reason \in {"RUNTIME_REJECTED", "PLAN_MISMATCH"}, Answer(p, Rejected(reason)),
               UNCHANGED <<runs, audit, effects>>
        PROVE  IInv'
    BY <1>2, <1>4, <1>5, RejectionIsHonest
  <1>6. CASE /\ Effect(c)
             /\ effects' = [effects EXCEPT ![c.id] = Append(@, runs'[c.run].state)]
             /\ executing' = [executing EXCEPT ![p].pc = "read"]
    BY <1>1, <1>3, <1>6, EffectInv
  <1>7. CASE /\ Reads(c)
             /\ Answer(p, ResponseFor(c, runs[c.run].state))
             /\ UNCHANGED <<runs, audit, effects>>
    <2>. PICK r : r = ResponseFor(c, runs[c.run].state)
      OBVIOUS
    <2>1. r \in Responses
      BY DEF ResponseFor, Response, Rejected, Responses
    <2>2. Honest(c, r)
      <3>1. r.reason \notin {"PLAN_MISMATCH", "RUNTIME_REJECTED"}
        BY DEF ResponseFor, Response, Rejected
      <3>2. c.action \notin {"START", "PAUSE"}
        BY <1>7 DEF Reads
      <3>3. c.action = "REGISTER" => runs[c.run].state # "ABSENT"
        BY <1>7 DEF Reads
      <3>. QED BY <1>2, <3>1, <3>2, <3>3 DEF Honest
    <2>. QED BY <1>4, <1>7, <2>1, <2>2
  <1>. QED BY <1>5, <1>6, <1>7 DEF DispatchCommand

(* The status read last: a tick that left its run FAILED finds it so.       *)
LEMMA ReadStatusInv ==
    ASSUME IInv, NEW p \in Planes, ReadStatus(p)
    PROVE  IInv'
  <1>1. executing[p].pc = "read" /\ executing[p] # NoCall
    BY DEF ReadStatus, NoCall
  <1>. PICK c \in Commands : executing[p].command = c
    BY <1>1, CallShape DEF IInv, Types
  <1>2. Landed(c)
    BY <1>1 DEF IInv, CallInv
  <1>. PICK r : r = ResponseFor(c, runs[c.run].state)
    OBVIOUS
  <1>3. r \in Responses
    BY DEF ResponseFor, Response, Rejected, Responses
  <1>4. Honest(c, r)
    <2>1. r.reason \notin {"PLAN_MISMATCH", "RUNTIME_REJECTED"}
      BY DEF ResponseFor, Response, Rejected
    <2>2. (c.action = "TICK" /\ r.outcome = "COMPLETED") => runs[c.run].state # "FAILED"
      BY DEF ResponseFor, Response, Rejected
    <2>. QED BY <1>2, <2>1, <2>2 DEF Landed, Honest
  <1>. QED BY <1>1, <1>3, <1>4, AnswerInv DEF ReadStatus

(* An exception leaves the outcome uncertain, which promises nothing.       *)
LEMMA RuntimeErrorInv ==
    ASSUME IInv, NEW p \in Planes, RuntimeError(p)
    PROVE  IInv'
  <1>1. executing[p].pc \in {"dispatch", "read"} /\ executing[p] # NoCall
    BY DEF RuntimeError, NoCall
  <1>. PICK c \in Commands : executing[p].command = c
    BY <1>1, CallShape DEF IInv, Types
  <1>. PICK r : r = Response("UNCERTAIN", "RUNTIME_ERROR")
    OBVIOUS
  <1>2. r \in Responses /\ Honest(c, r)
    BY DEF Response, Responses, Honest
  <1>. QED BY <1>1, <1>2, AnswerInv DEF RuntimeError

(* The response is saved in the command's row.                              *)
LEMMA RespondInv ==
    ASSUME IInv, NEW p \in Planes, Respond(p)
    PROVE  IInv'
  <1>1. executing[p].pc = "respond" /\ executing[p] # NoCall
    BY DEF Respond, NoCall
  <1>. PICK c \in Commands : executing[p].command = c
    BY <1>1, CallShape DEF IInv, Types
  <1>. PICK r \in Responses : executing[p].response = r
    BY <1>1, CallShape DEF IInv, Types
  <1>2. /\ c.run \in Runs /\ c.id \in Ids /\ Len(effects[c.id]) <= 1
        /\ commands[c.id] = Unresolved(c)
        /\ \A q \in Planes \ {p} : executing[q] # NoCall => executing[q].command.id # c.id
    BY <1>1, AtWork
  <1>3. Honest(c, r)
    BY <1>1 DEF IInv, CallInv
  <1>4. /\ commands' = [commands EXCEPT ![c.id] = Saved(c, r)]
        /\ executing' = [executing EXCEPT ![p] = NoCall]
        /\ UNCHANGED <<runs, audit, grants, effects>>
    BY DEF Respond
  <1>5. /\ Saved(c, r) \in LedgerRows /\ Saved(c, r) # NoCommand
        /\ Saved(c, r).command = c /\ Saved(c, r).response = r
    <2>1. <<c, r>> \in Commands \X Responses
      OBVIOUS
    <2>. QED BY <2>1 DEF Saved, NoCommand, LedgerRows
  <1>6. Types'
    <2>1. RuntimeTypes'
      BY <1>4 DEF IInv, Types, RuntimeTypes, Runtime!Total
    <2>2. commands' \in [Ids -> LedgerRows]
      BY <1>4, <1>5 DEF IInv, Types
    <2>3. \A i \in Ids : commands'[i] # NoCommand => commands'[i].command.id = i
      BY <1>2, <1>4, <1>5 DEF IInv, Types
    <2>4. executing' \in [Planes -> {NoCall} \cup Calls]
      BY <1>4 DEF IInv, Types
    <2>. QED BY <1>4, <2>1, <2>2, <2>3, <2>4 DEF IInv, Types
  <1>7. RunsMove
    BY <1>4 DEF RunsMove
  <1>8. AuditIsCaused'
    <2>1. Unresolved(c).command = c
      BY DEF Unresolved
    <2>2. ASSUME NEW i \in Ids, effects[i] # <<>>
          PROVE  effects'[i] # <<>> /\ commands'[i].command = commands[i].command
      BY <1>2, <1>4, <1>5, <2>1, <2>2 DEF IInv, Types
    <2>. QED BY <1>4, <2>2, AuditStays DEF IInv
  <1>9. executing'[p] = NoCall /\ commands'[c.id] = Saved(c, r) /\ effects'[c.id] = effects[c.id]
    BY <1>2, <1>4 DEF IInv, Types
  <1>10. CallInv(p)'
    BY <1>9 DEF CallInv
  <1>11. RowInv(c.id)'
    <2>1. Honest(c, r)'
      BY <1>2, <1>3, <1>7, <1>9, HonestStays
    <2>. QED BY <1>2, <1>5, <1>9, <2>1 DEF RowInv
  <1>12. \A q \in Planes \ {p} : executing'[q] = executing[q]
    BY <1>4 DEF IInv, Types
  <1>13. \A i \in Ids \ {c.id} : commands'[i] = commands[i] /\ effects'[i] = effects[i]
    BY <1>4 DEF IInv, Types
  <1>. QED BY <1>2, <1>6, <1>7, <1>8, <1>9, <1>10, <1>11, <1>12, <1>13, StepInv

(* A plane that dies leaves its row as it is.                               *)
LEMMA RestartInv ==
    ASSUME IInv, NEW p \in Planes, Restart(p)
    PROVE  IInv'
  <1>1. /\ executing' = [executing EXCEPT ![p] = NoCall]
        /\ UNCHANGED <<runs, audit, commands, effects>>
        /\ \E g \in Grants : grants' = [grants EXCEPT ![p] = g]
    BY DEF Restart
  <1>2. Types'
    <2>1. RuntimeTypes'
      BY <1>1 DEF IInv, Types, RuntimeTypes, Runtime!Total
    <2>2. executing' \in [Planes -> {NoCall} \cup Calls]
      BY <1>1 DEF IInv, Types
    <2>3. grants' \in [Planes -> Grants]
      BY <1>1 DEF IInv, Types
    <2>. QED BY <1>1, <2>1, <2>2, <2>3 DEF IInv, Types
  <1>3. RunsMove
    BY <1>1 DEF RunsMove
  <1>4. AuditIsCaused'
    BY <1>1, AuditStays DEF IInv
  <1>5. ASSUME NEW q \in Planes PROVE CallInv(q)'
    <2>1. CASE q = p
      <3>1. executing'[p] = NoCall
        BY <1>1 DEF IInv, Types
      <3>. QED BY <2>1, <3>1 DEF CallInv
    <2>2. CASE q # p
      <3>1. executing'[q] = executing[q]
        BY <1>1, <2>2 DEF IInv, Types
      <3>. QED BY <1>1, <1>3, <3>1, CallStays DEF IInv
    <2>. QED BY <2>1, <2>2
  <1>6. \A i \in Ids : RowInv(i)'
    BY <1>1, <1>3, RowStays DEF IInv
  <1>7. OneWorker'
    BY <1>1 DEF IInv, Types, OneWorker
  <1>. QED BY <1>2, <1>4, <1>5, <1>6, <1>7 DEF IInv

-----------------------------------------------------------------------------
(* No command was given at first.                                           *)
LEMMA InitInv == ControlAssumption /\ ControlInit => IInv
  <1>. SUFFICES ASSUME ControlAssumption, ControlInit PROVE IInv
    OBVIOUS
  <1>1. RuntimeTypes
    <2>1. Ledger!Init
      BY DEF ControlInit, Runtime!Init, Ledger!Init, Runtime!NoRun, Ledger!NoRun
    <2>. QED BY <2>1, SameRuntime, Ledger!InitInv DEF ControlAssumption, Ledger!LedgerAssumption
  <1>2. Types
    <2>1. commands \in [Ids -> LedgerRows] /\ \A i \in Ids : commands[i] = NoCommand
      BY DEF ControlInit, LedgerRows
    <2>2. effects \in [Ids -> Seq(Runtime!States)]
      BY EmptyFacts DEF ControlInit
    <2>. QED BY <1>1, <2>1, <2>2 DEF ControlInit, Types
  <1>3. \A p \in Planes : executing[p] = NoCall
    BY DEF ControlInit
  <1>4. ASSUME NEW i \in Ids PROVE RowInv(i)
    BY EmptyFacts DEF RowInv, ControlInit, NoCommand
  <1>5. AuditIsCaused
    <2>1. \A r \in Runs : 1 .. Len(audit[r]) = {}
      BY EmptyFacts DEF ControlInit, Runtime!Init
    <2>. QED BY <2>1 DEF AuditIsCaused
  <1>. QED BY <1>2, <1>3, <1>4, <1>5 DEF IInv, CallInv, OneWorker

(* Every step keeps the inductive invariant.                                *)
LEMMA NextInv == IInv /\ [ControlNext]_controlVars => IInv'
  <1>. SUFFICES ASSUME IInv, [ControlNext]_controlVars PROVE IInv'
    OBVIOUS
  <1>1. CASE UNCHANGED controlVars
    <2>1. Types'
      BY <1>1 DEF controlVars, IInv, Types, RuntimeTypes, Runtime!Total
    <2>2. RunsMove
      BY <1>1 DEF controlVars, RunsMove
    <2>3. \A p \in Planes : CallInv(p)'
      BY <1>1, <2>2, CallStays DEF controlVars, IInv
    <2>4. \A i \in Ids : RowInv(i)'
      BY <1>1, <2>2, RowStays DEF controlVars, IInv
    <2>5. AuditIsCaused'
      BY <1>1, AuditStays DEF controlVars, IInv
    <2>. QED BY <1>1, <2>1, <2>3, <2>4, <2>5 DEF controlVars, IInv, OneWorker
  <1>2. CASE ControlNext
    <2>. PICK p \in Planes : Submit(p) \/ Execute(p) \/ RuntimeError(p) \/ Restart(p)
      BY <1>2 DEF ControlNext
    <2>1. CASE Submit(p)
      BY <2>1, ClaimInv DEF Submit
    <2>2. CASE Execute(p)
      BY <2>2, DispatchInv, ReadStatusInv, RespondInv DEF Execute
    <2>. QED BY <2>1, <2>2, RuntimeErrorInv, RestartInv
  <1>. QED BY <1>1, <1>2

(* Between any two transactions of any planes on the two databases, a call  *)
(* in progress holds its command's row and how far it is says what the      *)
(* command has done (control/local.py, execute and _dispatch).              *)
THEOREM ControlInvariant == ControlAssumption /\ ControlSpec => []IInv
  BY InitInv, NextInv, PTL DEF ControlSpec

(* A command_id takes effect at most once, whatever is replayed, crashes or *)
(* runs on two planes at the same time, and every entry of a run's audit is *)
(* the effect of a command (control/local.py, execute).                     *)
THEOREM CommandsTakeEffectOnce == ControlAssumption /\ ControlSpec => []EffectAtMostOnce
  <1>1. IInv => EffectAtMostOnce
    BY DEF IInv, RowInv, AuditIsCaused, Caused, EffectAtMostOnce
  <1>. QED BY <1>1, ControlInvariant, PTL

(* What a saved response says of its command is what the command did        *)
(* (control/local.py, _dispatch and _respond).                              *)
THEOREM ResponsesAreHonest == ControlAssumption /\ ControlSpec => []ResponseIsHonest
  <1>1. IInv => ResponseIsHonest
    <2>. SUFFICES ASSUME IInv, NEW i \in Ids, commands[i].status = "SAVED"
                  PROVE  LET c == commands[i].command
                             r == commands[i].response
                         IN
                         /\ r.reason \in {"PLAN_MISMATCH", "RUNTIME_REJECTED"} => effects[i] = <<>>
                         /\ (c.action = "TICK" /\ r.outcome = "COMPLETED") =>
                                 effects[i] \in {<<>>, <<"RUNNING">>, <<"COMPLETE">>}
                         /\ (c.action \in {"START", "PAUSE"} /\ r.outcome = "COMPLETED") =>
                                 Len(effects[i]) = 1
                         /\ (c.action = "REGISTER" /\ r.outcome = "COMPLETED") =>
                                 runs[c.run].state # "ABSENT"
      BY DEF ResponseIsHonest
    <2>1. commands[i].command.id = i
      BY RowShape DEF IInv, Types
    <2>2. Honest(commands[i].command, commands[i].response)
      BY DEF IInv, RowInv
    <2>. QED BY <2>1, <2>2 DEF Honest
  <1>. QED BY <1>1, ControlInvariant, PTL

-----------------------------------------------------------------------------
(* What LedgerIsFinal asks of one row.                                      *)
RowIsFinal(i) ==
    /\ commands[i] # NoCommand => commands'[i].command = commands[i].command
    /\ commands[i].status = "SAVED" \/ (commands[i] # NoCommand /\ ~Working(i))
            => commands'[i] = commands[i] /\ effects'[i] = effects[i]

(* A step of a plane after its claim touches only the row it works on,      *)
(* which has no response yet.                                               *)
LEMMA WorkIsFinal ==
    ASSUME IInv, NEW p \in Planes, NEW c, executing[p] # NoCall, executing[p].command = c,
           NEW i \in Ids,
           i # c.id => commands'[i] = commands[i] /\ effects'[i] = effects[i],
           commands'[c.id].command = c
    PROVE  RowIsFinal(i)
  <1>1. commands[c.id] = Unresolved(c)
    BY AtWork
  <1>2. CASE i = c.id
    <2>1. Working(i)
      BY <1>2 DEF Working
    <2>2. Unresolved(c).command = c /\ Unresolved(c).status # "SAVED"
      BY DEF Unresolved
    <2>. QED BY <1>1, <1>2, <2>1, <2>2 DEF RowIsFinal
  <1>. QED BY <1>2 DEF RowIsFinal

(* No step takes a resolved row back.                                       *)
LEMMA StepIsFinal == IInv /\ ControlNext => \A i \in Ids : RowIsFinal(i)
  <1>. SUFFICES ASSUME IInv, ControlNext, NEW i \in Ids PROVE RowIsFinal(i)
    OBVIOUS
  <1>. PICK p \in Planes : Submit(p) \/ Execute(p) \/ RuntimeError(p) \/ Restart(p)
    BY DEF ControlNext
  <1>1. CASE commands'[i] = commands[i] /\ effects'[i] = effects[i]
    BY <1>1 DEF RowIsFinal
  <1>2. CASE Submit(p)
    <2>. PICK c \in Commands : Claim(p, c)
      BY <1>2 DEF Submit
    <2>1. i # c.id => commands'[i] = commands[i]
      BY DEF Claim, IInv, Types
    <2>2. effects' = effects /\ commands[c.id] = NoCommand /\ NoCommand.status # "SAVED"
      BY DEF Claim, NoCommand
    <2>. QED BY <2>1, <2>2 DEF RowIsFinal
  <1>3. CASE DispatchCommand(p)
    <2>1. executing[p].pc = "dispatch" /\ executing[p] # NoCall
      BY <1>3 DEF DispatchCommand, NoCall
    <2>. PICK c \in Commands : executing[p].command = c
      BY <2>1, CallShape DEF IInv, Types
    <2>2. commands' = commands /\ (i # c.id => effects'[i] = effects[i])
      BY <1>3 DEF DispatchCommand, IInv, Types
    <2>3. commands'[c.id].command = c
      <3>1. commands[c.id] = Unresolved(c)
        BY <2>1, AtWork
      <3>. QED BY <2>2, <3>1 DEF Unresolved
    <2>. QED BY <2>1, <2>2, <2>3, WorkIsFinal
  <1>4. CASE ReadStatus(p) \/ RuntimeError(p) \/ Restart(p)
    BY <1>1, <1>4 DEF ReadStatus, RuntimeError, Restart
  <1>5. CASE Respond(p)
    <2>1. executing[p].pc = "respond" /\ executing[p] # NoCall
      BY <1>5 DEF Respond, NoCall
    <2>. PICK c \in Commands : executing[p].command = c
      BY <2>1, CallShape DEF IInv, Types
    <2>2. /\ commands' = [commands EXCEPT ![c.id] = Saved(c, executing[p].response)]
          /\ effects' = effects
      BY <1>5 DEF Respond
    <2>3. c.id \in Ids
      BY <2>1, AtWork
    <2>4. commands'[c.id].command = c
      <3>1. commands'[c.id] = Saved(c, executing[p].response)
        BY <2>2, <2>3 DEF IInv, Types
      <3>. QED BY <3>1 DEF Saved
    <2>5. i # c.id => commands'[i] = commands[i]
      BY <2>2 DEF IInv, Types
    <2>. QED BY <2>1, <2>2, <2>4, <2>5, WorkIsFinal
  <1>. QED BY <1>2, <1>3, <1>4, <1>5 DEF Execute

(* A saved response and the effect of its command never change, and a row   *)
(* whose plane is gone is never picked up again (control/local.py,          *)
(* execute).                                                                *)
THEOREM LedgerStaysFinal == ControlAssumption /\ ControlSpec => LedgerIsFinal
  <1>1. IInv /\ [ControlNext]_controlVars => [\A i \in Ids : RowIsFinal(i)]_controlVars
    BY StepIsFinal
  <1>2. ControlAssumption /\ ControlSpec => [][\A i \in Ids : RowIsFinal(i)]_controlVars
    BY <1>1, ControlInvariant, PTL DEF ControlSpec
  <1>. QED BY <1>2 DEF LedgerIsFinal, RowIsFinal

-----------------------------------------------------------------------------
(* Counts are counts of redemptions, and a request that is about to redeem  *)
(* names a code and an account.                                             *)
PromoInv ==
    /\ promo = [c \in Codes |-> [offer |-> promo[c].offer, count |-> promo[c].count]]
    /\ task = [t \in Requests |-> task[t]]
    /\ \A t \in Requests :
        task[t].pc = "redeem" => task[t].code \in Codes /\ task[t].user \in Users
    /\ CountIsRedemptions

(* One more account among the redeemers of a code.                          *)
LEMMA OneMore ==
    ASSUME NEW c, NEW u \in Users, <<c, u>> \notin redeemed,
           redeemed' = redeemed \cup {<<c, u>>}
    PROVE  /\ Cardinality(RedeemersOf(c)') = Cardinality(RedeemersOf(c)) + 1
           /\ \A d : d # c => RedeemersOf(d)' = RedeemersOf(d)
  <1>1. RedeemersOf(c)' = RedeemersOf(c) \cup {u} /\ u \notin RedeemersOf(c)
    BY DEF RedeemersOf
  <1>2. IsFiniteSet(RedeemersOf(c))
    BY UsersAssumption, FS_Subset DEF RedeemersOf
  <1>3. Cardinality(RedeemersOf(c) \cup {u}) = Cardinality(RedeemersOf(c)) + 1
    BY <1>1, <1>2, FS_AddElement
  <1>. QED BY <1>1, <1>3 DEF RedeemersOf

(* Steps that touch neither codes nor redemptions.                          *)
LEMMA OtherStepInv ==
    ASSUME PromoInv, UNCHANGED <<promo, redeemed>>,
           task' = [t \in Requests |-> task'[t]],
           \A t \in Requests : task'[t].pc = "redeem" =>
                task'[t] = task[t] \/ (task'[t].code \in Codes /\ task'[t].user \in Users)
    PROVE  PromoInv'
  BY DEF PromoInv, CountIsRedemptions, RedeemersOf

(* A new value for the task of one request.                                 *)
LEMMA BecomeInv ==
    ASSUME PromoInv, NEW t \in Requests, NEW value, Become(t, value),
           UNCHANGED <<promo, redeemed>>,
           value.pc = "redeem" => value.code \in Codes /\ value.user \in Users
    PROVE  PromoInv'
  <1>1. /\ task'[t] = value
        /\ \A q \in Requests : q # t => task'[q] = task[q]
        /\ task' = [q \in Requests |-> task'[q]]
    BY DEF Become, PromoInv
  <1>. QED BY <1>1, OtherStepInv

(* save_promo() keeps the count of a code.                                  *)
LEMMA SavePromoInv ==
    ASSUME PromoInv, NEW c \in Codes, NEW offer, SavePromo(c, offer) PROVE PromoInv'
  <1>1. /\ promo' = [d \in Codes |-> [offer |-> promo'[d].offer, count |-> promo'[d].count]]
        /\ \A d \in Codes : promo'[d].count = promo[d].count
    BY DEF SavePromo, PromoInv
  <1>2. UNCHANGED <<redeemed, task>>
    BY DEF SavePromo
  <1>. QED BY <1>1, <1>2 DEF PromoInv, CountIsRedemptions, RedeemersOf

(* The transaction of redeem(), with whatever the request read before it.   *)
LEMMA RedeemWriteInv ==
    ASSUME PromoInv, NEW t \in Requests, RedeemWrite(t) PROVE PromoInv'
  <1>. DEFINE c == task[t].code
              u == task[t].user
  <1>1. /\ c \in Codes /\ u \in Users /\ <<c, u>> \notin redeemed
        /\ redeemed' = redeemed \cup {<<c, u>>}
    BY DEF RedeemWrite, PromoInv
  <1>2. promo' = [promo EXCEPT ![c] = [offer |-> @.offer, count |-> @.count + 1]]
    BY DEF RedeemWrite
  <1>3. Become(t, Idle)
    BY DEF RedeemWrite
  <1>. HIDE DEF c, u
  <1>4. /\ promo' = [d \in Codes |-> [offer |-> promo'[d].offer, count |-> promo'[d].count]]
        /\ promo'[c].count = promo[c].count + 1
        /\ \A d \in Codes : d # c => promo'[d].count = promo[d].count
    BY <1>1, <1>2 DEF PromoInv
  <1>5. CountIsRedemptions'
    BY <1>1, <1>4, OneMore DEF PromoInv, CountIsRedemptions
  <1>6. /\ task' = [q \in Requests |-> task'[q]]
        /\ \A q \in Requests : task'[q].pc = "redeem" => task'[q] = task[q]
    BY <1>3 DEF Become, Idle, PromoInv
  <1>. QED BY <1>4, <1>5, <1>6 DEF PromoInv

(* Every step of a request.                                                 *)
LEMMA RequestInv == ASSUME PromoInv, NEW t \in Requests, Serve(t) PROVE PromoInv'
  <1>1. ASSUME NEW u \in Users, BootstrapCheck(t, u) PROVE PromoInv'
    BY <1>1, BecomeInv DEF BootstrapCheck
  <1>2. CASE BootstrapInsert(t)
    BY <1>2, BecomeInv DEF BootstrapInsert, Idle
  <1>3. ASSUME NEW u \in Users, NEW c \in Codes, RedeemRead(t, u, c) PROVE PromoInv'
    BY <1>3, BecomeInv DEF RedeemRead
  <1>4. CASE Fail(t)
    BY <1>4, BecomeInv DEF Fail, Idle
  <1>. QED BY <1>1, <1>2, <1>3, <1>4, RedeemWriteInv DEF Serve

(* Every step of the admin.                                                 *)
LEMMA AdminInv == ASSUME PromoInv, Administer PROVE PromoInv'
  <1>1. ASSUME NEW u \in Users, CreateUser(u) PROVE PromoInv'
    BY <1>1, OtherStepInv DEF CreateUser, PromoInv
  <1>2. ASSUME NEW u \in Users, NEW end, Assign(u, end) PROVE PromoInv'
    BY <1>2, OtherStepInv DEF Assign, PromoInv
  <1>. QED BY <1>1, <1>2, SavePromoInv DEF Administer

-----------------------------------------------------------------------------
(* The invariant holds in every reachable state.                            *)
LEMMA CountsInvariant == Spec => []PromoInv
  <1>1. Init => PromoInv
    <2>. SUFFICES ASSUME Init PROVE PromoInv
      OBVIOUS
    <2>1. \A c \in Codes : RedeemersOf(c) = {}
      BY DEF Init, RedeemersOf
    <2>. QED BY <2>1, FS_EmptySet DEF Init, PromoInv, CountIsRedemptions, NoPromo, Idle
  <1>2. PromoInv /\ [Next]_vars => PromoInv'
    <2>1. CASE UNCHANGED vars
      BY <2>1 DEF vars, PromoInv, CountIsRedemptions, RedeemersOf
    <2>2. ASSUME PromoInv, Tick PROVE PromoInv'
      BY <2>2, OtherStepInv DEF Tick, PromoInv
    <2>3. ASSUME PromoInv, Next PROVE PromoInv'
      BY <2>2, <2>3, RequestInv, AdminInv DEF Next
    <2>. QED BY <2>1, <2>3
  <1>. QED BY <1>1, <1>2, PTL DEF Spec

(* The count redeem() increments is the number of accounts that redeemed    *)
(* the code: no interleaving loses or repeats an increment.                 *)
THEOREM CountsAreExact == Spec => []CountIsRedemptions
  <1>1. PromoInv => CountIsRedemptions
    BY DEF PromoInv
  <1>. QED BY <1>1, CountsInvariant, PTL

-----------------------------------------------------------------------------
(* What the admin saves under a code leaves its limit as it is.             *)
LimitsAreFixed == \A c \in Codes : \A o, p \in Offers[c] : o.max = p.max

(* Requests that have read the row of a code and not yet written.           *)
Underway(c) == {t \in Requests : task[t].pc = "redeem" /\ task[t].code = c}

(* A limited code with what is underway added to its count: only a request  *)
(* that found the count below the limit goes underway.                      *)
Bounded(c) ==
    Limited(c) =>
        promo[c].count + Cardinality(Underway(c)) < promo[c].offer.max + Cardinality(Requests)

(* A code nobody saved was not used, and no request is about to use it.     *)
Unsaved(c) == promo[c].offer = Null => promo[c].count = 0 /\ Underway(c) = {}

BInv ==
    \A c \in Codes :
        promo[c].offer \in Offers[c] \cup {Null} /\ promo[c].count \in Nat
            /\ Unsaved(c) /\ Bounded(c)

(* Sets of requests are finite, and no larger than the set of them all.     *)
LEMMA SomeRequests ==
    ASSUME NEW S, S \subseteq Requests
    PROVE  /\ IsFiniteSet(S)
           /\ Cardinality(S) \in Nat /\ Cardinality(Requests) \in Nat
           /\ Cardinality(S) <= Cardinality(Requests)
  BY RequestsAssumption, FS_Subset, FS_CardinalityType

(* Limits are numbers of at least one.                                      *)
LEMMA OfferTypes ==
    ASSUME NEW c \in Codes, NEW o \in Offers[c]
    PROVE  o # Null /\ o.max \in (Nat \ {0}) \cup {Null}
  BY OffersAssumption, NullAssumption DEF OfferShape

(* Steps that leave the codes alone and put no request underway.            *)
LEMMA NobodyNewBounded ==
    ASSUME BInv, promo' = promo, \A c \in Codes : Underway(c)' \subseteq Underway(c)
    PROVE  BInv'
  <1>. SUFFICES ASSUME NEW c \in Codes
               PROVE  /\ promo[c].offer \in Offers[c] \cup {Null} /\ promo[c].count \in Nat
                      /\ Unsaved(c)' /\ Bounded(c)'
    BY DEF BInv
  <1>1. Underway(c) \subseteq Requests
    BY DEF Underway
  <1>2. /\ IsFiniteSet(Underway(c))
        /\ Cardinality(Underway(c)) \in Nat /\ Cardinality(Requests) \in Nat
    BY <1>1, SomeRequests
  <1>3. Cardinality(Underway(c)') \in Nat /\ Cardinality(Underway(c)') <= Cardinality(Underway(c))
    BY <1>2, FS_Subset, FS_CardinalityType
  <1>4. Unsaved(c)'
    BY DEF BInv, Unsaved
  <1>5. Bounded(c)'
    <2>1. Bounded(c) /\ promo[c].count \in Nat
          /\ (Limited(c) => promo[c].offer.max \in Nat)
      BY OfferTypes DEF BInv, Limited
    <2>. QED BY <2>1, <1>2, <1>3 DEF Bounded, Limited
  <1>. QED BY <1>4, <1>5 DEF BInv

(* A request that is given something to do other than to redeem.            *)
LEMMA BecomeBounded ==
    ASSUME PromoInv, BInv, NEW t \in Requests, NEW value, Become(t, value), promo' = promo,
           value.pc # "redeem"
    PROVE  BInv'
  <1>1. /\ task'[t] = value
        /\ \A q \in Requests : q # t => task'[q] = task[q]
    BY DEF Become, PromoInv
  <1>2. \A c \in Codes : Underway(c)' \subseteq Underway(c)
    BY <1>1 DEF Underway
  <1>. QED BY <1>2, NobodyNewBounded

(* redeem() goes underway only while the count is below the limit: then all *)
(* the requests there are may be underway.                                  *)
LEMMA RedeemReadBounded ==
    ASSUME PromoInv, BInv, NEW t \in Requests, NEW u \in Users, NEW d \in Codes, RedeemRead(t, u, d)
    PROVE  BInv'
  <1>1. promo' = promo /\ promo[d].offer # Null
        /\ (promo[d].offer.max # Null => promo[d].count < promo[d].offer.max)
    BY DEF RedeemRead, Redeemable
  <1>2. /\ task'[t].pc = "redeem" /\ task'[t].code = d
        /\ \A q \in Requests : q # t => task'[q] = task[q]
    BY DEF RedeemRead, Become, PromoInv
  <1>. SUFFICES ASSUME NEW c \in Codes
               PROVE  /\ promo[c].offer \in Offers[c] \cup {Null} /\ promo[c].count \in Nat
                      /\ Unsaved(c)' /\ Bounded(c)'
    BY <1>1 DEF BInv
  <1>3. CASE c = d
    <2>1. Underway(c)' \subseteq Requests
      BY DEF Underway
    <2>2. /\ Cardinality(Underway(c)') \in Nat /\ Cardinality(Requests) \in Nat
          /\ Cardinality(Underway(c)') <= Cardinality(Requests)
      BY <2>1, SomeRequests
    <2>3. promo[c].count \in Nat /\ promo[c].offer.max \in Nat \cup {Null}
          /\ promo[c].offer \in Offers[c] \cup {Null}
      BY <1>1, <1>3, OfferTypes DEF BInv
    <2>4. Unsaved(c)'
      BY <1>1, <1>3 DEF Unsaved
    <2>5. Bounded(c)'
      BY <1>1, <1>3, <2>2, <2>3 DEF Bounded, Limited
    <2>. QED BY <2>3, <2>4, <2>5
  <1>4. CASE c # d
    <2>1. t \notin Underway(c) /\ t \notin Underway(c)'
      BY <1>2, <1>4 DEF RedeemRead, Underway, Idle
    <2>2. \A q \in Requests : q # t => (q \in Underway(c)' <=> q \in Underway(c))
      BY <1>2 DEF Underway
    <2>3. Underway(c) \subseteq Requests /\ Underway(c)' \subseteq Requests
      BY DEF Underway
    <2>4. Underway(c)' = Underway(c)
      BY <2>1, <2>2, <2>3
    <2>. QED BY <1>1, <2>4 DEF BInv, Unsaved, Bounded, Limited
  <1>. QED BY <1>3, <1>4

(* The write of redeem() trades a request underway for a redemption.        *)
LEMMA RedeemWriteBounded ==
    ASSUME PromoInv, BInv, NEW t \in Requests, RedeemWrite(t) PROVE BInv'
  <1>1. PICK d \in Codes : task[t].code = d
    BY DEF RedeemWrite, PromoInv
  <1>2. /\ promo'[d] = [offer |-> promo[d].offer, count |-> promo[d].count + 1]
        /\ \A c \in Codes : c # d => promo'[c] = promo[c]
    BY <1>1 DEF RedeemWrite, PromoInv
  <1>3. /\ task[t].pc = "redeem" /\ task'[t] = Idle
        /\ \A q \in Requests : q # t => task'[q] = task[q]
    BY DEF RedeemWrite, Become, PromoInv
  <1>4. \A c \in Codes : c # d => Underway(c)' = Underway(c)
    <2>. SUFFICES ASSUME NEW c \in Codes, c # d PROVE Underway(c)' = Underway(c)
      OBVIOUS
    <2>1. t \notin Underway(c) /\ t \notin Underway(c)'
      BY <1>1, <1>3 DEF Underway, Idle
    <2>2. \A q \in Requests : q # t => (q \in Underway(c)' <=> q \in Underway(c))
      BY <1>3 DEF Underway
    <2>3. Underway(c) \subseteq Requests /\ Underway(c)' \subseteq Requests
      BY DEF Underway
    <2>. QED BY <2>1, <2>2, <2>3
  <1>5. t \in Underway(d) /\ Underway(d)' = Underway(d) \ {t}
    <2>1. t \in Underway(d) /\ t \notin Underway(d)'
      BY <1>1, <1>3 DEF Underway, Idle
    <2>2. \A q \in Requests : q # t => (q \in Underway(d)' <=> q \in Underway(d))
      BY <1>3 DEF Underway
    <2>3. Underway(d) \subseteq Requests /\ Underway(d)' \subseteq Requests
      BY DEF Underway
    <2>. QED BY <2>1, <2>2, <2>3
  <1>6. /\ Cardinality(Underway(d)') = Cardinality(Underway(d)) - 1
        /\ Cardinality(Underway(d)) \in Nat /\ Cardinality(Requests) \in Nat
    <2>1. Underway(d) \subseteq Requests
      BY DEF Underway
    <2>2. IsFiniteSet(Underway(d)) /\ Cardinality(Underway(d)) \in Nat
          /\ Cardinality(Requests) \in Nat
      BY <2>1, SomeRequests
    <2>3. Cardinality(Underway(d) \ {t}) = Cardinality(Underway(d)) - 1
      BY <2>2, <1>5, FS_RemoveElement
    <2>. QED BY <2>2, <2>3, <1>5
  <1>. SUFFICES ASSUME NEW c \in Codes
               PROVE  /\ promo'[c].offer \in Offers[c] \cup {Null} /\ promo'[c].count \in Nat
                      /\ Unsaved(c)' /\ Bounded(c)'
    BY DEF BInv
  <1>7. CASE c # d
    BY <1>2, <1>4, <1>7 DEF BInv, Unsaved, Bounded, Limited
  <1>8. CASE c = d
    <2>1. /\ promo[d].offer \in Offers[d] \cup {Null} /\ promo[d].count \in Nat
          /\ Unsaved(d) /\ Bounded(d)
      BY DEF BInv
    <2>2. promo[d].offer # Null
      BY <2>1, <1>5 DEF Unsaved
    <2>3. promo[d].offer.max \in Nat \cup {Null}
      BY <2>1, <2>2, OfferTypes
    <2>4. promo'[d].offer = promo[d].offer /\ promo'[d].count = promo[d].count + 1
      BY <1>2
    <2>5. Unsaved(d)'
      BY <2>2, <2>4 DEF Unsaved
    <2>6. Bounded(d)'
      BY <2>1, <2>3, <2>4, <1>6 DEF Bounded, Limited
    <2>. QED BY <1>8, <2>1, <2>4, <2>5, <2>6
  <1>. QED BY <1>7, <1>8

(* save_promo() with the limit the code has, or of a code nobody used.      *)
LEMMA SavePromoBounded ==
    ASSUME LimitsAreFixed, PromoInv, BInv, NEW d \in Codes, NEW offer \in Offers[d],
           SavePromo(d, offer)
    PROVE  BInv'
  <1>1. /\ promo'[d] = [offer |-> offer, count |-> promo[d].count]
        /\ \A c \in Codes : c # d => promo'[c] = promo[c]
        /\ task' = task
    BY DEF SavePromo, PromoInv
  <1>2. \A c \in Codes : Underway(c)' = Underway(c)
    BY <1>1 DEF Underway
  <1>3. offer # Null /\ offer.max \in (Nat \ {0}) \cup {Null}
    BY OfferTypes
  <1>. SUFFICES ASSUME NEW c \in Codes
               PROVE  /\ promo'[c].offer \in Offers[c] \cup {Null} /\ promo'[c].count \in Nat
                      /\ Unsaved(c)' /\ Bounded(c)'
    BY DEF BInv
  <1>4. CASE c # d
    BY <1>1, <1>2, <1>4 DEF BInv, Unsaved, Bounded, Limited
  <1>5. CASE c = d
    <2>1. /\ promo[d].offer \in Offers[d] \cup {Null} /\ promo[d].count \in Nat
          /\ Unsaved(d) /\ Bounded(d)
      BY DEF BInv
    <2>2. Unsaved(d)'
      BY <1>1, <1>3 DEF Unsaved
    <2>3. Underway(d) \subseteq Requests
      BY DEF Underway
    <2>4. /\ Cardinality(Underway(d)) \in Nat /\ Cardinality(Requests) \in Nat
          /\ Cardinality(Underway(d)) <= Cardinality(Requests)
      BY <2>3, SomeRequests
    <2>5. promo'[d].offer = offer /\ promo'[d].count = promo[d].count
      BY <1>1
    <2>6. Bounded(d)'
      <3>1. CASE promo[d].offer = Null
        <4>1. promo[d].count = 0
          BY <2>1, <3>1 DEF Unsaved
        <4>. QED BY <4>1, <1>2, <1>3, <2>4, <2>5 DEF Bounded, Limited
      <3>2. CASE promo[d].offer # Null
        <4>1. promo[d].offer.max = offer.max
          BY <2>1, <3>2 DEF LimitsAreFixed
        <4>. QED BY <4>1, <3>2, <1>2, <1>3, <2>1, <2>5 DEF Bounded, Limited
      <3>. QED BY <3>1, <3>2
    <2>. QED BY <1>5, <2>1, <2>2, <2>5, <2>6
  <1>. QED BY <1>4, <1>5

(* Every step of a request.                                                 *)
LEMMA RequestBounded == ASSUME PromoInv, BInv, NEW t \in Requests, Serve(t) PROVE BInv'
  <1>1. ASSUME NEW u \in Users, BootstrapCheck(t, u) PROVE BInv'
    BY <1>1, BecomeBounded DEF BootstrapCheck
  <1>2. CASE BootstrapInsert(t)
    BY <1>2, BecomeBounded DEF BootstrapInsert, Idle
  <1>3. CASE Fail(t)
    BY <1>3, BecomeBounded DEF Fail, Idle
  <1>. QED BY <1>1, <1>2, <1>3, RedeemReadBounded, RedeemWriteBounded DEF Serve

(* Every step of the admin.                                                 *)
LEMMA AdminBounded == ASSUME LimitsAreFixed, PromoInv, BInv, Administer PROVE BInv'
  <1>1. ASSUME NEW u \in Users, CreateUser(u) PROVE BInv'
    BY <1>1, NobodyNewBounded DEF CreateUser, Underway
  <1>2. ASSUME NEW u \in Users, NEW end, Assign(u, end) PROVE BInv'
    BY <1>2, NobodyNewBounded DEF Assign, Underway
  <1>. QED BY <1>1, <1>2, SavePromoBounded DEF Administer

(* A code whose limit stays as it is is used beyond it only by requests     *)
(* that were underway together: however late they write, fewer of them than *)
(* there can be at a time exceed the limit.                                 *)
THEOREM OvershootStaysBounded == LimitsAreFixed /\ Spec => []OvershootIsBounded
  <1>1. Init => BInv
    <2>. SUFFICES ASSUME Init PROVE BInv
      OBVIOUS
    <2>1. \A c \in Codes : promo[c].offer = Null /\ promo[c].count = 0
      BY DEF Init, NoPromo
    <2>2. \A c \in Codes : Underway(c) = {}
      BY DEF Init, Idle, Underway
    <2>. QED BY <2>1, <2>2 DEF BInv, Unsaved, Bounded, Limited
  <1>2. LimitsAreFixed /\ PromoInv /\ BInv /\ [Next]_vars => (LimitsAreFixed /\ BInv)'
    <2>. SUFFICES ASSUME LimitsAreFixed, PromoInv, BInv, [Next]_vars PROVE BInv'
      BY DEF LimitsAreFixed
    <2>1. CASE UNCHANGED vars
      BY <2>1, NobodyNewBounded DEF vars, Underway
    <2>2. ASSUME BInv, Tick PROVE BInv'
      BY <2>2, NobodyNewBounded DEF Tick, Underway
    <2>3. ASSUME LimitsAreFixed, PromoInv, BInv, Next PROVE BInv'
      BY <2>2, <2>3, RequestBounded, AdminBounded DEF Next
    <2>. QED BY <2>1, <2>3
  <1>3. BInv => OvershootIsBounded
    <2>. SUFFICES ASSUME BInv, NEW c \in Codes, Limited(c)
                 PROVE  promo[c].count < promo[c].offer.max + Cardinality(Requests)
      BY DEF OvershootIsBounded
    <2>1. Underway(c) \subseteq Requests
      BY DEF Underway
    <2>2. Cardinality(Underway(c)) \in Nat /\ Cardinality(Requests) \in Nat
      BY <2>1, SomeRequests
    <2>3. promo[c].count \in Nat /\ promo[c].offer.max \in Nat /\ Bounded(c)
      BY OfferTypes DEF BInv, Limited
    <2>. QED BY <2>2, <2>3 DEF Bounded
  <1>. QED BY <1>1, <1>2, <1>3, CountsInvariant, PTL DEF Spec

-----------------------------------------------------------------------------
Readiness == {"READY_FOR_RISK_CHECK", "WAIT"}

(* A scan that has or has not judged its bars, a connection test and a      *)
(* settings save.                                                           *)
Acquiring == [step : {"acquire"}, settings : Nat, bar : Nat, id : Nat]
Judged == [step : Scanning \ {"acquire"}, settings : Nat, bar : Nat, id : Nat,
           readiness : Readiness, prior : SUBSET Nat]
Asking == [step : {"ask"}, settings : Nat]
Storing == [step : Saving]

(* What a thread may be doing.                                              *)
RequestKinds == {NoRequest} \cup Acquiring \cup Judged \cup Asking \cup Storing
RequestTypes == request \in [Threads -> RequestKinds]

Row == [id : Nat, at : Nat, readiness : Readiness, price : Nat, measuredAt : Nat, measured : Nat]

(* A row of the history, when b bars are completed and n scans were begun.  *)
RowIsSound(row, b, n) ==
    /\ row \in Row
    /\ row.id \in 1 .. n /\ row.at \in 1 .. b /\ row.price = Closes[row.at]
    /\ row.measuredAt = 0 => row.measured = 0
    /\ row.measuredAt # 0 =>
        row.at < row.measuredAt /\ row.measured = Closes[row.measuredAt] /\ row.price > 0

Keyed(rows) == \A x, y \in rows : x.id = y.id => x = y

RowsAreSound ==
    /\ \A row \in history : RowIsSound(row, bar, scans)
    /\ Keyed(history)

(* A scan that is underway: its id is no row's before it is recorded, and   *)
(* it is on record when it is published; what it measures is earlier.       *)
ScanIsSound(k, rows, b, n) ==
    /\ k.id \in 1 .. n /\ k.bar \in 1 .. b
    /\ k.step # "publish" => \A row \in rows : row.id # k.id
    /\ k.step = "record" => \A i \in k.prior : \E row \in rows : row.id = i /\ row.at < k.bar
    /\ k.step = "publish" => \E row \in rows : Equivalent(row, Assessment(k))

ScansAreSound ==
    /\ \A t \in Threads :
        request[t].step \in Scanning => ScanIsSound(request[t], history, bar, scans)
    /\ \A t, u \in Threads :
        t # u /\ request[t].step \in Scanning /\ request[u].step \in Scanning =>
            request[t].id # request[u].id

(* The saved report has an equivalent row.                                  *)
ReportIsOnRecord ==
    latest # None =>
        \E row \in history :
            Equivalent(row, [at |-> latest.bar, readiness |-> latest.readiness,
                             price |-> Closes[latest.bar]])

(* A test or a scan that is underway carries the settings there are, unless *)
(* what it is going to write is in doubt.                                   *)
RequestsAreCurrent ==
    \A t \in Threads :
        /\ request[t].step = "ask" => "status" \in doubt \/ request[t].settings = settings
        /\ request[t].step \in Scanning => "report" \in doubt \/ request[t].settings = settings

(* Types of the counters and of the files.                                  *)
ScanCounters ==
    /\ bar \in 0 .. Len(Closes) /\ settings \in 0 .. MaxSaves /\ scans \in 0 .. MaxScans
    /\ doubt \subseteq {"status", "report"}
    /\ indexed \in BOOLEAN /\ artifacts \subseteq 1 .. scans

FilesTyped ==
    /\ status \in [claim : {"NOT_TESTED", "CONNECTED_READ_ONLY", "FAILED"},
                   settings : 0 .. settings]
    /\ latest \in Report \cup {None}
    /\ \A t \in Threads : request[t].step \in Scanning \cup {"ask"} =>
        request[t].settings \in 0 .. settings

(* The inductive invariant.                                                 *)
ScanInv ==
    /\ MarketScanAssumption
    /\ ScanCounters /\ RequestTypes /\ FilesTyped
    /\ RowsAreSound /\ ScansAreSound /\ ReportIsOnRecord
    /\ RequestsAreCurrent /\ OldClaimsAreExplained

(* The request of a judged scan that goes on, or that has selected rows.    *)
LEMMA JudgedGoes ==
    ASSUME NEW k \in Judged, NEW s \in Scanning \ {"acquire"}
    PROVE  /\ [k EXCEPT !.step = s] \in Judged
           /\ [k EXCEPT !.step = s].step = s
           /\ [k EXCEPT !.step = s].settings = k.settings
           /\ [k EXCEPT !.step = s].bar = k.bar
           /\ [k EXCEPT !.step = s].id = k.id
           /\ [k EXCEPT !.step = s].readiness = k.readiness
           /\ [k EXCEPT !.step = s].prior = k.prior
  BY DEF Judged

(* A step of one thread changes what this thread is doing.                  *)
LEMMA OneRequest ==
    ASSUME RequestTypes, NEW t \in Threads, NEW k, Becomes(t, k)
    PROVE  /\ request'[t] = k
           /\ \A u \in Threads : u # t => request'[u] = request[u]
  BY DEF Becomes, RequestTypes

(* The step of a request says what it carries.                              *)
LEMMA KindsOfRequest ==
    ASSUME RequestTypes, NEW t \in Threads
    PROVE  /\ At(t, "acquire") => request[t] \in Acquiring
           /\ request[t].step \in Scanning /\ ~At(t, "acquire") => request[t] \in Judged
           /\ request[t].step = "ask" => request[t] \in Asking
           /\ request[t].step \in Saving => request[t] \in Storing
           /\ request[t].step \in {"idle", "ask"} \cup Scanning \cup Saving
  BY DEF RequestTypes, RequestKinds, NoRequest, Acquiring, Judged, Asking,
         Storing, At, Scanning, Saving

(* Types when one thread goes on.                                           *)
LEMMA BecomesTyped ==
    ASSUME RequestTypes, NEW t \in Threads, NEW k \in RequestKinds, Becomes(t, k)
    PROVE  RequestTypes'
  BY DEF RequestTypes, Becomes, RequestKinds

(* The judged scan of a thread goes on.                                     *)
LEMMA ScanGoes ==
    ASSUME RequestTypes, NEW t \in Threads, request[t].step \in Scanning, ~At(t, "acquire"),
           NEW s \in Scanning \ {"acquire"}, Goes(t, s)
    PROVE  /\ request[t] \in Judged /\ request'[t] \in Judged /\ request'[t].step = s
           /\ request'[t].settings = request[t].settings /\ request'[t].bar = request[t].bar
           /\ request'[t].id = request[t].id /\ request'[t].readiness = request[t].readiness
           /\ request'[t].prior = request[t].prior
           /\ \A u \in Threads : u # t => request'[u] = request[u]
  <1>1. request[t] \in Judged
    BY KindsOfRequest
  <1>2. Becomes(t, [request[t] EXCEPT !.step = s])
    BY DEF Goes
  <1>3. /\ request'[t] = [request[t] EXCEPT !.step = s]
        /\ \A u \in Threads : u # t => request'[u] = request[u]
    BY <1>2, OneRequest
  <1>. QED BY <1>1, <1>3, JudgedGoes

-----------------------------------------------------------------------------
MeasuredRow(row, prior, at) ==
    IF row.id \in prior /\ row.price > 0
    THEN [row EXCEPT !.measuredAt = at, !.measured = Closes[at]] ELSE row

(* A row that is measured at a later bar stays sound and keeps what it is   *)
(* compared by.                                                             *)
LEMMA OneMeasured ==
    ASSUME MarketScanAssumption, NEW b \in 0 .. Len(Closes), NEW n \in Nat,
           NEW row, RowIsSound(row, b, n), NEW prior, NEW at \in 1 .. b,
           row.id \in prior => row.at < at
    PROVE  /\ RowIsSound(MeasuredRow(row, prior, at), b, n)
           /\ MeasuredRow(row, prior, at).id = row.id
           /\ MeasuredRow(row, prior, at).at = row.at
           /\ MeasuredRow(row, prior, at).readiness = row.readiness
           /\ MeasuredRow(row, prior, at).price = row.price
  <1>1. Closes \in Seq(Nat) /\ Len(Closes) \in Nat /\ at \in 1 .. Len(Closes) /\ at \in Nat \ {0}
    BY DEF MarketScanAssumption
  <1>2. Closes[at] \in Nat
    BY <1>1
  <1>3. CASE row.id \in prior /\ row.price > 0
    <2>1. MeasuredRow(row, prior, at)
            = [id |-> row.id, at |-> row.at, readiness |-> row.readiness, price |-> row.price,
               measuredAt |-> at, measured |-> Closes[at]]
      BY <1>3 DEF MeasuredRow, RowIsSound, Row
    <2>. QED BY <1>1, <1>2, <1>3, <2>1 DEF RowIsSound, Row
  <1>4. CASE ~(row.id \in prior /\ row.price > 0)
    BY <1>4 DEF MeasuredRow
  <1>. QED BY <1>3, <1>4

(* The new row of a scan.                                                   *)
LEMMA NewRow ==
    ASSUME MarketScanAssumption, NEW b \in 0 .. Len(Closes), NEW n \in Nat,
           NEW k \in Judged, k.bar \in 1 .. b, k.id \in 1 .. n
    PROVE  RowIsSound(Assessment(k), b, n)
  <1>1. k.bar \in 1 .. Len(Closes) /\ Closes[k.bar] \in Nat
    BY SMTT(20) DEF MarketScanAssumption
  <1>. QED BY <1>1 DEF RowIsSound, Row, Assessment, Judged

(* What one transaction does to the history: rows stay, but for their       *)
(* measurement, at most the row of the scan is new, and afterwards there is *)
(* one equivalent to it.                                                    *)
LEMMA Recorded ==
    ASSUME MarketScanAssumption, NEW b \in 0 .. Len(Closes), NEW n \in Nat,
           NEW rows, Keyed(rows), \A row \in rows : RowIsSound(row, b, n),
           NEW k \in Judged, k.step = "record", ScanIsSound(k, rows, b, n),
           NEW after, after = Insert(Measured(rows, k.prior, k.bar), Assessment(k))
    PROVE  /\ \A row \in after : RowIsSound(row, b, n)
           /\ Keyed(after)
           /\ \A row \in rows : \E new \in after :
                new.id = row.id /\ new.at = row.at /\ Equivalent(new, row)
           /\ \A row \in after : row.id = k.id \/ \E old \in rows : row.id = old.id
           /\ \E row \in after : Equivalent(row, Assessment(k))
  <1> DEFINE M(row) == MeasuredRow(row, k.prior, k.bar)
             all == Measured(rows, k.prior, k.bar)
             a == Assessment(k)
  <1>1. \A row \in rows : row.id \in k.prior => row.at < k.bar
    BY DEF ScanIsSound, Keyed
  <1>2. k.bar \in 1 .. b /\ k.id \in 1 .. n /\ \A row \in rows : row.id # k.id
    BY DEF ScanIsSound
  <1>3. \A row \in rows :
            /\ RowIsSound(M(row), b, n) /\ M(row).id = row.id /\ M(row).at = row.at
            /\ M(row).readiness = row.readiness /\ M(row).price = row.price
    BY <1>1, <1>2, OneMeasured
  <1>4. all = {M(row) : row \in rows}
    BY DEF Measured, MeasuredRow
  <1>5. RowIsSound(a, b, n) /\ a.id = k.id
    BY <1>2, NewRow DEF Assessment
  <1> HIDE DEF M, all, a
  <1>6. \A row \in all :
            RowIsSound(row, b, n) /\ row.id # k.id /\ \E old \in rows : row.id = old.id
    BY <1>2, <1>3, <1>4
  <1>7. \A x, y \in all : x.id = y.id => x = y
    BY <1>3, <1>4 DEF Keyed
  <1>8. \A row \in rows : \E new \in all :
            new.id = row.id /\ new.at = row.at /\ Equivalent(new, row)
    BY <1>3, <1>4 DEF Equivalent
  <1>9. \/ after = all /\ \E row \in all : Equivalent(row, a)
        \/ after = all \cup {a}
    BY DEF Insert, all, a
  <1>10. \E row \in after : Equivalent(row, a)
    BY <1>9 DEF Equivalent
  <1>11. after \subseteq all \cup {a} /\ all \subseteq after
    BY <1>9
  <1>12. \A row \in after : RowIsSound(row, b, n)
    BY <1>5, <1>6, <1>11
  <1>13. Keyed(after)
    BY <1>5, <1>6, <1>7, <1>11 DEF Keyed
  <1>14. \A row \in rows : \E new \in after :
            new.id = row.id /\ new.at = row.at /\ Equivalent(new, row)
    BY <1>8, <1>11
  <1>15. \A row \in after : row.id = k.id \/ \E old \in rows : row.id = old.id
    BY <1>5, <1>6, <1>11
  <1>. QED BY <1>10, <1>12, <1>13, <1>14, <1>15 DEF a

(* A scan underway stays sound when rows stay and no row takes its id.      *)
LEMMA ScanStaysSound ==
    ASSUME NEW k, NEW rows, NEW after, NEW b \in Nat, NEW c \in Nat, NEW n \in Nat, NEW m \in Nat,
           ScanIsSound(k, rows, b, n), b <= c, n <= m,
           \A row \in rows : \E new \in after :
                new.id = row.id /\ new.at = row.at /\ Equivalent(new, row),
           \A row \in after : row.id # k.id \/ \E old \in rows : row.id = old.id
    PROVE  ScanIsSound(k, after, c, m)
  <1>1. k.id \in 1 .. m /\ k.bar \in 1 .. c
    BY DEF ScanIsSound
  <1>2. k.step # "publish" => \A row \in after : row.id # k.id
    BY DEF ScanIsSound
  <1>3. k.step = "record" => \A i \in k.prior : \E row \in after : row.id = i /\ row.at < k.bar
    BY DEF ScanIsSound
  <1>4. k.step = "publish" => \E row \in after : Equivalent(row, Assessment(k))
    BY DEF ScanIsSound, Equivalent
  <1>. QED BY <1>1, <1>2, <1>3, <1>4 DEF ScanIsSound

-----------------------------------------------------------------------------
(* The scans and rows when one thread goes on and the history stays.        *)
LEMMA RecordsKept ==
    ASSUME ScanInv, NEW t \in Threads, NEW k, Becomes(t, k),
           UNCHANGED <<history, bar, scans, latest>>,
           k.step \in Scanning =>
                /\ request[t].step \in Scanning /\ k.id = request[t].id
                /\ ScanIsSound(k, history, bar, scans)
    PROVE  RowsAreSound' /\ ScansAreSound' /\ ReportIsOnRecord'
  <1>1. request'[t] = k /\ \A u \in Threads : u # t => request'[u] = request[u]
    BY OneRequest DEF ScanInv
  <1>2. RowsAreSound' /\ ReportIsOnRecord'
    BY DEF ScanInv, RowsAreSound, ReportIsOnRecord
  <1>3. \A u \in Threads :
            request'[u].step \in Scanning => ScanIsSound(request'[u], history', bar', scans')
    BY <1>1 DEF ScanInv, ScansAreSound
  <1>4. \A u, v \in Threads :
            u # v /\ request'[u].step \in Scanning /\ request'[v].step \in Scanning =>
                request'[u].id # request'[v].id
    BY <1>1 DEF ScanInv, ScansAreSound
  <1>. QED BY <1>2, <1>3, <1>4 DEF ScansAreSound

(* The settings that requests carry when one thread goes on.                *)
LEMMA FilesKept ==
    ASSUME ScanInv, NEW t \in Threads, NEW k, Becomes(t, k),
           UNCHANGED <<settings, status, latest>>,
           k.step \in Scanning \cup {"ask"} => k.settings \in 0 .. settings
    PROVE  FilesTyped'
  <1>1. request'[t] = k /\ \A u \in Threads : u # t => request'[u] = request[u]
    BY OneRequest DEF ScanInv
  <1>. QED BY <1>1 DEF ScanInv, FilesTyped

(* What a save leaves when it ends at a step.                               *)
LEMMA WhatIsLeft ==
    /\ \A s : s \notin Saving => LeftBy(s) = {}
    /\ \A s \in {"secrets", "reset"} : LeftBy(s) = {"status", "report"}
    /\ LeftBy("unlink") = {"report"}
  BY DEF LeftBy, Saving

(* What some save has yet to invalidate when one thread goes on.            *)
LEMMA PendingKept ==
    ASSUME ScanInv, NEW t \in Threads, NEW k, Becomes(t, k), NEW claim,
           claim \in LeftBy(request[t].step) => claim \in LeftBy(k.step)
    PROVE  Pending(claim) => Pending(claim)'
  <1>1. request'[t] = k /\ \A u \in Threads : u # t => request'[u] = request[u]
    BY OneRequest DEF ScanInv
  <1>2. LeftBy(request[t].step)' = LeftBy(k.step)
    BY <1>1 DEF LeftBy
  <1>. QED BY <1>1, <1>2 DEF Pending

(* What was claimed when one thread goes on.                                *)
LEMMA ClaimsKept ==
    ASSUME ScanInv, NEW t \in Threads, NEW k, Becomes(t, k),
           UNCHANGED <<settings, status, latest, doubt>>,
           request[t].step \notin Saving,
           k.step = "ask" => "status" \in doubt \/ k.settings = settings,
           k.step \in Scanning => "report" \in doubt \/ k.settings = settings
    PROVE  RequestsAreCurrent' /\ OldClaimsAreExplained'
  <1>1. request'[t] = k /\ \A u \in Threads : u # t => request'[u] = request[u]
    BY OneRequest DEF ScanInv
  <1>2. /\ Pending("status") => Pending("status")'
        /\ Pending("report") => Pending("report")'
    BY WhatIsLeft, PendingKept
  <1>3. RequestsAreCurrent'
    BY <1>1 DEF ScanInv, RequestsAreCurrent
  <1>4. OldClaimsAreExplained'
    BY <1>2 DEF ScanInv, OldClaimsAreExplained
  <1>. QED BY <1>3, <1>4

(* A request that goes on, ends or begins a test, and touches no file.      *)
LEMMA QuietStep ==
    ASSUME ScanInv, NEW t \in Threads, NEW k \in RequestKinds, Becomes(t, k),
           UNCHANGED <<bar, settings, status, latest, history, scans, doubt>>,
           indexed' \in BOOLEAN, artifacts' \subseteq 1 .. scans,
           request[t].step \notin Saving, k.step \notin Saving,
           k.step \in Scanning =>
                /\ request[t].step \in Scanning /\ k.id = request[t].id
                /\ k.settings = request[t].settings
                /\ ScanIsSound(k, history, bar, scans),
           k.step = "ask" => k.settings = settings
    PROVE  ScanInv'
  <1>1. RequestTypes'
    BY BecomesTyped DEF ScanInv
  <1>2. RowsAreSound' /\ ScansAreSound' /\ ReportIsOnRecord'
    BY RecordsKept
  <1>3. k.step \in Scanning \cup {"ask"} => k.settings \in 0 .. settings
    BY DEF ScanInv, FilesTyped, ScanCounters
  <1>4. k.step \in Scanning => "report" \in doubt \/ k.settings = settings
    BY DEF ScanInv, RequestsAreCurrent
  <1>5. FilesTyped' /\ RequestsAreCurrent' /\ OldClaimsAreExplained'
    BY <1>3, <1>4, FilesKept, ClaimsKept
  <1>6. ScanCounters'
    BY DEF ScanInv, ScanCounters
  <1>. QED BY <1>1, <1>2, <1>5, <1>6 DEF ScanInv, MarketScanAssumption

(* A request that ends without a trace.                                     *)
LEMMA EndsQuietly ==
    ASSUME ScanInv, NEW t \in Threads, Becomes(t, NoRequest),
           UNCHANGED <<bar, settings, status, latest, artifacts, history, scans, doubt>>,
           indexed' \in BOOLEAN, request[t].step \notin Saving
    PROVE  ScanInv'
  <1>1. NoRequest \in RequestKinds /\ NoRequest.step \notin Scanning \cup Saving \cup {"ask"}
    BY DEF NoRequest, RequestKinds, Scanning, Saving
  <1>2. artifacts' \subseteq 1 .. scans
    BY DEF ScanInv, ScanCounters
  <1>. QED BY <1>1, <1>2, QuietStep

LEMMA StepsApart ==
    /\ "ask" \notin Scanning \cup Saving /\ "idle" \notin Scanning \cup Saving \cup {"ask"}
    /\ Scanning \cap Saving = {}
  BY DEF Scanning, Saving

LEMMA AcquireInv == ASSUME ScanInv, NEW t \in Threads, Acquire(t) PROVE ScanInv'
  <1>1. request[t] \in Acquiring /\ request[t].step = "acquire"
    BY KindsOfRequest DEF Acquire, ScanInv, At
  <1>2. PICK r \in Readiness :
            Becomes(t, [step |-> "supersede", settings |-> request[t].settings,
                        bar |-> request[t].bar, id |-> request[t].id,
                        readiness |-> r, prior |-> {}])
    BY DEF Acquire, Readiness
  <1> DEFINE k == [step |-> "supersede", settings |-> request[t].settings, bar |-> request[t].bar,
                   id |-> request[t].id, readiness |-> r, prior |-> {}]
  <1>3. k \in Judged /\ k \in RequestKinds
    BY <1>1 DEF Judged, Acquiring, Scanning, RequestKinds
  <1>4. ScanIsSound(request[t], history, bar, scans) /\ request[t].step \in Scanning
    BY <1>1 DEF ScanInv, ScansAreSound, Scanning
  <1>5. ScanIsSound(k, history, bar, scans)
    BY <1>1, <1>4 DEF ScanIsSound
  <1>6. artifacts \subseteq 1 .. scans /\ indexed \in BOOLEAN
    BY DEF ScanInv, ScanCounters
  <1>7. k.step = "supersede" /\ k.id = request[t].id /\ k.settings = request[t].settings
    OBVIOUS
  <1>8. k.step \notin Saving \cup {"ask"} /\ request[t].step \notin Saving
    BY <1>1 DEF Saving
  <1> HIDE DEF k
  <1>. QED BY <1>2, <1>3, <1>4, <1>5, <1>6, <1>7, <1>8, QuietStep DEF Acquire, k, files

(* A judged scan that goes on to a step before it is published.             *)
LEMMA GoesQuietly ==
    ASSUME ScanInv, NEW t \in Threads, request[t].step \in Scanning \ {"acquire", "publish"},
           NEW s \in {"drop", "create", "select"}, Goes(t, s),
           UNCHANGED <<bar, settings, status, latest, history, scans, doubt>>,
           indexed' \in BOOLEAN, artifacts' \subseteq 1 .. scans
    PROVE  ScanInv'
  <1> DEFINE k == [request[t] EXCEPT !.step = s]
  <1>1. request[t] \in Judged /\ s \in Scanning \ {"acquire"}
    BY KindsOfRequest DEF ScanInv, At, Scanning
  <1>2. /\ k \in Judged /\ k.step = s /\ k.settings = request[t].settings
        /\ k.bar = request[t].bar /\ k.id = request[t].id
    BY <1>1, JudgedGoes
  <1>3. Becomes(t, k)
    BY DEF Goes
  <1> HIDE DEF k
  <1>4. ScanIsSound(request[t], history, bar, scans)
    BY DEF ScanInv, ScansAreSound
  <1>5. ScanIsSound(k, history, bar, scans)
    BY <1>2, <1>4 DEF ScanIsSound
  <1>6. k \in RequestKinds /\ k.step \notin Saving \cup {"ask"} /\ request[t].step \notin Saving
    BY <1>1, <1>2, StepsApart DEF RequestKinds
  <1>. QED BY <1>2, <1>3, <1>5, <1>6, QuietStep

LEMMA SupersedeInv == ASSUME ScanInv, NEW t \in Threads, Supersede(t) PROVE ScanInv'
  <1>1. request[t].step = "supersede" /\ indexed \in BOOLEAN
    BY DEF Supersede, At, ScanInv, ScanCounters
  <1>2. request[t].id \in 1 .. scans
    BY <1>1 DEF ScanInv, ScansAreSound, ScanIsSound, Scanning
  <1>3. artifacts' \subseteq 1 .. scans
    BY <1>2 DEF Supersede, ArtifactsOf
  <1>. QED BY <1>1, <1>3, GoesQuietly DEF Supersede, files, Scanning

LEMMA DropIndexInv == ASSUME ScanInv, NEW t \in Threads, DropIndex(t) PROVE ScanInv'
  <1>1. request[t].step = "drop" /\ artifacts \subseteq 1 .. scans
    BY DEF DropIndex, At, ScanInv, ScanCounters
  <1>. QED BY <1>1, GoesQuietly DEF DropIndex, files, Scanning

LEMMA CreateIndexInv == ASSUME ScanInv, NEW t \in Threads, CreateIndex(t) PROVE ScanInv'
  <1>1. request[t].step = "create" /\ artifacts \subseteq 1 .. scans /\ indexed \in BOOLEAN
    BY DEF CreateIndex, At, ScanInv, ScanCounters
  <1>2. CASE Becomes(t, NoRequest) /\ indexed' = indexed
    BY <1>1, <1>2, EndsQuietly DEF CreateIndex, files, Saving
  <1>3. CASE Goes(t, "select") /\ indexed' = TRUE
    BY <1>1, <1>3, GoesQuietly DEF CreateIndex, files, Scanning
  <1>. QED BY <1>2, <1>3 DEF CreateIndex

LEMMA JudgedSelects ==
    ASSUME NEW k \in Judged, NEW p \in SUBSET Nat
    PROVE  LET n == [k EXCEPT !.step = "record", !.prior = p] IN
           /\ n \in Judged /\ n.step = "record" /\ n.settings = k.settings /\ n.bar = k.bar
           /\ n.id = k.id /\ n.readiness = k.readiness /\ n.prior = p
  <1> DEFINE m == [k EXCEPT !.step = "record"]
  <1>1. /\ m \in Judged /\ m.step = "record" /\ m.settings = k.settings /\ m.bar = k.bar
        /\ m.id = k.id /\ m.readiness = k.readiness
    BY JudgedGoes DEF Scanning
  <1>2. [k EXCEPT !.step = "record", !.prior = p] = [m EXCEPT !.prior = p]
    OBVIOUS
  <1>. HIDE DEF m
  <1>3. /\ [m EXCEPT !.prior = p] \in Judged /\ [m EXCEPT !.prior = p].prior = p
        /\ [m EXCEPT !.prior = p].step = m.step /\ [m EXCEPT !.prior = p].settings = m.settings
        /\ [m EXCEPT !.prior = p].bar = m.bar /\ [m EXCEPT !.prior = p].id = m.id
        /\ [m EXCEPT !.prior = p].readiness = m.readiness
    BY <1>1 DEF Judged
  <1>. QED BY <1>1, <1>2, <1>3

(* What is selected are rows of bars before the bar of the scan.            *)
LEMMA SelectPriorInv == ASSUME ScanInv, NEW t \in Threads, SelectPrior(t) PROVE ScanInv'
  <1> DEFINE p == {row.id : row \in UnmeasuredBefore(request[t].bar)}
             k == [request[t] EXCEPT !.step = "record", !.prior = p]
  <1>1. request[t].step = "select" /\ artifacts \subseteq 1 .. scans /\ indexed \in BOOLEAN
    BY DEF SelectPrior, At, ScanInv, ScanCounters
  <1>2. request[t] \in Judged
    BY <1>1, KindsOfRequest DEF ScanInv, At, Scanning
  <1>3. \A i \in p : \E row \in history : row.id = i /\ row.at < request[t].bar
    BY DEF UnmeasuredBefore
  <1>4. p \in SUBSET Nat
    BY DEF UnmeasuredBefore, ScanInv, RowsAreSound, RowIsSound, Row
  <1>6. Becomes(t, k)
    BY DEF SelectPrior
  <1> HIDE DEF p
  <1>8. /\ k \in Judged /\ k.step = "record" /\ k.settings = request[t].settings
        /\ k.bar = request[t].bar /\ k.id = request[t].id /\ k.prior = p
    BY <1>2, <1>4, JudgedSelects
  <1> HIDE DEF k
  <1>7. k \in RequestKinds
    BY <1>8 DEF RequestKinds
  <1>9. ScanIsSound(request[t], history, bar, scans)
    BY <1>1 DEF ScanInv, ScansAreSound, Scanning
  <1>10. ScanIsSound(k, history, bar, scans)
    BY <1>1, <1>3, <1>8, <1>9 DEF ScanIsSound
  <1>11. k.step \notin Saving \cup {"ask"} /\ request[t].step \in Scanning \ Saving
    BY <1>1, <1>8, StepsApart DEF Scanning, Saving
  <1>. QED BY <1>1, <1>6, <1>7, <1>8, <1>10, <1>11, QuietStep DEF SelectPrior, files

LEMMA ScanFailsInv == ASSUME ScanInv, NEW t \in Threads, ScanFails(t) PROVE ScanInv'
  BY EndsQuietly, StepsApart DEF ScanFails, files, ScanInv, ScanCounters

LEMMA BeginProbeInv == ASSUME ScanInv, NEW t \in Threads, BeginProbe(t) PROVE ScanInv'
  <1> DEFINE k == [step |-> "ask", settings |-> settings]
  <1>1. k \in RequestKinds /\ k.step = "ask" /\ k.settings = settings
    BY DEF RequestKinds, Asking, ScanInv, ScanCounters, MarketScanAssumption
  <1>2. request[t].step \notin Saving /\ artifacts \subseteq 1 .. scans /\ indexed \in BOOLEAN
    BY StepsApart DEF BeginProbe, At, ScanInv, ScanCounters
  <1>3. k.step \notin Saving \cup Scanning
    BY <1>1, StepsApart
  <1> HIDE DEF k
  <1>. QED BY <1>1, <1>2, <1>3, QuietStep DEF BeginProbe, k, files

-----------------------------------------------------------------------------
LEMMA CompleteBarInv == ASSUME ScanInv, CompleteBar PROVE ScanInv'
  <1>1. bar \in Nat /\ bar' \in Nat /\ bar <= bar' /\ bar' <= Len(Closes) /\ scans \in Nat
    BY DEF CompleteBar, ScanInv, ScanCounters, MarketScanAssumption
  <1>2. ScanCounters' /\ RequestTypes' /\ FilesTyped' /\ ReportIsOnRecord'
    BY <1>1 DEF CompleteBar, ScanInv, ScanCounters, RequestTypes, FilesTyped, ReportIsOnRecord,
                files
  <1>3. RowsAreSound'
    BY <1>1 DEF CompleteBar, ScanInv, RowsAreSound, RowIsSound
  <1>4. \A t \in Threads :
            request'[t].step \in Scanning => ScanIsSound(request'[t], history', bar', scans')
    <2> SUFFICES ASSUME NEW t \in Threads, request[t].step \in Scanning
                 PROVE  ScanIsSound(request[t], history, bar', scans)
      <3>1. UNCHANGED <<request, history, scans>>
        BY DEF CompleteBar
      <3>. QED BY <3>1
    <2>1. ScanIsSound(request[t], history, bar, scans)
      BY DEF ScanInv, ScansAreSound
    <2>2. \A row \in history : \E new \in history :
              new.id = row.id /\ new.at = row.at /\ Equivalent(new, row)
      BY DEF Equivalent
    <2>3. \A row \in history : row.id # request[t].id \/ \E old \in history : row.id = old.id
      OBVIOUS
    <2>4. bar' \in Nat /\ bar \in Nat /\ scans \in Nat /\ bar <= bar' /\ scans <= scans
      BY <1>1
    <2>. QED BY <2>1, <2>2, <2>3, <2>4, ScanStaysSound
  <1>5. ScansAreSound'
    BY <1>4 DEF CompleteBar, ScanInv, ScansAreSound
  <1>6. RequestsAreCurrent' /\ OldClaimsAreExplained'
    BY DEF CompleteBar, files, ScanInv, RequestsAreCurrent, OldClaimsAreExplained, Pending, LeftBy
  <1>. QED BY <1>2, <1>3, <1>5, <1>6 DEF ScanInv, MarketScanAssumption

(* A new scan has an id that no row and no other scan has.                  *)
LEMMA BeginScanInv == ASSUME ScanInv, NEW t \in Threads, BeginScan(t) PROVE ScanInv'
  <1> DEFINE k == [step |-> "acquire", settings |-> settings, bar |-> bar, id |-> scans + 1]
  <1>1. /\ bar \in Nat \ {0} /\ scans \in Nat /\ scans' = scans + 1 /\ scans' \in 0 .. MaxScans
        /\ settings \in Nat
    BY DEF BeginScan, ScanInv, ScanCounters, MarketScanAssumption
  <1>2. Becomes(t, k) /\ k \in RequestKinds /\ k.step = "acquire" /\ k.settings = settings
        /\ k.id = scans + 1 /\ k.bar = bar
    BY <1>1 DEF BeginScan, RequestKinds, Acquiring
  <1> HIDE DEF k
  <1>3. request'[t] = k /\ \A u \in Threads : u # t => request'[u] = request[u]
    BY <1>2, OneRequest DEF ScanInv
  <1>4. k.step \in Scanning /\ k.step \notin Saving /\ request[t].step \notin Saving
    BY <1>2, StepsApart DEF BeginScan, At, Scanning
  <1>5. RequestTypes' /\ ScanCounters'
    BY <1>1, <1>2, BecomesTyped DEF BeginScan, ScanInv, ScanCounters, files
  <1>6. FilesTyped' /\ RequestsAreCurrent' /\ OldClaimsAreExplained'
    <2>1. settings \in 0 .. settings
      BY <1>1
    <2>. QED BY <1>2, <1>4, <2>1, StepsApart, FilesKept, ClaimsKept DEF BeginScan, files
  <1>7. RowsAreSound' /\ ReportIsOnRecord'
    BY <1>1 DEF BeginScan, files, ScanInv, RowsAreSound, RowIsSound, ReportIsOnRecord
  <1>8. \A row \in history : row.id # k.id
    BY <1>1, <1>2 DEF ScanInv, RowsAreSound, RowIsSound
  <1>9. ScanIsSound(k, history, bar, scans + 1)
    BY <1>1, <1>2, <1>8 DEF ScanIsSound
  <1>10. \A u \in Threads : request[u].step \in Scanning =>
            ScanIsSound(request[u], history, bar, scans + 1) /\ request[u].id # k.id
    <2> SUFFICES ASSUME NEW u \in Threads, request[u].step \in Scanning
                 PROVE  ScanIsSound(request[u], history, bar, scans + 1) /\ request[u].id # k.id
      OBVIOUS
    <2>1. ScanIsSound(request[u], history, bar, scans)
      BY DEF ScanInv, ScansAreSound
    <2>2. scans + 1 \in Nat /\ scans <= scans + 1 /\ bar <= bar /\ bar \in Nat
      BY <1>1
    <2>3. ScanIsSound(request[u], history, bar, scans + 1)
      BY <1>1, <2>1, <2>2, ScanStaysSound DEF Equivalent
    <2>. QED BY <1>1, <1>2, <2>1, <2>3 DEF ScanIsSound
  <1>11. ScansAreSound'
    <2>1. \A u \in Threads :
            request'[u].step \in Scanning => ScanIsSound(request'[u], history', bar', scans')
      BY <1>1, <1>3, <1>9, <1>10 DEF BeginScan
    <2>2. \A u, v \in Threads :
            u # v /\ request'[u].step \in Scanning /\ request'[v].step \in Scanning =>
                request'[u].id # request'[v].id
      BY <1>3, <1>10 DEF ScanInv, ScansAreSound
    <2>. QED BY <2>1, <2>2 DEF ScansAreSound
  <1>. QED BY <1>5, <1>6, <1>7, <1>11 DEF ScanInv, MarketScanAssumption

(* The transaction of a scan, while others are underway.                    *)
LEMMA RecordInv == ASSUME ScanInv, NEW t \in Threads, Record(t) PROVE ScanInv'
  <1>1. request[t].step = "record" /\ request[t].step \in Scanning /\ ~At(t, "acquire")
    BY DEF Record, At, Scanning
  <1>2. /\ request[t] \in Judged /\ request'[t] \in Judged /\ request'[t].step = "publish"
        /\ request'[t].settings = request[t].settings /\ request'[t].bar = request[t].bar
        /\ request'[t].id = request[t].id /\ request'[t].readiness = request[t].readiness
        /\ \A u \in Threads : u # t => request'[u] = request[u]
    BY <1>1, ScanGoes DEF Record, ScanInv, Scanning
  <1>3. bar \in 0 .. Len(Closes) /\ scans \in Nat /\ bar \in Nat
    BY DEF ScanInv, ScanCounters, MarketScanAssumption
  <1>4. ScanIsSound(request[t], history, bar, scans)
    BY <1>1 DEF ScanInv, ScansAreSound
  <1>5. /\ \A row \in history' : RowIsSound(row, bar, scans)
        /\ Keyed(history')
        /\ \A row \in history : \E new \in history' :
                new.id = row.id /\ new.at = row.at /\ Equivalent(new, row)
        /\ \A row \in history' : row.id = request[t].id \/ \E old \in history : row.id = old.id
        /\ \E row \in history' : Equivalent(row, Assessment(request[t]))
    <2>1. history' = Insert(Measured(history, request[t].prior, request[t].bar),
                            Assessment(request[t]))
      BY DEF Record
    <2>2. /\ MarketScanAssumption
          /\ \A row \in history : RowIsSound(row, bar, scans)
          /\ Keyed(history)
      BY DEF ScanInv, RowsAreSound
    <2>. QED BY <1>1, <1>2, <1>3, <1>4, <2>1, <2>2, Recorded
  <1>6. RowsAreSound'
    BY <1>5 DEF Record, RowsAreSound
  <1>7. ReportIsOnRecord'
    BY <1>5 DEF Record, ReportIsOnRecord, ScanInv, Equivalent, files
  <1>8. ScanIsSound(request'[t], history', bar, scans)
    BY <1>2, <1>4, <1>5 DEF ScanIsSound, Assessment
  <1>9. \A u \in Threads \ {t} : request[u].step \in Scanning =>
            ScanIsSound(request[u], history', bar, scans)
    <2> SUFFICES ASSUME NEW u \in Threads \ {t}, request[u].step \in Scanning
                 PROVE  ScanIsSound(request[u], history', bar, scans)
      OBVIOUS
    <2>1. ScanIsSound(request[u], history, bar, scans) /\ request[u].id # request[t].id
      BY <1>1 DEF ScanInv, ScansAreSound
    <2>2. \A row \in history' : row.id # request[u].id \/ \E old \in history : row.id = old.id
      BY <1>5, <2>1
    <2>. QED BY <1>3, <1>5, <2>1, <2>2, ScanStaysSound
  <1>10. ScansAreSound'
    <2>1. \A u \in Threads :
            request'[u].step \in Scanning => ScanIsSound(request'[u], history', bar', scans')
      BY <1>2, <1>8, <1>9 DEF Record
    <2>2. \A u, v \in Threads :
            u # v /\ request'[u].step \in Scanning /\ request'[v].step \in Scanning =>
                request'[u].id # request'[v].id
      BY <1>1, <1>2 DEF ScanInv, ScansAreSound
    <2>. QED BY <2>1, <2>2 DEF ScansAreSound
  <1>11. RequestTypes'
    BY <1>2, BecomesTyped DEF Record, Goes, ScanInv, RequestTypes, RequestKinds, Becomes
  <1>12. /\ request'[t].step \in Scanning /\ request'[t].step \notin Saving
         /\ request[t].step \notin Saving
    BY <1>1, <1>2, StepsApart DEF Scanning
  <1>13. Becomes(t, request'[t])
    BY <1>2 DEF Record, Goes, Becomes, ScanInv, RequestTypes
  <1>14. /\ request'[t].settings \in 0 .. settings
         /\ "report" \in doubt \/ request'[t].settings = settings
    BY <1>1, <1>2 DEF ScanInv, FilesTyped, RequestsAreCurrent
  <1>15. FilesTyped' /\ RequestsAreCurrent' /\ OldClaimsAreExplained'
    BY <1>12, <1>13, <1>14, StepsApart, FilesKept, ClaimsKept DEF Record, files
  <1>16. ScanCounters'
    BY DEF Record, files, ScanInv, ScanCounters
  <1>. QED BY <1>6, <1>7, <1>10, <1>11, <1>15, <1>16 DEF ScanInv, MarketScanAssumption

LEMMA NoRequestKind ==
    NoRequest \in RequestKinds /\ NoRequest.step = "idle"
    /\ NoRequest.step \notin Scanning \cup Saving \cup {"ask"}
  BY DEF NoRequest, RequestKinds, Scanning, Saving

(* The report that is published is on record, and of the settings the scan  *)
(* was begun with.                                                          *)
LEMMA PublishInv == ASSUME ScanInv, NEW t \in Threads, Publish(t) PROVE ScanInv'
  <1>1. request[t].step = "publish" /\ request[t].step \in Scanning /\ request[t] \in Judged
    BY KindsOfRequest DEF Publish, At, Scanning, ScanInv
  <1>2. request'[t] = NoRequest /\ \A u \in Threads : u # t => request'[u] = request[u]
    BY OneRequest DEF Publish, ScanInv
  <1>3. ScanIsSound(request[t], history, bar, scans)
    BY <1>1 DEF ScanInv, ScansAreSound
  <1>4. /\ request[t].settings \in 0 .. settings
        /\ "report" \in doubt \/ request[t].settings = settings
    BY <1>1 DEF ScanInv, FilesTyped, RequestsAreCurrent
  <1>5. RequestTypes'
    BY NoRequestKind, BecomesTyped DEF Publish, ScanInv
  <1>6. RowsAreSound' /\ ScansAreSound'
    BY <1>2, NoRequestKind DEF Publish, ScanInv, RowsAreSound, ScansAreSound
  <1>7. /\ latest'.id = request[t].id /\ latest'.bar = request[t].bar
        /\ latest'.settings = request[t].settings /\ latest'.readiness = request[t].readiness
    BY DEF Publish
  <1>8. ReportIsOnRecord'
    BY <1>1, <1>3, <1>7 DEF Publish, ReportIsOnRecord, ScanIsSound, Equivalent, Assessment
  <1>9. latest' \in Report
    <2>1. /\ scans \in 0 .. MaxScans /\ settings \in 0 .. MaxSaves /\ bar \in 0 .. Len(Closes)
          /\ MaxScans \in Nat /\ MaxSaves \in Nat /\ DOMAIN Closes = 1 .. Len(Closes)
          /\ Len(Closes) \in Nat
      BY DEF ScanInv, ScanCounters, MarketScanAssumption
    <2>2. request[t].id \in 1 .. MaxScans /\ request[t].bar \in DOMAIN Closes
      BY <1>3, <2>1 DEF ScanIsSound
    <2>3. request[t].settings \in 0 .. MaxSaves /\ request[t].readiness \in Readiness
      BY <1>1, <1>4, <2>1 DEF Judged
    <2>. QED BY <2>2, <2>3 DEF Publish, Report, Readiness
  <1>10. FilesTyped'
    BY <1>2, <1>9, NoRequestKind DEF Publish, ScanInv, FilesTyped
  <1>11. RequestsAreCurrent' /\ OldClaimsAreExplained'
    <2>1. Pending("status") => Pending("status")'
      BY <1>1, StepsApart, WhatIsLeft, PendingKept DEF Publish
    <2>2. OldClaimsAreExplained'
      BY <1>4, <1>7, <2>1 DEF Publish, ScanInv, OldClaimsAreExplained
    <2>3. RequestsAreCurrent'
      BY <1>2, NoRequestKind DEF Publish, ScanInv, RequestsAreCurrent
    <2>. QED BY <2>2, <2>3
  <1>12. ScanCounters'
    BY DEF Publish, ScanInv, ScanCounters
  <1>. QED BY <1>5, <1>6, <1>8, <1>10, <1>11, <1>12 DEF ScanInv, MarketScanAssumption

(* A test claims what it found with the settings it was begun with.         *)
LEMMA EndProbeInv == ASSUME ScanInv, NEW t \in Threads, EndProbe(t) PROVE ScanInv'
  <1>1. request[t].step = "ask"
    BY DEF EndProbe, At
  <1>2. request'[t] = NoRequest /\ \A u \in Threads : u # t => request'[u] = request[u]
    BY OneRequest DEF EndProbe, ScanInv
  <1>3. /\ request[t].settings \in 0 .. settings
        /\ "status" \in doubt \/ request[t].settings = settings
    BY <1>1 DEF ScanInv, FilesTyped, RequestsAreCurrent
  <1>4. RequestTypes'
    BY NoRequestKind, BecomesTyped DEF EndProbe, ScanInv
  <1>5. RowsAreSound' /\ ScansAreSound' /\ ReportIsOnRecord' /\ ScanCounters'
    BY <1>2, NoRequestKind
       DEF EndProbe, ScanInv, RowsAreSound, ScansAreSound, ReportIsOnRecord, ScanCounters
  <1>6. FilesTyped'
    BY <1>2, <1>3, NoRequestKind DEF EndProbe, ScanInv, FilesTyped
  <1>7. RequestsAreCurrent' /\ OldClaimsAreExplained'
    <2>1. Pending("report") => Pending("report")'
      BY <1>1, StepsApart, WhatIsLeft, PendingKept DEF EndProbe
    <2>2. status'.settings = request[t].settings
      BY DEF EndProbe
    <2>3. OldClaimsAreExplained'
      BY <1>3, <2>1, <2>2 DEF EndProbe, ScanInv, OldClaimsAreExplained
    <2>4. RequestsAreCurrent'
      BY <1>2, NoRequestKind DEF EndProbe, ScanInv, RequestsAreCurrent
    <2>. QED BY <2>3, <2>4
  <1>. QED BY <1>4, <1>5, <1>6, <1>7 DEF ScanInv, MarketScanAssumption

(* A request that ends before it has written the status.                    *)
LEMMA ProbeFailsInv == ASSUME ScanInv, NEW t \in Threads, ProbeFails(t) PROVE ScanInv'
  <1>1. request[t].step \notin Saving /\ indexed \in BOOLEAN
    BY StepsApart DEF ProbeFails, At, ScanInv, ScanCounters
  <1>. QED BY <1>1, EndsQuietly DEF ProbeFails, files

(* A step of a save that touches neither the status nor the report: what    *)
(* becomes old by it, or is left old, is in doubt or still to be reset.     *)
LEMMA SaveStep ==
    ASSUME ScanInv, NEW t \in Threads, NEW k \in {NoRequest} \cup Storing, Becomes(t, k),
           UNCHANGED <<bar, status, latest, artifacts, history, indexed, scans>>,
           request[t].step \in {"idle"} \cup Saving,
           \/ settings' = settings /\ doubt \subseteq doubt' /\ LeftBy(request[t].step) \subseteq doubt'
           \/ Replace /\ LeftBy(k.step) = {"status", "report"}
           \/ UNCHANGED <<settings, doubt>> /\ LeftBy(k.step) = {"status", "report"},
           doubt' \subseteq {"status", "report"}
    PROVE  ScanInv'
  <1>1. k \in RequestKinds /\ k.step \notin Scanning \cup {"ask"}
    BY NoRequestKind, StepsApart DEF Storing, RequestKinds
  <1>2. request'[t] = k /\ \A u \in Threads : u # t => request'[u] = request[u]
    BY OneRequest DEF ScanInv
  <1>3. settings \in Nat /\ settings' \in 0 .. MaxSaves /\ settings <= settings'
    BY DEF Replace, ScanInv, ScanCounters, MarketScanAssumption
  <1>4. RequestTypes' /\ ScanCounters'
    BY <1>1, <1>3, BecomesTyped DEF ScanInv, ScanCounters
  <1>5. RowsAreSound' /\ ScansAreSound' /\ ReportIsOnRecord'
    BY <1>1, <1>2, RecordsKept
  <1>6. \A i \in 0 .. settings : i \in 0 .. settings'
    BY <1>3
  <1>7. FilesTyped'
    BY <1>1, <1>2, <1>6 DEF ScanInv, FilesTyped
  <1>8. RequestsAreCurrent'
    <2>1. doubt \subseteq doubt'
      BY DEF Replace
    <2>2. Replace => /\ Busy({"ask"}) => "status" \in doubt'
                     /\ Busy(Scanning) => "report" \in doubt'
      BY DEF Replace
    <2>3. \A u \in Threads : request'[u].step \in Scanning \cup {"ask"} => request'[u] = request[u]
      BY <1>1, <1>2
    <2>. QED BY <2>1, <2>2, <2>3 DEF Busy, ScanInv, RequestsAreCurrent
  <1>9. OldClaimsAreExplained'
    <2>1. ASSUME LeftBy(k.step) = {"status", "report"} PROVE OldClaimsAreExplained'
      <3>1. LeftBy(request[t].step)' = {"status", "report"}
        BY <1>2, <2>1 DEF LeftBy
      <3>2. Pending("status")' /\ Pending("report")'
        BY <3>1 DEF Pending
      <3>. QED BY <3>2 DEF OldClaimsAreExplained
    <2>2. CASE /\ settings' = settings /\ doubt \subseteq doubt'
               /\ LeftBy(request[t].step) \subseteq doubt'
      <3>1. ASSUME NEW claim, Pending(claim) PROVE claim \in doubt' \/ Pending(claim)'
        <4>1. PICK u \in Threads : claim \in LeftBy(request[u].step)
          BY <3>1 DEF Pending
        <4>2. CASE u = t
          BY <2>2, <4>1, <4>2
        <4>3. CASE u # t
          <5>1. LeftBy(request[u].step)' = LeftBy(request[u].step)
            BY <1>2, <4>3 DEF LeftBy
          <5>. QED BY <4>1, <5>1 DEF Pending
        <4>. QED BY <4>2, <4>3
      <3>. QED BY <2>2, <3>1 DEF ScanInv, OldClaimsAreExplained
    <2>. QED BY <2>1, <2>2
  <1>. QED BY <1>4, <1>5, <1>7, <1>8, <1>9 DEF ScanInv, MarketScanAssumption

(* The steps of a save, as requests.                                        *)
LEMMA SavingSteps ==
    /\ [step |-> "secrets"] \in Storing /\ [step |-> "reset"] \in Storing
    /\ [step |-> "unlink"] \in Storing
    /\ \A k \in Storing : \A s : [k EXCEPT !.step = s] = [step |-> s]
  BY DEF Storing, Saving

LEMMA SaveSettingsInv == ASSUME ScanInv, NEW t \in Threads, SaveSettings(t) PROVE ScanInv'
  <1>1. Becomes(t, [step |-> "secrets"]) /\ Replace /\ request[t].step = "idle"
    BY DEF SaveSettings, At
  <1>2. LeftBy([step |-> "secrets"].step) = {"status", "report"}
    BY WhatIsLeft
  <1>3. doubt' \subseteq {"status", "report"}
    BY DEF SaveSettings, Replace, ScanInv, ScanCounters
  <1>. QED BY <1>1, <1>2, <1>3, SavingSteps, SaveStep DEF SaveSettings

LEMMA SaveSecretsInv == ASSUME ScanInv, NEW t \in Threads, SaveSecrets(t) PROVE ScanInv'
  <1>1. request[t].step = "secrets" /\ request[t].step \in Saving /\ request[t] \in Storing
    BY KindsOfRequest DEF SaveSecrets, At, ScanInv, Saving
  <1>2. Becomes(t, [step |-> "reset"])
    BY <1>1, SavingSteps DEF SaveSecrets, Goes
  <1>3. LeftBy([step |-> "reset"].step) = {"status", "report"}
    BY WhatIsLeft
  <1>4. doubt' \subseteq {"status", "report"}
    BY DEF SaveSecrets, Replace, ScanInv, ScanCounters
  <1>. QED BY <1>1, <1>2, <1>3, <1>4, SavingSteps, SaveStep DEF SaveSecrets

(* A save that ends halfway leaves what it has not invalidated in doubt.    *)
LEMMA SaveFailsInv == ASSUME ScanInv, NEW t \in Threads, SaveFails(t) PROVE ScanInv'
  <1>1. request[t].step \in Saving /\ Becomes(t, NoRequest)
    BY DEF SaveFails
  <1>2. LeftBy(request[t].step) \subseteq {"status", "report"}
    BY DEF LeftBy
  <1>3. /\ doubt' = doubt \cup LeftBy(request[t].step)
        /\ doubt' \subseteq {"status", "report"}
    BY <1>2 DEF SaveFails, ScanInv, ScanCounters
  <1>. QED BY <1>1, <1>3, SaveStep DEF SaveFails, files

(* When the status is reset, no claim is left; what makes one is underway   *)
(* or nothing is in doubt.                                                  *)
LEMMA ResetStatusInv == ASSUME ScanInv, NEW t \in Threads, ResetStatus(t) PROVE ScanInv'
  <1>1. request[t].step = "reset" /\ request[t] \in Storing
    BY KindsOfRequest DEF ResetStatus, At, ScanInv, Saving
  <1> DEFINE k == [step |-> "unlink"]
  <1>2. /\ k \in RequestKinds /\ k.step = "unlink" /\ k.step \notin Scanning \cup {"ask"}
    BY SavingSteps DEF RequestKinds, Scanning
  <1>3. Becomes(t, k)
    BY <1>1, SavingSteps DEF ResetStatus, Goes
  <1> HIDE DEF k
  <1>4. request'[t] = k /\ \A u \in Threads : u # t => request'[u] = request[u]
    BY <1>3, OneRequest DEF ScanInv
  <1>5. RequestTypes'
    BY <1>2, <1>3, BecomesTyped DEF ScanInv
  <1>6. doubt' \subseteq doubt /\ ("report" \in doubt => "report" \in doubt')
    BY DEF ResetStatus, Undisturbed
  <1>7. RowsAreSound' /\ ScansAreSound' /\ ReportIsOnRecord' /\ ScanCounters'
    BY <1>2, <1>4, <1>6
       DEF ResetStatus, ScanInv, RowsAreSound, ScansAreSound, ReportIsOnRecord, ScanCounters
  <1>8. settings \in 0 .. settings
    BY DEF ScanInv, ScanCounters, MarketScanAssumption
  <1>9. FilesTyped'
    BY <1>2, <1>4, <1>8 DEF ResetStatus, NotTested, ScanInv, FilesTyped
  <1>10. RequestsAreCurrent'
    <2>1. \A u \in Threads : request'[u].step = "ask" =>
              request[u].step = "ask" /\ request'[u] = request[u] /\ doubt' = doubt
      BY <1>2, <1>4 DEF ResetStatus, Undisturbed, Busy
    <2>2. \A u \in Threads : request'[u].step \in Scanning => request'[u] = request[u]
      BY <1>2, <1>4
    <2>. QED BY <1>6, <2>1, <2>2 DEF ResetStatus, ScanInv, RequestsAreCurrent
  <1>11. OldClaimsAreExplained'
    <2>1. Pending("report") => Pending("report")'
      BY <1>1, <1>2, <1>3, WhatIsLeft, PendingKept
    <2>2. status'.claim # "CONNECTED_READ_ONLY"
      BY DEF ResetStatus, NotTested
    <2>. QED BY <1>6, <2>1, <2>2 DEF ResetStatus, ScanInv, OldClaimsAreExplained
  <1>. QED BY <1>5, <1>7, <1>9, <1>10, <1>11 DEF ScanInv, MarketScanAssumption

LEMMA UnlinkReportInv == ASSUME ScanInv, NEW t \in Threads, UnlinkReport(t) PROVE ScanInv'
  <1>1. request[t].step = "unlink"
    BY DEF UnlinkReport, At
  <1>2. request'[t] = NoRequest /\ \A u \in Threads : u # t => request'[u] = request[u]
    BY OneRequest DEF UnlinkReport, ScanInv
  <1>3. RequestTypes'
    BY NoRequestKind, BecomesTyped DEF UnlinkReport, ScanInv
  <1>4. doubt' \subseteq doubt /\ ("status" \in doubt => "status" \in doubt')
    BY DEF UnlinkReport, Undisturbed
  <1>5. RowsAreSound' /\ ScansAreSound' /\ ReportIsOnRecord' /\ ScanCounters'
    BY <1>2, <1>4, NoRequestKind
       DEF UnlinkReport, ScanInv, RowsAreSound, ScansAreSound, ReportIsOnRecord, ScanCounters
  <1>6. FilesTyped'
    BY <1>2, NoRequestKind DEF UnlinkReport, ScanInv, FilesTyped
  <1>7. RequestsAreCurrent'
    <2>1. \A u \in Threads : request'[u].step \in Scanning =>
              request[u].step \in Scanning /\ request'[u] = request[u] /\ doubt' = doubt
      BY <1>2, NoRequestKind DEF UnlinkReport, Undisturbed, Busy
    <2>2. \A u \in Threads : request'[u].step = "ask" => request'[u] = request[u]
      BY <1>2, NoRequestKind
    <2>. QED BY <1>4, <2>1, <2>2 DEF UnlinkReport, ScanInv, RequestsAreCurrent
  <1>8. OldClaimsAreExplained'
    <2>1. Pending("status") => Pending("status")'
      BY <1>1, WhatIsLeft, PendingKept DEF UnlinkReport
    <2>. QED BY <1>4, <2>1 DEF UnlinkReport, ScanInv, OldClaimsAreExplained
  <1>. QED BY <1>3, <1>5, <1>6, <1>7, <1>8 DEF ScanInv, MarketScanAssumption

(* A death leaves in doubt what the saves it cut had yet to invalidate.     *)
LEMMA CrashInv == ASSUME ScanInv, Crash PROVE ScanInv'
  <1>1. \A t \in Threads : request'[t] = NoRequest
    BY DEF Crash
  <1>2. /\ doubt \subseteq doubt' /\ doubt' \subseteq {"status", "report"}
        /\ \A claim : Pending(claim) => claim \in doubt'
    <2>1. \A s : LeftBy(s) \subseteq {"status", "report"}
      BY DEF LeftBy
    <2>2. doubt' = doubt \cup UNION {LeftBy(request[t].step) : t \in Threads}
      BY DEF Crash
    <2>3. doubt \subseteq {"status", "report"}
      BY DEF ScanInv, ScanCounters
    <2>. QED BY <2>1, <2>2, <2>3 DEF Pending
  <1>3. RequestTypes' /\ ScanCounters'
    BY <1>1, <1>2, NoRequestKind DEF Crash, RequestTypes, ScanInv, ScanCounters, files
  <1>4. RowsAreSound' /\ ScansAreSound' /\ ReportIsOnRecord'
    BY <1>1, NoRequestKind
       DEF Crash, files, ScanInv, RowsAreSound, ScansAreSound, ReportIsOnRecord
  <1>5. FilesTyped'
    BY <1>1, NoRequestKind DEF Crash, files, ScanInv, FilesTyped
  <1>6. RequestsAreCurrent'
    BY <1>1, NoRequestKind DEF RequestsAreCurrent
  <1>7. OldClaimsAreExplained'
    BY <1>2 DEF Crash, files, ScanInv, OldClaimsAreExplained
  <1>. QED BY <1>3, <1>4, <1>5, <1>6, <1>7 DEF ScanInv, MarketScanAssumption

-----------------------------------------------------------------------------
LEMMA ScanInitInv == MarketScanAssumption /\ ScanInit => ScanInv
  <1> SUFFICES ASSUME MarketScanAssumption, ScanInit PROVE ScanInv
    OBVIOUS
  <1>1. /\ Len(Closes) \in Nat /\ MaxSaves \in Nat /\ MaxScans \in Nat
    BY DEF MarketScanAssumption
  <1>2. ScanCounters /\ RequestTypes
    <2>1. ScanCounters
      <3>1. 0 \in 0 .. Len(Closes) /\ 0 \in 0 .. MaxSaves /\ 0 \in 0 .. MaxScans
        BY <1>1
      <3>. QED BY <3>1 DEF ScanInit, ScanCounters
    <2>2. RequestTypes
      BY NoRequestKind DEF ScanInit, RequestTypes
    <2>. QED BY <2>1, <2>2
  <1>3. FilesTyped
    BY NoRequestKind DEF ScanInit, FilesTyped
  <1>4. RowsAreSound /\ ScansAreSound /\ ReportIsOnRecord
    BY NoRequestKind DEF ScanInit, RowsAreSound, Keyed, ScansAreSound, ReportIsOnRecord
  <1>5. RequestsAreCurrent /\ OldClaimsAreExplained
    BY NoRequestKind DEF ScanInit, RequestsAreCurrent, OldClaimsAreExplained
  <1>. QED BY <1>2, <1>3, <1>4, <1>5 DEF ScanInv

LEMMA ScanNextInv == ScanInv /\ [ScanNext]_scanVars => ScanInv'
  <1> SUFFICES ASSUME ScanInv, [ScanNext]_scanVars PROVE ScanInv'
    OBVIOUS
  <1>1. CASE CompleteBar
    BY <1>1, CompleteBarInv
  <1>2. CASE Crash
    BY <1>2, CrashInv
  <1>3. ASSUME NEW t \in Threads, BeginScan(t) \/ ScanStep(t) \/ ScanFails(t)
        PROVE  ScanInv'
    BY <1>3, BeginScanInv, AcquireInv, SupersedeInv, DropIndexInv, CreateIndexInv,
       SelectPriorInv, RecordInv, PublishInv, ScanFailsInv DEF ScanStep
  <1>4. ASSUME NEW t \in Threads,
               BeginProbe(t) \/ EndProbe(t) \/ ProbeFails(t)
        PROVE  ScanInv'
    BY <1>4, BeginProbeInv, EndProbeInv, ProbeFailsInv
  <1>5. ASSUME NEW t \in Threads,
               \/ SaveSettings(t) \/ SaveSecrets(t)
               \/ ResetStatus(t) \/ UnlinkReport(t) \/ SaveFails(t)
        PROVE  ScanInv'
    BY <1>5, SaveSettingsInv, SaveSecretsInv, ResetStatusInv, UnlinkReportInv, SaveFailsInv
  <1>6. CASE UNCHANGED scanVars
    BY <1>6 DEF scanVars, files, ScanInv, ScanCounters, RequestTypes, FilesTyped, RowsAreSound,
                ScansAreSound, ReportIsOnRecord, RequestsAreCurrent, OldClaimsAreExplained,
                Pending, LeftBy, MarketScanAssumption
  <1>. QED BY <1>1, <1>2, <1>3, <1>4, <1>5, <1>6 DEF ScanNext

(* The inductive invariant of the scans, tests and saves.                   *)
THEOREM ScansInvariant == MarketScanAssumption /\ ScanSpec => []ScanInv
  BY ScanInitInv, ScanNextInv, PTL DEF ScanSpec

(* The files, the table and the requests hold what the code writes to them, *)
(* for any watchlist history and any number of threads.                     *)
THEOREM ScanTypesCorrect == MarketScanAssumption /\ ScanSpec => []ScanTypeOK
  <1>1. ScanInv => ScanTypeOK
    <2> SUFFICES ASSUME ScanInv PROVE ScanTypeOK
      OBVIOUS
    <2>1. \A row \in history :
            /\ row.id \in 1 .. scans /\ row.at \in 1 .. bar /\ row.price = Closes[row.at]
            /\ row.measuredAt = 0 => row.measured = 0
      BY DEF ScanInv, RowsAreSound, RowIsSound
    <2>2. \A t \in Threads : request[t].step \in {"idle", "ask"} \cup Scanning \cup Saving
      BY KindsOfRequest DEF ScanInv
    <2>. QED BY <2>1, <2>2 DEF ScanInv, ScanCounters, FilesTyped, RowsAreSound, Keyed, ScanTypeOK
  <1>. QED BY <1>1, ScansInvariant, PTL

(* A claimed connection and an offered report are of the settings there     *)
(* are, unless a save of settings has yet to reset them, replaced a file    *)
(* while they were made, or failed or died before it had reset them; and a  *)
(* save that comes to its end undisturbed puts it right (save(),            *)
(* invalidate(), probe(), research()).                                      *)
THEOREM OldClaimsStayExplained == MarketScanAssumption /\ ScanSpec => []OldClaimsAreExplained
  <1>1. ScanInv => OldClaimsAreExplained
    BY DEF ScanInv
  <1>. QED BY <1>1, ScansInvariant, PTL

(* The saved report is on record and outcomes are measured forward, however *)
(* scans overlap in _update_scan_history().                                 *)
THEOREM HistoryStaysSound == MarketScanAssumption /\ ScanSpec => []HistoryIsSound
  <1>1. ScanInv => HistoryIsSound
    BY DEF ScanInv, RowsAreSound, RowIsSound, ReportIsOnRecord, HistoryIsSound
  <1>. QED BY <1>1, ScansInvariant, PTL
=============================================================================
