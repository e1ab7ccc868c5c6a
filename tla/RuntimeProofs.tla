--------------------------- MODULE RuntimeProofs ---------------------------
(***************************************************************************)
(* Proofs about ShadowRuntime, for every set of runs, plans, decisions and *)
(* instants: what a committed step promises, that alerts are journalled    *)
(* first and sent once, that a failure can be read off the durable tables, *)
(* and that runtime.db behaves as RunLedger specifies.                     *)
(*                                                                         *)
(* The argument: nothing the journal or the outbox has is ever taken back, *)
(* so what a tick has seen there is still true when it commits, or when    *)
(* another tick repeats its steps after a crash.                           *)
(***************************************************************************)
EXTENDS ShadowRuntime, TLAPS

(* The theorems about the tables the runtime writes to.                     *)
Tables == INSTANCE RunLedgerProofs
    WITH Schedule <- [r \in Runs |->
            [i \in 1 .. Len(Plan[r].jobs) |-> EvalAt[Plan[r].jobs[i]]]]
Alerts == INSTANCE AlertOutboxProofs
    WITH Workers <- {"tick"}, Keys <- AlertKeys, Allowed <- AlertKeys,
         EvalAt <- [k \in AlertKeys |-> EvalAt[k[1]]],
         Times <- Nat, MaxAttempt <- 2

-----------------------------------------------------------------------------
KeyOf(r, i) == <<Plan[r].jobs[i], Plan[r].destination>>
DeadlineOf(r, i) == EvalAt[Plan[r].jobs[i]] + Plan[r].ttl
Owed(r, i) == Plan[r].jobs[i] \in Alerting /\ Plan[r].deliver

(* The step of job i of run r is done for good at the given time.           *)
Recorded(d, at) ==
    \E row \in journal : row.decision = d /\ EvalAt[d] <= row.at /\ row.at <= at
Delivered(r, i, at) ==
    LET row == outbox[KeyOf(r, i)] IN
    row.status = "DELIVERED" /\ row.at <= DeadlineOf(r, i) /\ row.at <= at
Kept(r, i, at) ==
    Recorded(Plan[r].jobs[i], at) /\ (Owed(r, i) => Delivered(r, i, at))

(* The tick is in the middle of a dispatch of the alert.                    *)
HeldKey(k) == call["tick"].pc # "idle" /\ call["tick"].key = k

(* Job i of run r cannot be done at the given time, for the given reason.   *)
Stuck(r, i, at, error) ==
    LET k == KeyOf(r, i) IN
    /\ error = "RuntimeError" => outbox[k].status \in {"STARTED", "EXPIRED"} /\ ~HeldKey(k)
    /\ error = "ValueError" =>
        \/ \E row \in journal : row.decision = Plan[r].jobs[i] /\ row.at > at
        \/ /\ Outbox!Present(k)
           /\ outbox[k].at > at \/ outbox[k].expires # DeadlineOf(r, i)

(* HasJob of the tick t.                                                    *)
MayDo(t) ==
    /\ t.left > 0
    /\ t.index < Len(Plan[t.run].jobs)
    /\ EvalAt[Plan[t.run].jobs[t.index + 1]] <= t.at

(* What the tick t knows.                                                   *)
TickHolds(t) ==
    /\ runs[t.run].state = "RUNNING" /\ runs[t.run].lastAt <= t.at
    /\ runs[t.run].next <= t.index /\ t.index <= Len(Plan[t.run].jobs)
    /\ t.left + (t.index - runs[t.run].next) \in 1 .. MaxJobs
    /\ \A i \in runs[t.run].next + 1 .. t.index : EvalAt[Plan[t.run].jobs[i]] <= t.at
    /\ \A i \in 1 .. t.index : Kept(t.run, i, t.at)
    /\ t.pc = "failed" => t.error \in Tables!Errors
    /\ t.pc # "failed" => t.error = Tables!NoDetail
    /\ t.pc # "job" => MayDo(t)
    /\ t.pc = "alert" => Owed(t.run, t.index + 1) /\ Recorded(Plan[t.run].jobs[t.index + 1], t.at)
    /\ t.pc = "failed" => Stuck(t.run, t.index + 1, t.at, t.error)

TickInv == tick # NoTick => TickHolds(tick)

(* A dispatch underway is that of the alert the tick is at, and in time.    *)
CallInv ==
    call["tick"].pc # "idle" =>
        /\ tick # NoTick /\ tick.pc = "alert"
        /\ call["tick"].key = KeyOf(tick.run, tick.index + 1)
        /\ call["tick"].at = tick.at
        /\ tick.at <= DeadlineOf(tick.run, tick.index + 1)
        /\ call["tick"].pc = "finish" => call["tick"].status = "DELIVERED"

(* The local sink takes every alert, so that no other outcome is stored;    *)
(* and what was claimed in order to be sent was in time.                    *)
OutboxInv ==
    \A k \in AlertKeys :
        /\ outbox[k].status \in {"ABSENT", "STARTED", "DELIVERED", "EXPIRED"}
        /\ outbox[k].status \in {"STARTED", "DELIVERED"} => outbox[k].at <= outbox[k].expires

JournalInv == journal \subseteq Receipts /\ \A row \in journal : EvalAt[row.decision] <= row.at

StepsKept == \A r \in Runs : \A i \in 1 .. runs[r].next : Kept(r, i, runs[r].lastAt)

(* The last entry of a failed run says which job is stuck, and why.         *)
FailureHolds(r) ==
    LET e == audit[r][Len(audit[r])] IN
    /\ audit[r] # <<>>
    /\ runs[r].next < Len(Plan[r].jobs)
    /\ e.step = runs[r].next
    /\ Stuck(r, runs[r].next + 1, e.at, e.detail)

FailuresHold == \A r \in Runs : runs[r].state = "FAILED" => FailureHolds(r)

(* The inductive invariant.                                                 *)
IInv ==
    /\ PlanAssumption
    /\ Tables!IInv
    /\ Alerts!IInv
    /\ tick \in {NoTick} \cup Ticks
    /\ TickInv
    /\ CallInv
    /\ OutboxInv
    /\ JournalInv
    /\ JournalledBeforeAlert
    /\ StepsKept
    /\ FailuresHold

-----------------------------------------------------------------------------
(* The plans as the tables of the runtime see them.                         *)

(* The assumptions of both layers follow from the one on the plans.         *)
LEMMA LayerAssumptions ==
    ASSUME PlanAssumption
    PROVE  /\ Tables!LedgerAssumption
           /\ Alerts!TimesAssumption /\ Alerts!EvalAssumption
<1>1. ASSUME NEW r \in Runs
      PROVE  /\ Plan[r].jobs \in Seq(Decisions)
             /\ Len(Plan[r].jobs) \in Nat
             /\ \A i \in 1 .. Len(Plan[r].jobs) :
                    /\ Plan[r].jobs[i] \in Decisions
                    /\ EvalAt[Plan[r].jobs[i]] \in Nat
  BY DEF PlanAssumption
<1>2. ASSUME NEW r \in Runs
      PROVE  [i \in 1 .. Len(Plan[r].jobs) |-> EvalAt[Plan[r].jobs[i]]] \in Seq(Nat)
  BY <1>1
<1>3. Tables!LedgerAssumption
  <2> DEFINE S == [r \in Runs |-> [i \in 1 .. Len(Plan[r].jobs) |-> EvalAt[Plan[r].jobs[i]]]]
  <2>1. S \in [Runs -> Seq(Nat)]
    BY <1>2
  <2>2. ASSUME NEW r \in Runs, NEW i \in 1 .. Len(S[r]) - 1
        PROVE  S[r][i] < S[r][i + 1]
    <3>1. Len(S[r]) = Len(Plan[r].jobs)
      BY <1>1
    <3>2. i \in 1 .. Len(Plan[r].jobs) - 1 /\ i \in 1 .. Len(Plan[r].jobs)
            /\ i + 1 \in 1 .. Len(Plan[r].jobs)
      BY <1>1, <3>1
    <3>3. QED
      BY <3>2 DEF PlanAssumption
  <2>3. QED
    BY <2>1, <2>2 DEF PlanAssumption, Tables!LedgerAssumption
<1>4. Alerts!TimesAssumption /\ Alerts!EvalAssumption
  BY DEF PlanAssumption, Alerts!TimesAssumption, Alerts!EvalAssumption, AlertKeys
<1>5. QED
  BY <1>3, <1>4

(* What is known of a job of a plan.                                        *)
LEMMA JobFacts ==
    ASSUME PlanAssumption, NEW r \in Runs
    PROVE  /\ Len(Plan[r].jobs) \in Nat
           /\ Tables!Total(r) = Len(Plan[r].jobs)
           /\ Plan[r].ttl \in Nat
           /\ \A i \in 1 .. Len(Plan[r].jobs) :
                /\ Plan[r].jobs[i] \in Decisions
                /\ EvalAt[Plan[r].jobs[i]] \in Nat
                /\ KeyOf(r, i) \in AlertKeys
                /\ KeyOf(r, i)[1] = Plan[r].jobs[i]
                /\ DeadlineOf(r, i) \in Nat
                /\ DeadlineOf(r, i) >= EvalAt[Plan[r].jobs[i]]
<1>1. Len(Plan[r].jobs) \in Nat /\ Plan[r].ttl \in Nat
  BY DEF PlanAssumption
<1>2. Tables!Total(r) = Len(Plan[r].jobs)
  BY <1>1 DEF Tables!Total
<1>3. ASSUME NEW i \in 1 .. Len(Plan[r].jobs)
      PROVE  /\ Plan[r].jobs[i] \in Decisions /\ EvalAt[Plan[r].jobs[i]] \in Nat
             /\ Plan[r].destination \in Destinations
  BY <1>3 DEF PlanAssumption
<1>4. QED
  BY SMTT(20), <1>1, <1>2, <1>3 DEF KeyOf, AlertKeys, DeadlineOf

(* A job is due when its request may be evaluated.                          *)
LEMMA DueFacts ==
    ASSUME PlanAssumption, NEW r \in Runs, NEW i \in Nat, NEW at
    PROVE  Tables!IsDue(r, i, at) <=>
                i \in 1 .. Len(Plan[r].jobs) /\ EvalAt[Plan[r].jobs[i]] <= at
BY JobFacts DEF Tables!IsDue

(* A run stands within its plan.                                            *)
LEMMA RunFacts ==
    ASSUME IInv, NEW r \in Runs
    PROVE  /\ runs[r].next \in Nat /\ runs[r].lastAt \in Nat
           /\ runs[r].next <= Len(Plan[r].jobs) /\ Len(Plan[r].jobs) \in Nat
<1>1. PlanAssumption /\ Tables!TypeOK
  BY DEF IInv, Tables!IInv
<1>2. runs[r] \in Tables!Rows /\ runs[r].next <= Tables!Total(r)
  BY <1>1 DEF Tables!TypeOK
<1>3. QED
  BY <1>1, <1>2, JobFacts DEF Tables!Rows

(* A tick reports a job's error, or none.                                   *)
LEMMA TickType ==
    Ticks = [pc : {"job", "alert", "failed"}, run : Runs, at : Times,
             left : 0 .. MaxJobs, index : Nat, error : Tables!Details]
BY Zenon DEF Ticks, Tables!Details, Tables!Errors, Ledger!Errors

(* A tick has the types of its fields.                                      *)
LEMMA TickFacts ==
    ASSUME PlanAssumption, tick \in Ticks
    PROVE  /\ tick # NoTick
           /\ tick.pc \in {"job", "alert", "failed"} /\ tick.run \in Runs
           /\ tick.at \in Times /\ tick.at \in Nat
           /\ tick.left \in 0 .. MaxJobs /\ tick.left \in Nat
           /\ tick.index \in Nat /\ tick.error \in Tables!Details
<1>1. tick \in [pc : {"job", "alert", "failed"}, run : Runs, at : Times,
                 left : 0 .. MaxJobs, index : Nat, error : Tables!Details]
  BY TickType
<1>2. /\ tick.pc \in {"job", "alert", "failed"} /\ tick.run \in Runs /\ tick.at \in Times
      /\ tick.left \in 0 .. MaxJobs /\ tick.index \in Nat /\ tick.error \in Tables!Details
  BY <1>1
<1>3. Times \subseteq Nat /\ MaxJobs \in Nat
  BY DEF PlanAssumption
<1>4. NoTick.pc = "none"
  BY DEF NoTick
<1>5. tick # NoTick
  BY <1>2, <1>4
<1>6. tick.at \in Nat
  BY <1>2, <1>3
<1>7. tick.left \in Nat
  BY <1>2, <1>3
<1>8. QED
  BY <1>2, <1>5, <1>6, <1>7

-----------------------------------------------------------------------------
(* Every step is one of runtime.db, or leaves it alone.                     *)

(* A command registers, starts or pauses a run; beginning a tick shows      *)
(* nothing yet.                                                             *)
LEMMA CommandIsLedgerStep ==
    ASSUME Command
    PROVE  Tables!Next \/ UNCHANGED <<runs, audit>>
<1>1. ASSUME NEW r \in Runs, NEW at \in Times, Register(r, at)
      PROVE  Tables!Register(r, at)
  BY <1>1, Zenon
     DEF Register, Ledger!Register, Tables!Register, Ledger!Log, Tables!Log,
         Ledger!Event, Tables!Event, Ledger!Total, Tables!Total
<1>2. ASSUME NEW r \in Runs, NEW at \in Times, NEW running \in BOOLEAN,
             SetRunning(r, running, at)
      PROVE  Tables!SetRunning(r, running, at)
  BY <1>2, Zenon
     DEF SetRunning, Ledger!SetRunning, Tables!SetRunning, Ledger!Log, Tables!Log,
         Ledger!Event, Tables!Event, Ledger!States, Tables!States,
         Ledger!Terminal, Tables!Terminal
<1>3. ASSUME NEW r \in Runs, NEW at \in Times, NEW n \in 1 .. MaxJobs, TickBegin(r, at, n)
      PROVE  UNCHANGED <<runs, audit>>
  BY <1>3, Zenon DEF TickBegin
<1>4. QED
  BY <1>1, <1>2, <1>3, Zenon DEF Command, Tables!Next

(* A tick commits one error, or none, for the jobs it has done.             *)
LEMMA LedgerTick ==
    ASSUME NEW r, NEW at, NEW n, runs[r].state = "RUNNING", at >= runs[r].lastAt,
           NEW index \in runs[r].next .. Tables!Total(r), NEW error \in Tables!Details,
           \A i \in runs[r].next + 1 .. index : Tables!IsDue(r, i, at),
           index - runs[r].next <= n,
           error = Tables!NoDetail
                <=> ~(index - runs[r].next < n /\ Tables!IsDue(r, index + 1, at)),
           Tables!Commit(r, at, index, error)
    PROVE  Tables!Tick(r, at, n)
BY Zenon DEF Tables!Tick, Tables!Details, Tables!NoDetail

(* Both instances of the ledger mean the same commit.                       *)
LEMMA CommitIsCommit ==
    ASSUME NEW r, NEW at, NEW index, NEW error
    PROVE  Ledger!Commit(r, at, index, error) <=> Tables!Commit(r, at, index, error)
BY Zenon DEF Ledger!Commit, Tables!Commit, Ledger!Log, Tables!Log, Ledger!Event,
             Tables!Event, Ledger!Total, Tables!Total

(* An error is a detail of an entry, and never the empty one.               *)
LEMMA ErrorsAreDetails ==
    /\ \A e \in Tables!Errors : e \in Tables!Details /\ e # Tables!NoDetail
    /\ Tables!NoDetail \in Tables!Details
BY Zenon DEF Tables!Details, Tables!NoDetail, Tables!Errors

(* The numbers of a tick's work.                                            *)
LEMMA WorkFacts ==
    ASSUME NEW left \in Nat, NEW index \in Nat, NEW next \in Nat, next <= index
    PROVE  /\ index - next <= left + (index - next)
           /\ index - next < left + (index - next) <=> left > 0
           /\ \A i \in next + 1 .. index : i \in Nat
OBVIOUS

(* One job more done and one less to do.                                    *)
LEMMA JobDone ==
    ASSUME NEW left \in Nat, NEW index \in Nat, NEW next \in Nat, NEW total \in Nat,
           next <= index, index < total
    PROVE  /\ (left - 1) + ((index + 1) - next) = left + (index - next)
           /\ next <= index + 1 /\ index + 1 <= total
OBVIOUS

(* The end of a tick is the tick of the ledger: it stopped short only       *)
(* because a job failed.                                                    *)
LEMMA CommitIsLedgerTick ==
    ASSUME IInv, TickCommit
    PROVE  Tables!Next
<1> DEFINE r == tick.run
           n == tick.left + (tick.index - runs[r].next)
<1>1. PlanAssumption /\ tick \in Ticks /\ TickHolds(tick)
  BY DEF IInv, TickInv, TickCommit, NoTick
<1>2. /\ r \in Runs /\ tick.at \in Times /\ tick.at \in Nat /\ tick.left \in Nat
      /\ tick.index \in Nat /\ tick.error \in Tables!Details
      /\ tick.pc \in {"job", "alert", "failed"}
  BY <1>1, TickFacts
<1>3. runs[r].next \in Nat /\ runs[r].lastAt \in Nat
  BY <1>2 DEF IInv, Tables!IInv, Tables!TypeOK, Tables!Rows
<1>4. /\ runs[r].state = "RUNNING" /\ tick.at >= runs[r].lastAt
      /\ runs[r].next <= tick.index /\ tick.index <= Len(Plan[r].jobs)
      /\ n \in 1 .. MaxJobs
      /\ \A i \in runs[r].next + 1 .. tick.index : EvalAt[Plan[r].jobs[i]] <= tick.at
  BY <1>1, <1>2, <1>3 DEF TickHolds
<1>5. Tables!Total(r) = Len(Plan[r].jobs) /\ Len(Plan[r].jobs) \in Nat
  BY <1>1, <1>2, JobFacts
<1>6. tick.index \in runs[r].next .. Tables!Total(r)
  BY <1>2, <1>3, <1>4, <1>5
<1>7. \A i \in runs[r].next + 1 .. tick.index : Tables!IsDue(r, i, tick.at)
  <2> SUFFICES ASSUME NEW i \in runs[r].next + 1 .. tick.index
               PROVE  Tables!IsDue(r, i, tick.at)
    OBVIOUS
  <2>1. i \in Nat /\ i \in 1 .. Len(Plan[r].jobs)
    BY SMTT(20), <1>2, <1>3, <1>4, <1>5
  <2>2. EvalAt[Plan[r].jobs[i]] <= tick.at
    BY <1>4
  <2>3. QED
    BY <1>1, <1>2, <2>1, <2>2, DueFacts
<1>8. MayDo(tick) <=> tick.index - runs[r].next < n
                        /\ Tables!IsDue(r, tick.index + 1, tick.at)
  <2>1. tick.index + 1 \in Nat
        /\ (tick.index + 1 \in 1 .. Len(Plan[r].jobs) <=> tick.index < Len(Plan[r].jobs))
    BY <1>2, <1>5
  <2>2. Tables!IsDue(r, tick.index + 1, tick.at) <=>
            tick.index < Len(Plan[r].jobs) /\ EvalAt[Plan[r].jobs[tick.index + 1]] <= tick.at
    BY <1>1, <1>2, <2>1, DueFacts
  <2>3. QED
    BY <1>2, <1>3, <1>4, <2>2, WorkFacts DEF MayDo
<1>9. tick.error = Tables!NoDetail <=> ~MayDo(tick)
  <2>1. CASE tick.pc = "failed"
    BY <1>1, <2>1, ErrorsAreDetails DEF TickHolds
  <2>2. CASE tick.pc = "job" /\ ~HasJob
    BY <1>1, <2>2 DEF TickHolds, MayDo, HasJob, Job, Jobs
  <2>3. QED
    BY <2>1, <2>2 DEF TickCommit
<1>10. Tables!Commit(r, tick.at, tick.index, tick.error)
  BY CommitIsCommit DEF TickCommit
<1>11. tick.index - runs[r].next <= n
  BY <1>2, <1>3, <1>4, WorkFacts
<1> HIDE DEF n
<1>12. Tables!Tick(r, tick.at, n)
  BY <1>2, <1>4, <1>6, <1>7, <1>8, <1>9, <1>10, <1>11, LedgerTick
<1>13. QED
  BY <1>2, <1>4, <1>12 DEF Tables!Next

(* Every step of the runtime is a step of the ledger, or leaves it alone.   *)
LEMMA IsLedgerStep ==
    ASSUME IInv, [Next]_vars
    PROVE  [Tables!Next]_<<runs, audit>>
<1>1. CASE Command
  BY <1>1, CommandIsLedgerStep
<1>2. CASE TickStep
  BY <1>2, CommitIsLedgerTick
     DEF TickStep, RecordDecision, RefuseReceipt, ClaimAlert, SendAlert, FinishAlert
<1>3. CASE StorageError \/ Crash \/ UNCHANGED vars
  BY <1>3 DEF StorageError, Crash, vars
<1>4. QED
  BY <1>1, <1>2, <1>3 DEF Next

-----------------------------------------------------------------------------
(* Nothing the stores have is taken back.                                   *)

RowGrows(k) ==
    Outbox!Present(k) =>
        /\ outbox'[k].at = outbox[k].at /\ outbox'[k].expires = outbox[k].expires
        /\ outbox'[k].status \in {outbox[k].status, "DELIVERED"}
        /\ ~HeldKey(k) => outbox'[k].status = outbox[k].status /\ ~HeldKey(k)'

StoresGrow == journal \subseteq journal' /\ \A k \in AlertKeys : RowGrows(k)

(* A step that is done stays done, at any later time.                       *)
LEMMA KeptStays ==
    ASSUME PlanAssumption, JournalInv, Alerts!IInv, StoresGrow,
           NEW r \in Runs, NEW i \in 1 .. Len(Plan[r].jobs),
           NEW at \in Nat, NEW later \in Nat, at <= later, Kept(r, i, at)
    PROVE  Kept(r, i, later)'
<1>1. Recorded(Plan[r].jobs[i], later)'
  <2>1. PICK row \in journal : /\ row.decision = Plan[r].jobs[i]
                               /\ EvalAt[Plan[r].jobs[i]] <= row.at /\ row.at <= at
    BY DEF Kept, Recorded
  <2>2. row \in journal' /\ row.at \in Nat
    BY DEF StoresGrow, JournalInv, Receipts, PlanAssumption
  <2>3. row.at <= later
    BY <2>1, <2>2
  <2>4. QED
    BY <2>1, <2>2, <2>3 DEF Recorded
<1>2. ASSUME Delivered(r, i, at) PROVE Delivered(r, i, later)'
  <2>1. KeyOf(r, i) \in AlertKeys
    BY JobFacts
  <2>2. outbox[KeyOf(r, i)].at \in Nat
    BY <2>1 DEF Alerts!IInv, Alerts!TypeOK, Alerts!Rows
  <2>3. /\ outbox'[KeyOf(r, i)].at = outbox[KeyOf(r, i)].at
        /\ outbox'[KeyOf(r, i)].status = "DELIVERED"
    BY <1>2, <2>1 DEF Delivered, StoresGrow, RowGrows, Outbox!Present
  <2>4. outbox[KeyOf(r, i)].at <= later
    BY <1>2, <2>2 DEF Delivered
  <2>5. QED
    BY <1>2, <2>3, <2>4 DEF Delivered
<1>3. QED
  BY <1>1, <1>2 DEF Kept

(* A job that is stuck stays stuck.                                         *)
LEMMA StuckStays ==
    ASSUME PlanAssumption, StoresGrow, NEW r \in Runs, NEW i \in 1 .. Len(Plan[r].jobs),
           NEW at \in Nat, NEW error, Stuck(r, i, at, error)
    PROVE  Stuck(r, i, at, error)'
<1> DEFINE k == KeyOf(r, i)
<1>1. k \in AlertKeys /\ RowGrows(k)
  BY JobFacts DEF StoresGrow
<1>2. ASSUME error = "RuntimeError"
      PROVE  outbox'[k].status \in {"STARTED", "EXPIRED"} /\ ~HeldKey(k)'
  <2>1. outbox[k].status \in {"STARTED", "EXPIRED"} /\ ~HeldKey(k)
    BY <1>2 DEF Stuck
  <2>2. Outbox!Present(k)
    BY <2>1 DEF Outbox!Present
  <2>3. QED
    BY <1>1, <2>1, <2>2 DEF RowGrows
<1>3. ASSUME NEW row \in journal, row.decision = Plan[r].jobs[i], row.at > at
      PROVE  \E x \in journal' : x.decision = Plan[r].jobs[i] /\ x.at > at
  BY <1>3 DEF StoresGrow
<1>4. ASSUME Outbox!Present(k), outbox[k].at > at \/ outbox[k].expires # DeadlineOf(r, i)
      PROVE  /\ Outbox!Present(k)'
             /\ outbox'[k].at > at \/ outbox'[k].expires # DeadlineOf(r, i)
  <2>1. /\ outbox'[k].at = outbox[k].at /\ outbox'[k].expires = outbox[k].expires
        /\ outbox'[k].status # "ABSENT"
    BY <1>1, <1>4 DEF RowGrows, Outbox!Present
  <2>2. QED
    BY <1>4, <2>1 DEF Outbox!Present
<1>5. error = "ValueError" =>
        \/ \E row \in journal' : row.decision = Plan[r].jobs[i] /\ row.at > at
        \/ /\ Outbox!Present(k)'
           /\ outbox'[k].at > at \/ outbox'[k].expires # DeadlineOf(r, i)
  BY <1>3, <1>4 DEF Stuck
<1>6. QED
  BY <1>2, <1>5 DEF Stuck

-----------------------------------------------------------------------------
(* What the steps of a dispatch do, in terms of the job they are for.       *)

(* What a tick at an alert knows.                                           *)
LEMMA AlertFacts ==
    ASSUME IInv, NEW t \in Ticks, tick = t, t.pc = "alert"
    PROVE  /\ PlanAssumption /\ TickHolds(t) /\ MayDo(t)
           /\ t.run \in Runs /\ t.at \in Nat /\ t.left \in Nat /\ t.index \in Nat
           /\ t.index + 1 \in 1 .. Len(Plan[t.run].jobs)
           /\ Job = Plan[t.run].jobs[t.index + 1]
           /\ AlertKey = KeyOf(t.run, t.index + 1) /\ AlertKey \in AlertKeys
           /\ AlertKey[1] = Job
           /\ Expiry = DeadlineOf(t.run, t.index + 1) /\ Expiry \in Nat
           /\ EvalAt[Job] <= Expiry /\ EvalAt[Job] <= t.at
<1>1. PlanAssumption /\ TickHolds(t) /\ t # NoTick
  BY TickFacts DEF IInv, TickInv
<1>2. MayDo(t)
  BY <1>1 DEF TickHolds
<1>3. t.run \in Runs /\ t.at \in Nat /\ t.left \in Nat /\ t.index \in Nat
  BY <1>1, TickFacts
<1>4. Len(Plan[t.run].jobs) \in Nat
  BY <1>1, <1>3, JobFacts
<1>5. t.index + 1 \in 1 .. Len(Plan[t.run].jobs)
  BY <1>2, <1>3, <1>4 DEF MayDo
<1>6. /\ Job = Plan[t.run].jobs[t.index + 1]
      /\ AlertKey = KeyOf(t.run, t.index + 1)
      /\ Expiry = DeadlineOf(t.run, t.index + 1)
  BY DEF Job, Jobs, AlertKey, KeyOf, Expiry, DeadlineOf
<1>7. /\ KeyOf(t.run, t.index + 1) \in AlertKeys
      /\ KeyOf(t.run, t.index + 1)[1] = Plan[t.run].jobs[t.index + 1]
      /\ DeadlineOf(t.run, t.index + 1) \in Nat
      /\ DeadlineOf(t.run, t.index + 1) >= EvalAt[Plan[t.run].jobs[t.index + 1]]
      /\ EvalAt[Plan[t.run].jobs[t.index + 1]] \in Nat
  BY <1>1, <1>3, <1>5, JobFacts
<1>8. EvalAt[Plan[t.run].jobs[t.index + 1]] <= t.at
  BY <1>2 DEF MayDo
<1>9. QED
  BY <1>1, <1>2, <1>3, <1>5, <1>6, <1>7, <1>8

(* A key that had no row gets one.                                          *)
Opens(k, expires, at, status) ==
    /\ ~Outbox!Present(k)
    /\ outbox' = [outbox EXCEPT ![k] =
            [expires |-> expires, status |-> status,
             attempt |-> outbox[k].attempt + 1, at |-> at]]

(* The ways a claim can end.                                                *)
ClaimOpens(k, expires, at) ==
    /\ at <= expires /\ Opens(k, expires, at, "STARTED")
    /\ call' = [call EXCEPT !["tick"] =
            [pc |-> "send", key |-> k, attempt |-> outbox[k].attempt + 1, at |-> at,
             status |-> "STARTED"]]
    /\ tick' = tick
ClaimTooLate(k, expires, at) ==
    Opens(k, expires, at, "EXPIRED") /\ call' = call /\ Fail("RuntimeError")
ClaimFinds(k, expires, at) ==
    /\ UNCHANGED <<outbox, call>>
    /\ Outbox!Present(k) /\ outbox[k].expires = expires /\ outbox[k].at <= at
    /\ \/ outbox[k].status = "DELIVERED" /\ StepDone
       \/ outbox[k].status # "DELIVERED" /\ Fail("RuntimeError")
ClaimConflicts(k, expires, at) ==
    /\ UNCHANGED <<outbox, call>>
    /\ Outbox!Present(k)
    /\ outbox[k].at > at \/ outbox[k].expires # expires
    /\ Fail("ValueError")

(* The claim of a due alert ends in one of the four ways.                   *)
LEMMA ClaimAlertCases ==
    ASSUME IInv, NEW t \in Ticks, tick = t, ClaimAlert,
           NEW k \in AlertKeys, AlertKey = k, NEW expires \in Nat, Expiry = expires
    PROVE  /\ t.pc = "alert" /\ call["tick"].pc = "idle"
           /\ UNCHANGED <<runs, audit, journal>>
           /\ \/ ClaimOpens(k, expires, t.at)
              \/ ClaimTooLate(k, expires, t.at)
              \/ ClaimFinds(k, expires, t.at)
              \/ ClaimConflicts(k, expires, t.at)
<1>1. t.pc = "alert" /\ call["tick"].pc = "idle" /\ UNCHANGED <<runs, audit, journal>>
  BY DEF ClaimAlert
<1>2. /\ t.at \in Nat /\ EvalAt[k[1]] <= expires /\ EvalAt[k[1]] <= t.at
  BY <1>1, AlertFacts
<1>3. EvalAt[k[1]] \in Nat
  BY DEF IInv, PlanAssumption, AlertKeys
<1>4. Outbox!Accepts(k, expires, t.at) <=>
        (Outbox!Present(k) => outbox[k].expires = expires /\ t.at >= outbox[k].at)
  BY <1>2, <1>3 DEF Outbox!Accepts
<1>5. Outbox!Claimable(k, FALSE) <=> ~Outbox!Present(k)
  BY DEF Outbox!Claimable
<1>6. outbox[k].at \in Nat
  BY DEF IInv, Alerts!IInv, Alerts!TypeOK, Alerts!Rows
<1>7. ASSUME Outbox!ClaimToSend("tick", k, expires, t.at, FALSE), UNCHANGED tick
      PROVE  ClaimOpens(k, expires, t.at)
  BY <1>5, <1>7 DEF Outbox!ClaimToSend, Outbox!WriteClaim, ClaimOpens, Opens
<1>8. ASSUME Outbox!ClaimExpired("tick", k, expires, t.at, FALSE), Fail("RuntimeError")
      PROVE  ClaimTooLate(k, expires, t.at)
  BY <1>5, <1>8 DEF Outbox!ClaimExpired, Outbox!WriteClaim, ClaimTooLate, Opens
<1>9. ASSUME Outbox!ReturnPrior("tick", k, expires, t.at, FALSE),
             IF outbox[k].status = "DELIVERED" THEN StepDone ELSE Fail("RuntimeError")
      PROVE  ClaimFinds(k, expires, t.at)
  <2>1. Outbox!Present(k) /\ outbox[k].expires = expires /\ t.at >= outbox[k].at
    BY <1>4, <1>5, <1>9 DEF Outbox!ReturnPrior
  <2>2. UNCHANGED <<outbox, call>>
    BY <1>9 DEF Outbox!ReturnPrior, Outbox!outboxVars
  <2>3. QED
    BY <1>2, <1>6, <1>9, <2>1, <2>2 DEF ClaimFinds
<1>10. ASSUME ~Outbox!Accepts(k, expires, t.at), Fail("ValueError"), UNCHANGED <<outbox, call>>
       PROVE  ClaimConflicts(k, expires, t.at)
  BY <1>2, <1>4, <1>6, <1>10 DEF ClaimConflicts
<1>11. QED
  BY <1>1, <1>7, <1>8, <1>9, <1>10 DEF ClaimAlert

(* The only dispatcher.                                                     *)
LEMMA CallFacts ==
    ASSUME IInv
    PROVE  /\ call \in [{"tick"} -> {Alerts!Idle} \cup Alerts!Claims]
           /\ outbox \in [AlertKeys -> Alerts!Rows]
           /\ Outbox!Idle = Alerts!Idle /\ Alerts!Idle.pc = "idle"
           /\ call["tick"].pc = "idle" => call["tick"] = Alerts!Idle
           /\ call["tick"].pc # "idle" =>
                call["tick"] \in Alerts!Claims /\ call["tick"].key \in AlertKeys
BY DEF IInv, Alerts!IInv, Alerts!TypeOK, Alerts!Idle, Outbox!Idle, Alerts!Claims

(* The fields of a dispatch underway.                                       *)
LEMMA BusyFacts ==
    ASSUME IInv, NEW t \in Ticks, tick = t, call["tick"].pc # "idle"
    PROVE  /\ t.pc = "alert"
           /\ call["tick"].key = KeyOf(t.run, t.index + 1) /\ call["tick"].key \in AlertKeys
           /\ call["tick"].pc \in {"send", "finish"}
           /\ outbox[call["tick"].key].status = "STARTED"
           /\ outbox[call["tick"].key].at = t.at
           /\ t.at <= DeadlineOf(t.run, t.index + 1)
           /\ call["tick"].pc = "finish" => call["tick"].status = "DELIVERED"
<1>1. call["tick"] \in Alerts!Claims /\ call["tick"].key \in AlertKeys
  BY CallFacts
<1>2. call["tick"].pc \in {"send", "finish"}
  BY <1>1 DEF Alerts!Claims
<1>3. Alerts!ClaimIsCurrent("tick")
  BY DEF IInv, Alerts!IInv, Alerts!ClaimStaysCurrent
<1>4. QED
  BY <1>1, <1>2, <1>3 DEF IInv, CallInv, Alerts!ClaimIsCurrent

(* Every step is one of the outbox, or leaves it alone.                     *)
LEMMA IsOutboxStep ==
    ASSUME IInv, tick \in {NoTick} \cup Ticks, [Next]_vars
    PROVE  [Alerts!Next]_<<outbox, events, call, received>>
<1>1. ASSUME ClaimAlert
      PROVE  Alerts!Dispatch("tick") \/ UNCHANGED <<outbox, events, call, received>>
  <2>1. tick \in Ticks /\ tick.pc = "alert"
    BY <1>1 DEF ClaimAlert, NoTick
  <2>2. /\ AlertKey \in AlertKeys /\ Expiry \in Nat /\ tick.at \in Nat
    BY <2>1, AlertFacts
  <2>3. PICK k \in AlertKeys, expires \in Nat, at \in Nat :
            AlertKey = k /\ Expiry = expires /\ tick.at = at
    BY <2>2
  <2>4. Outbox!ClaimToSend("tick", k, expires, at, FALSE)
            => Alerts!ClaimToSend("tick", k, expires, at, FALSE)
    BY DEF Outbox!ClaimToSend, Alerts!ClaimToSend, Outbox!Accepts, Alerts!Accepts,
           Outbox!Present, Alerts!Present, Outbox!Claimable, Alerts!Claimable,
           Outbox!WriteClaim, Alerts!WriteClaim
  <2>5. Outbox!ClaimExpired("tick", k, expires, at, FALSE)
            => Alerts!ClaimExpired("tick", k, expires, at, FALSE)
    BY DEF Outbox!ClaimExpired, Alerts!ClaimExpired, Outbox!Accepts, Alerts!Accepts,
           Outbox!Present, Alerts!Present, Outbox!Claimable, Alerts!Claimable,
           Outbox!WriteClaim, Alerts!WriteClaim
  <2>6. Outbox!ReturnPrior("tick", k, expires, at, FALSE)
            => UNCHANGED <<outbox, events, call, received>>
    BY DEF Outbox!ReturnPrior, Outbox!outboxVars
  <2>7. QED
    BY <1>1, <2>3, <2>4, <2>5, <2>6 DEF ClaimAlert, Alerts!Dispatch
<1>2. ASSUME SendAlert PROVE Alerts!Send("tick")
  BY <1>2 DEF SendAlert, Outbox!Send, Alerts!Send, Outbox!Outcomes, Alerts!Outcomes,
              Outbox!durable, Alerts!durable
<1>3. ASSUME FinishAlert PROVE Alerts!Finish("tick")
  BY <1>3 DEF FinishAlert, Outbox!Finish, Alerts!Finish, Outbox!ClaimIsCurrent,
              Alerts!ClaimIsCurrent, Outbox!Idle, Alerts!Idle
<1>4. ASSUME StorageError
      PROVE  Alerts!Abandon("tick") \/ UNCHANGED <<outbox, events, call, received>>
  <2>1. /\ call' = [call EXCEPT !["tick"] = Alerts!Idle]
        /\ UNCHANGED <<outbox, events, received>>
    BY <1>4, CallFacts DEF StorageError
  <2>2. CASE call["tick"].pc = "idle"
    BY <2>1, <2>2, CallFacts
  <2>3. CASE call["tick"].pc # "idle"
    BY <2>1, <2>3 DEF Alerts!Abandon, Alerts!durable
  <2>4. QED
    BY <2>2, <2>3
<1>5. ASSUME Crash
      PROVE  Alerts!Abandon("tick") \/ UNCHANGED <<outbox, events, call, received>>
  BY <1>5 DEF Crash, Outbox!Abandon, Alerts!Abandon, Outbox!durable, Alerts!durable,
              Outbox!Idle, Alerts!Idle
<1>6. CASE Command \/ RecordDecision \/ RefuseReceipt \/ TickCommit \/ UNCHANGED vars
  BY <1>6 DEF Command, Register, SetRunning, TickBegin, RecordDecision, RefuseReceipt,
              TickCommit, vars, effectVars
<1>7. QED
  BY <1>1, <1>2, <1>3, <1>4, <1>5, <1>6 DEF Next, TickStep, Alerts!Next

-----------------------------------------------------------------------------
(* Every step only adds to the stores.                                      *)

(* Stores that only get a journal row grow.                                 *)
LEMMA SameStoresGrow ==
    ASSUME journal \subseteq journal', UNCHANGED <<outbox, call>>
    PROVE  StoresGrow
BY DEF StoresGrow, RowGrows, Outbox!Present, HeldKey

(* So do they when a key gets its first row.                                *)
LEMMA OpenGrows ==
    ASSUME IInv, NEW k \in AlertKeys, NEW expires, NEW at, NEW status,
           Opens(k, expires, at, status), journal' = journal,
           \A j \in AlertKeys : HeldKey(j)' => HeldKey(j) \/ j = k
    PROVE  StoresGrow
<1> SUFFICES ASSUME NEW j \in AlertKeys, Outbox!Present(j) PROVE RowGrows(j)
  BY DEF StoresGrow, RowGrows
<1>1. j # k
  BY DEF Opens
<1>2. outbox'[j] = outbox[j]
  BY <1>1, CallFacts DEF Opens
<1>3. ~HeldKey(j) => ~HeldKey(j)'
  BY <1>1
<1>4. QED
  BY <1>2, <1>3 DEF RowGrows

(* A claim never touches a row that is there.                               *)
LEMMA ClaimAlertGrows ==
    ASSUME IInv, ClaimAlert
    PROVE  StoresGrow
<1>1. tick \in Ticks /\ tick.pc = "alert"
  BY DEF ClaimAlert, NoTick, IInv
<1>2. AlertKey \in AlertKeys /\ Expiry \in Nat
  BY <1>1, AlertFacts
<1>3. PICK t \in Ticks, k \in AlertKeys, expires \in Nat :
        tick = t /\ AlertKey = k /\ Expiry = expires
  BY <1>1, <1>2
<1>4. /\ journal' = journal /\ call["tick"].pc = "idle"
      /\ \/ ClaimOpens(k, expires, t.at) \/ ClaimTooLate(k, expires, t.at)
         \/ ClaimFinds(k, expires, t.at) \/ ClaimConflicts(k, expires, t.at)
  BY <1>3, ClaimAlertCases
<1>5. CASE ClaimOpens(k, expires, t.at)
  <2>1. call'["tick"].key = k
    BY <1>5, CallFacts DEF ClaimOpens
  <2>2. QED
    BY <1>4, <1>5, <2>1, OpenGrows DEF ClaimOpens, HeldKey
<1>6. CASE ClaimTooLate(k, expires, t.at)
  BY <1>4, <1>6, OpenGrows DEF ClaimTooLate, HeldKey
<1>7. CASE ClaimFinds(k, expires, t.at) \/ ClaimConflicts(k, expires, t.at)
  BY <1>4, <1>7, SameStoresGrow DEF ClaimFinds, ClaimConflicts
<1>8. QED
  BY <1>4, <1>5, <1>6, <1>7

(* What a send and a finish do.                                             *)
LEMMA SendEffect ==
    ASSUME IInv, SendAlert
    PROVE  /\ call["tick"].pc = "send"
           /\ call'["tick"].pc = "finish" /\ call'["tick"].key = call["tick"].key
           /\ call'["tick"].at = call["tick"].at /\ call'["tick"].status = "DELIVERED"
           /\ UNCHANGED <<runs, audit, journal, outbox, tick>>
<1>1. PICK outcome \in Outbox!Outcomes :
        call' = [call EXCEPT !["tick"].pc = "finish", !["tick"].status = outcome]
  BY DEF SendAlert, Outbox!Send
<1>2. call["tick"].pc = "send" /\ call'["tick"].status = "DELIVERED"
      /\ UNCHANGED <<runs, audit, journal, outbox, tick>>
  BY DEF SendAlert, Outbox!Send, Outbox!durable
<1>3. call'["tick"] = [call["tick"] EXCEPT !.pc = "finish", !.status = outcome]
  BY <1>1, CallFacts
<1>4. call["tick"] \in Alerts!Claims
  BY <1>2, CallFacts
<1>5. QED
  BY <1>2, <1>3, <1>4 DEF Alerts!Claims

(* Finishing resolves the row of the alert the tick is at.                  *)
LEMMA FinishEffect ==
    ASSUME IInv, NEW t \in Ticks, tick = t, FinishAlert
    PROVE  /\ t.pc = "alert" /\ call["tick"].pc = "finish"
           /\ outbox' = [outbox EXCEPT ![KeyOf(t.run, t.index + 1)].status = "DELIVERED"]
           /\ call'["tick"].pc = "idle"
           /\ StepDone /\ UNCHANGED <<runs, audit, journal>>
<1>1. /\ t.pc = "alert" /\ call["tick"].pc = "finish"
      /\ StepDone /\ UNCHANGED <<runs, audit, journal>>
      /\ outbox' = [outbox EXCEPT ![call["tick"].key].status = call["tick"].status]
      /\ call' = [call EXCEPT !["tick"] = Outbox!Idle]
  BY DEF FinishAlert, Outbox!Finish
<1>2. call["tick"].key = KeyOf(t.run, t.index + 1) /\ call["tick"].status = "DELIVERED"
  BY <1>1, BusyFacts
<1>3. call'["tick"].pc = "idle"
  BY <1>1, CallFacts
<1>4. QED
  BY <1>1, <1>2, <1>3

(* Nothing takes a store back: not a crash, not a failing store, not a      *)
(* repeat.                                                                  *)
LEMMA StepGrows ==
    ASSUME IInv, [Next]_vars
    PROVE  StoresGrow
<1>1. CASE SendAlert
  BY <1>1, SendEffect DEF StoresGrow, RowGrows, Outbox!Present, HeldKey
<1>2. ASSUME FinishAlert PROVE StoresGrow
  <2>1. tick \in Ticks
    BY <1>2 DEF FinishAlert, NoTick, IInv
  <2>2. PICK t \in Ticks : tick = t
    BY <2>1
  <2>3. KeyOf(t.run, t.index + 1) \in AlertKeys
    BY <2>2, <1>2, AlertFacts DEF FinishAlert
  <2>4. PICK k \in AlertKeys : KeyOf(t.run, t.index + 1) = k
    BY <2>3
  <2>5. /\ outbox' = [outbox EXCEPT ![k].status = "DELIVERED"]
        /\ journal' = journal /\ call'["tick"].pc = "idle"
    BY <1>2, <2>2, <2>4, FinishEffect
  <2>6. HeldKey(k)
    BY <1>2, <2>2, <2>4, BusyFacts DEF HeldKey, FinishAlert, Outbox!Finish
  <2>7. ASSUME NEW j \in AlertKeys, j # k
        PROVE  outbox'[j] = outbox[j] /\ ~HeldKey(j)'
    BY <2>5, <2>7, CallFacts DEF HeldKey
  <2>8. /\ outbox'[k].status = "DELIVERED" /\ outbox'[k].at = outbox[k].at
        /\ outbox'[k].expires = outbox[k].expires
    <3>1. outbox[k] \in Alerts!Rows /\ outbox'[k] = [outbox[k] EXCEPT !.status = "DELIVERED"]
      BY <2>5, CallFacts
    <3>2. QED
      BY <3>1 DEF Alerts!Rows
  <2>9. ASSUME NEW j \in AlertKeys PROVE RowGrows(j)
    BY <2>6, <2>7, <2>8 DEF RowGrows
  <2>10. QED
    BY <2>5, <2>9 DEF StoresGrow
<1>3. ASSUME StorageError \/ Crash PROVE StoresGrow
  <2>1. /\ UNCHANGED <<journal, outbox>>
        /\ call'["tick"].pc = "idle" \/ UNCHANGED call
    BY <1>3, CallFacts DEF StorageError, Crash, Outbox!Abandon, Outbox!durable
  <2>2. QED
    BY <2>1 DEF StoresGrow, RowGrows, Outbox!Present, HeldKey
<1>4. CASE RecordDecision
  BY <1>4, SameStoresGrow DEF RecordDecision
<1>5. CASE Command \/ RefuseReceipt \/ TickCommit \/ UNCHANGED vars
  BY <1>5, SameStoresGrow
     DEF Command, Register, SetRunning, TickBegin, RefuseReceipt, TickCommit, vars, effectVars
<1>6. QED
  BY <1>1, <1>2, <1>3, <1>4, <1>5, ClaimAlertGrows DEF Next, TickStep

-----------------------------------------------------------------------------
(* The fields of the tick after each of its moves.                          *)

(* A tick begins at the checkpoint of its run, without an error.            *)
LEMMA BeginFields ==
    ASSUME PlanAssumption, NEW r \in Runs, NEW at \in Times, NEW n \in 1 .. MaxJobs,
           runs[r].next \in Nat, TickBegin(r, at, n)
    PROVE  /\ tick' \in Ticks /\ tick'.pc = "job" /\ tick'.run = r /\ tick'.at = at
           /\ tick'.left = n /\ tick'.index = runs[r].next /\ tick'.error = Tables!NoDetail
           /\ runs[r].state = "RUNNING" /\ at >= runs[r].lastAt
           /\ UNCHANGED <<runs, audit, journal, outbox, call>>
<1>1. tick' = [pc |-> "job", run |-> r, at |-> at, left |-> n, index |-> runs[r].next,
               error |-> Tables!NoDetail]
  BY Zenon DEF TickBegin, Tables!NoDetail
<1>2. n \in 0 .. MaxJobs
  BY DEF PlanAssumption
<1>3. tick' \in Ticks
  BY <1>1, <1>2, TickType, ErrorsAreDetails
<1>4. /\ runs[r].state = "RUNNING" /\ at >= runs[r].lastAt
      /\ UNCHANGED <<runs, audit, journal, outbox, call>>
  BY Zenon DEF TickBegin, effectVars
<1>5. QED
  BY <1>1, <1>3, <1>4

(* A job done: one further, one less to do.                                 *)
LEMMA StepDoneFields ==
    ASSUME PlanAssumption, NEW t \in Ticks, tick = t, t.left > 0, StepDone
    PROVE  /\ tick' \in Ticks /\ tick'.pc = "job" /\ tick'.run = t.run /\ tick'.at = t.at
           /\ tick'.left = t.left - 1 /\ tick'.index = t.index + 1 /\ tick'.error = t.error
<1>1. t \in [pc : {"job", "alert", "failed"}, run : Runs, at : Times,
             left : 0 .. MaxJobs, index : Nat, error : Tables!Details]
  BY TickType
<1>2. t.left - 1 \in 0 .. MaxJobs /\ t.index + 1 \in Nat
  BY <1>1 DEF PlanAssumption
<1>3. tick' = [t EXCEPT !.pc = "job", !.index = @ + 1, !.left = @ - 1]
  BY DEF StepDone
<1>4. tick' = [pc |-> "job", run |-> t.run, at |-> t.at, left |-> t.left - 1,
               index |-> t.index + 1, error |-> t.error]
  BY <1>1, <1>3
<1>5. tick' \in Ticks
  BY <1>1, <1>2, <1>4, TickType
<1>6. QED
  BY <1>4, <1>5

(* A job failed: the tick stands where it stood.                            *)
LEMMA FailFields ==
    ASSUME NEW t \in Ticks, tick = t, NEW error \in Tables!Errors, Fail(error)
    PROVE  /\ tick' \in Ticks /\ tick'.pc = "failed" /\ tick'.run = t.run /\ tick'.at = t.at
           /\ tick'.left = t.left /\ tick'.index = t.index /\ tick'.error = error
<1>1. t \in [pc : {"job", "alert", "failed"}, run : Runs, at : Times,
             left : 0 .. MaxJobs, index : Nat, error : Tables!Details]
  BY TickType
<1>2. tick' = [t EXCEPT !.pc = "failed", !.error = error]
  BY DEF Fail
<1>3. tick' = [pc |-> "failed", run |-> t.run, at |-> t.at, left |-> t.left,
               index |-> t.index, error |-> error]
  BY <1>1, <1>2
<1>4. tick' \in Ticks
  BY <1>1, <1>3, TickType, ErrorsAreDetails
<1>5. QED
  BY <1>3, <1>4

(* A decision recorded whose alert is owed.                                 *)
LEMMA AlertFields ==
    ASSUME NEW t \in Ticks, tick' = [t EXCEPT !.pc = "alert"]
    PROVE  /\ tick' \in Ticks /\ tick'.pc = "alert" /\ tick'.run = t.run /\ tick'.at = t.at
           /\ tick'.left = t.left /\ tick'.index = t.index /\ tick'.error = t.error
<1>1. t \in [pc : {"job", "alert", "failed"}, run : Runs, at : Times,
             left : 0 .. MaxJobs, index : Nat, error : Tables!Details]
  BY TickType
<1>2. tick' = [pc |-> "alert", run |-> t.run, at |-> t.at, left |-> t.left,
               index |-> t.index, error |-> t.error]
  BY <1>1
<1>3. tick' \in Ticks
  BY <1>1, <1>2, TickType
<1>4. QED
  BY <1>2, <1>3

(* The exception classes a tick stores.                                     *)
LEMMA ErrorNames ==
    "RuntimeError" \in Tables!Errors /\ "ValueError" \in Tables!Errors
        /\ "OSError" \in Tables!Errors
BY DEF Tables!Errors

(* What a tick knows is still true after a step of its own.                 *)
LEMMA TickCarries ==
    ASSUME IInv, StoresGrow, NEW t \in Ticks, NEW u \in Ticks, tick = t, runs' = runs,
           u.run = t.run, u.at = t.at,
           \/ u.index = t.index /\ u.left = t.left
           \/ /\ u.index = t.index + 1 /\ u.left = t.left - 1
              /\ MayDo(t) /\ Kept(t.run, t.index + 1, t.at)',
           u.pc = "failed" => /\ u.error \in Tables!Errors
                              /\ Stuck(t.run, t.index + 1, t.at, u.error)',
           u.pc # "failed" => u.error = Tables!NoDetail,
           u.pc # "job" => MayDo(t) /\ u.index = t.index /\ u.left = t.left,
           u.pc = "alert" => /\ Owed(t.run, t.index + 1)
                             /\ Recorded(Plan[t.run].jobs[t.index + 1], t.at)'
    PROVE  TickHolds(u)'
<1>1. /\ PlanAssumption /\ JournalInv /\ Alerts!IInv /\ TickHolds(t)
      /\ t.run \in Runs /\ t.at \in Nat /\ t.left \in Nat /\ t.index \in Nat
  BY TickFacts DEF IInv, TickInv
<1>2. runs[t.run].next \in Nat /\ runs[t.run].lastAt \in Nat
      /\ Len(Plan[t.run].jobs) \in Nat
  BY <1>1, JobFacts DEF IInv, Tables!IInv, Tables!TypeOK, Tables!Rows
<1>3. /\ runs[t.run].state = "RUNNING" /\ runs[t.run].lastAt <= t.at
      /\ runs[t.run].next <= t.index /\ t.index <= Len(Plan[t.run].jobs)
      /\ t.left + (t.index - runs[t.run].next) \in 1 .. MaxJobs
      /\ \A i \in runs[t.run].next + 1 .. t.index : EvalAt[Plan[t.run].jobs[i]] <= t.at
      /\ \A i \in 1 .. t.index : Kept(t.run, i, t.at)
  BY <1>1 DEF TickHolds
<1>4. \A i \in 1 .. t.index : Kept(t.run, i, t.at)'
  <2> SUFFICES ASSUME NEW i \in 1 .. t.index PROVE Kept(t.run, i, t.at)'
    OBVIOUS
  <2>1. i \in 1 .. Len(Plan[t.run].jobs) /\ t.at <= t.at
    BY <1>1, <1>2, <1>3
  <2>2. Kept(t.run, i, t.at)
    BY <1>3
  <2>3. QED
    BY <1>1, <2>1, <2>2, KeptStays
<1>5. MayDo(t) => /\ t.left > 0 /\ t.index < Len(Plan[t.run].jobs)
                  /\ EvalAt[Plan[t.run].jobs[t.index + 1]] <= t.at
  BY DEF MayDo
<1>6. /\ runs'[u.run].state = "RUNNING" /\ runs'[u.run].lastAt <= u.at
      /\ runs'[u.run].next <= u.index /\ u.index <= Len(Plan[u.run].jobs)
      /\ u.left + (u.index - runs'[u.run].next) \in 1 .. MaxJobs
  <2>1. runs'[u.run] = runs[t.run] /\ MaxJobs \in Nat
    BY <1>1 DEF PlanAssumption
  <2>2. CASE u.index = t.index /\ u.left = t.left
    BY <1>3, <2>1, <2>2
  <2>3. CASE u.index = t.index + 1 /\ u.left = t.left - 1 /\ MayDo(t)
    <3>1. PICK left \in Nat, index \in Nat, next \in Nat, total \in Nat :
            /\ t.left = left /\ t.index = index
            /\ runs[t.run].next = next /\ Len(Plan[t.run].jobs) = total
      BY <1>1, <1>2
    <3>2. next <= index /\ index < total
      BY <1>3, <1>5, <2>3, <3>1
    <3>3. /\ (left - 1) + ((index + 1) - next) = left + (index - next)
          /\ next <= index + 1 /\ index + 1 <= total
      BY <3>2, JobDone
    <3>4. left + (index - next) \in 1 .. MaxJobs
      BY <1>3, <3>1
    <3>5. QED
      BY <1>3, <2>1, <2>3, <3>1, <3>3, <3>4
  <2>4. QED
    BY <2>2, <2>3
<1>7. \A i \in runs'[u.run].next + 1 .. u.index : EvalAt[Plan[u.run].jobs[i]] <= u.at
  <2> SUFFICES ASSUME NEW i \in runs[t.run].next + 1 .. u.index
               PROVE  EvalAt[Plan[t.run].jobs[i]] <= t.at
    OBVIOUS
  <2>1. CASE i \in runs[t.run].next + 1 .. t.index
    BY <1>3, <2>1
  <2>2. CASE i = t.index + 1 /\ MayDo(t)
    BY <1>5, <2>2
  <2>3. i \in runs[t.run].next + 1 .. t.index \/ (i = t.index + 1 /\ MayDo(t))
    BY <1>1, <1>2
  <2>4. QED
    BY <2>1, <2>2, <2>3
<1>8. \A i \in 1 .. u.index : Kept(u.run, i, u.at)'
  <2> SUFFICES ASSUME NEW i \in 1 .. u.index PROVE Kept(t.run, i, t.at)'
    OBVIOUS
  <2>1. i \in 1 .. t.index \/ (i = t.index + 1 /\ Kept(t.run, t.index + 1, t.at)')
    BY <1>1
  <2>2. QED
    BY <1>4, <2>1
<1>9. u.pc # "job" => MayDo(u)
  BY <1>5 DEF MayDo
<1>10. u.pc = "alert" => /\ Owed(u.run, u.index + 1)
                         /\ Recorded(Plan[u.run].jobs[u.index + 1], u.at)'
  OBVIOUS
<1>11. u.pc = "failed" => Stuck(u.run, u.index + 1, u.at, u.error)'
  OBVIOUS
<1>12. QED
  BY <1>6, <1>7, <1>8, <1>9, <1>10, <1>11 DEF TickHolds, MayDo

-----------------------------------------------------------------------------
(* One lemma per step: the tick goes on with what it knows.                 *)

(* A tick that is over has nothing to know.                                 *)
LEMMA TickEnds ==
    ASSUME tick' = NoTick
    PROVE  tick' \in {NoTick} \cup Ticks /\ TickInv'
BY DEF TickInv

(* A tick keeps the invariant by knowing what it must.                      *)
LEMMA TickMovesOn ==
    ASSUME NEW u \in Ticks, tick' = u, TickHolds(u)'
    PROVE  tick' \in {NoTick} \cup Ticks /\ TickInv'
BY DEF TickInv, TickHolds

(* A tick that begins knows that the committed steps are done.              *)
LEMMA BeginTick ==
    ASSUME IInv, StoresGrow, NEW r \in Runs, NEW at \in Times, NEW n \in 1 .. MaxJobs,
           TickBegin(r, at, n)
    PROVE  tick' \in {NoTick} \cup Ticks /\ TickInv'
<1>0. PlanAssumption /\ JournalInv /\ Alerts!IInv /\ n \in Nat
  <2>1. PlanAssumption /\ JournalInv /\ Alerts!IInv
    BY DEF IInv
  <2>2. MaxJobs \in Nat
    BY <2>1 DEF PlanAssumption
  <2>3. n \in Nat
    BY <2>2
  <2>4. QED
    BY <2>1, <2>3
<1>1. /\ at \in Nat
      /\ runs[r].next \in Nat /\ runs[r].lastAt \in Nat
      /\ runs[r].next <= Len(Plan[r].jobs) /\ Len(Plan[r].jobs) \in Nat
  BY <1>0, RunFacts DEF PlanAssumption
<1>2. /\ tick' \in Ticks /\ tick'.pc = "job" /\ tick'.run = r /\ tick'.at = at
      /\ tick'.left = n /\ tick'.index = runs[r].next /\ tick'.error = Tables!NoDetail
      /\ runs[r].state = "RUNNING" /\ at >= runs[r].lastAt /\ runs' = runs
  BY <1>0, <1>1, BeginFields
<1>3. PICK u \in Ticks, next \in Nat, last \in Nat :
        tick' = u /\ runs[r].next = next /\ runs[r].lastAt = last
  BY <1>1, <1>2
<1>4. /\ u.pc = "job" /\ u.run = r /\ u.at = at /\ u.left = n /\ u.index = next
      /\ u.error = Tables!NoDetail
  BY <1>2, <1>3
<1>5. \A i \in 1 .. next : Kept(r, i, at)'
  <2> SUFFICES ASSUME NEW i \in 1 .. next PROVE Kept(r, i, at)'
    OBVIOUS
  <2>1. Kept(r, i, last)
    BY <1>3 DEF IInv, StepsKept
  <2>2. i \in 1 .. Len(Plan[r].jobs) /\ last <= at
    BY <1>1, <1>2, <1>3
  <2>3. QED
    BY <1>0, <1>1, <2>1, <2>2, KeptStays
<1>6. n + (next - next) \in 1 .. MaxJobs /\ next + 1 .. next = {}
  BY <1>0, <1>1
<1>7. /\ runs'[r].state = "RUNNING" /\ runs'[r].lastAt <= at
      /\ runs'[r].next <= next /\ next <= Len(Plan[r].jobs)
      /\ n + (next - runs'[r].next) \in 1 .. MaxJobs
      /\ \A i \in runs'[r].next + 1 .. next : EvalAt[Plan[r].jobs[i]] <= at
  BY <1>1, <1>2, <1>3, <1>6
<1>8. TickHolds(u)'
  BY <1>4, <1>5, <1>7 DEF TickHolds
<1>9. QED
  BY <1>3, <1>8, TickMovesOn

(* A decision that is in the journal by now is recorded.                    *)
LEMMA RecordDecisionTick ==
    ASSUME IInv, StoresGrow, NEW t \in Ticks, tick = t, RecordDecision
    PROVE  tick' \in {NoTick} \cup Ticks /\ TickInv'
<1>1. PlanAssumption /\ t.run \in Runs /\ t.at \in Nat /\ t.at \in Times /\ t.index \in Nat
      /\ t.left \in Nat /\ TickHolds(t)
  BY TickFacts DEF IInv, TickInv
<1>2. /\ t.pc = "job" /\ MayDo(t) /\ runs' = runs /\ Job = Plan[t.run].jobs[t.index + 1]
  BY DEF RecordDecision, HasJob, MayDo, Job, Jobs
<1>3. t.error = Tables!NoDetail /\ t.left > 0
  BY <1>1, <1>2 DEF TickHolds, MayDo
<1>4. t.index + 1 \in 1 .. Len(Plan[t.run].jobs)
  BY <1>1, <1>2, JobFacts DEF MayDo
<1>5. PICK d \in Decisions : Plan[t.run].jobs[t.index + 1] = d
  BY <1>1, <1>4, JobFacts
<1>6. EvalAt[d] \in Nat /\ EvalAt[d] <= t.at
  BY <1>1, <1>2, <1>4, <1>5, JobFacts DEF MayDo
<1>7. Recorded(d, t.at)'
  <2>1. CASE \E row \in journal : row.decision = d
    <3>1. PICK row \in journal : row.decision = d
      BY <2>1
    <3>2. row.at <= t.at /\ row \in journal'
      BY <1>2, <1>5, <3>1 DEF RecordDecision, JournalAccepts
    <3>3. EvalAt[d] <= row.at
      BY <3>1 DEF IInv, JournalInv
    <3>4. QED
      BY <3>1, <3>2, <3>3 DEF Recorded
  <2>2. CASE ~\E row \in journal : row.decision = d
    <3> DEFINE row == [decision |-> d, at |-> t.at]
    <3>1. row \in journal'
      BY <1>2, <1>5, <2>2 DEF RecordDecision
    <3>2. row.decision = d /\ row.at = t.at
      OBVIOUS
    <3>3. EvalAt[d] <= row.at /\ row.at <= t.at
      BY <1>1, <1>6, <3>2
    <3> HIDE DEF row
    <3>4. QED
      BY <3>1, <3>2, <3>3 DEF Recorded
  <2>3. QED
    BY <2>1, <2>2
<1>8. CASE Owed(t.run, t.index + 1)
  <2>1. tick' = [t EXCEPT !.pc = "alert"]
    BY <1>2, <1>8 DEF RecordDecision, Owed
  <2>2. PICK u \in Ticks : tick' = u
    BY <2>1, AlertFields
  <2>3. /\ u.pc = "alert" /\ u.run = t.run /\ u.at = t.at
        /\ u.left = t.left /\ u.index = t.index /\ u.error = t.error
    BY <2>1, <2>2, AlertFields
  <2>4. TickHolds(u)'
    BY <1>2, <1>3, <1>5, <1>7, <1>8, <2>3, TickCarries
  <2>5. QED
    BY <2>2, <2>4, TickMovesOn
<1>9. CASE ~Owed(t.run, t.index + 1)
  <2>1. StepDone
    BY <1>2, <1>9 DEF RecordDecision, Owed
  <2>2. PICK u \in Ticks : tick' = u
    BY <1>1, <1>3, <2>1, StepDoneFields
  <2>3. /\ u.pc = "job" /\ u.run = t.run /\ u.at = t.at
        /\ u.left = t.left - 1 /\ u.index = t.index + 1 /\ u.error = t.error
    BY <1>1, <1>3, <2>1, <2>2, StepDoneFields
  <2>4. Kept(t.run, t.index + 1, t.at)'
    BY <1>5, <1>7, <1>9 DEF Kept, Owed
  <2>5. TickHolds(u)'
    BY <1>2, <1>3, <2>3, <2>4, TickCarries
  <2>6. QED
    BY <2>2, <2>5, TickMovesOn
<1>10. QED
  BY <1>8, <1>9

(* A tick that gives up knows why.                                          *)
LEMMA FailTick ==
    ASSUME IInv, StoresGrow, NEW t \in Ticks, tick = t, NEW error \in Tables!Errors,
           MayDo(t), Stuck(t.run, t.index + 1, t.at, error)', Fail(error), runs' = runs
    PROVE  tick' \in {NoTick} \cup Ticks /\ TickInv'
<1>1. PICK u \in Ticks : tick' = u
  BY FailFields
<1>2. /\ u.pc = "failed" /\ u.run = t.run /\ u.at = t.at
      /\ u.left = t.left /\ u.index = t.index /\ u.error = error
  BY <1>1, FailFields
<1>3. TickHolds(u)'
  BY <1>2, TickCarries
<1>4. QED
  BY <1>1, <1>3, TickMovesOn

(* A receipt is refused for a later one that is in the journal.             *)
LEMMA RefuseReceiptTick ==
    ASSUME IInv, StoresGrow, NEW t \in Ticks, tick = t, RefuseReceipt
    PROVE  tick' \in {NoTick} \cup Ticks /\ TickInv'
<1>1. /\ MayDo(t) /\ runs' = runs /\ journal' = journal /\ Fail("ValueError")
      /\ Job = Plan[t.run].jobs[t.index + 1] /\ ~JournalAccepts(Job, t.at)
  BY DEF RefuseReceipt, HasJob, MayDo, Job, Jobs, effectVars
<1>2. PlanAssumption /\ t.run \in Runs /\ t.at \in Nat
  BY TickFacts DEF IInv
<1>3. PICK row \in journal : row.decision = Plan[t.run].jobs[t.index + 1] /\ ~(row.at <= t.at)
  BY <1>1 DEF JournalAccepts
<1>4. row.at \in Nat
  BY <1>2 DEF IInv, JournalInv, Receipts, PlanAssumption
<1>5. row.at > t.at
  BY <1>2, <1>3, <1>4
<1>6. Stuck(t.run, t.index + 1, t.at, "ValueError")'
  BY <1>1, <1>3, <1>5 DEF Stuck
<1>7. QED
  BY <1>1, <1>6, ErrorNames, FailTick

(* A claim sends, or finds the alert delivered, or knows what is in the     *)
(* way.                                                                     *)
LEMMA ClaimAlertTick ==
    ASSUME IInv, StoresGrow, NEW t \in Ticks, tick = t, ClaimAlert
    PROVE  tick' \in {NoTick} \cup Ticks /\ TickInv'
<1>1. t.pc = "alert"
  BY DEF ClaimAlert
<1>2. /\ PlanAssumption /\ TickHolds(t) /\ MayDo(t)
      /\ t.run \in Runs /\ t.at \in Nat /\ t.index + 1 \in 1 .. Len(Plan[t.run].jobs)
      /\ AlertKey = KeyOf(t.run, t.index + 1) /\ AlertKey \in AlertKeys
      /\ Expiry = DeadlineOf(t.run, t.index + 1) /\ Expiry \in Nat
  BY <1>1, AlertFacts
<1>3. PICK k \in AlertKeys, expires \in Nat :
        /\ AlertKey = k /\ KeyOf(t.run, t.index + 1) = k
        /\ Expiry = expires /\ DeadlineOf(t.run, t.index + 1) = expires
  BY <1>2
<1>4. /\ call["tick"].pc = "idle" /\ runs' = runs
      /\ \/ ClaimOpens(k, expires, t.at) \/ ClaimTooLate(k, expires, t.at)
         \/ ClaimFinds(k, expires, t.at) \/ ClaimConflicts(k, expires, t.at)
  BY <1>3, ClaimAlertCases
<1>5. /\ Owed(t.run, t.index + 1)
      /\ Recorded(Plan[t.run].jobs[t.index + 1], t.at)
      /\ t.error = Tables!NoDetail
  BY <1>1, <1>2 DEF TickHolds
<1>6. Recorded(Plan[t.run].jobs[t.index + 1], t.at)'
  BY <1>5 DEF Recorded, StoresGrow
<1>7. CASE ClaimOpens(k, expires, t.at)
  <2>1. tick' = t
    BY <1>7 DEF ClaimOpens
  <2>2. TickHolds(t)'
    BY <1>1, <1>2, <1>4, <1>5, <1>6, TickCarries
  <2>3. QED
    BY <2>1, <2>2, TickMovesOn
<1>8. CASE ClaimTooLate(k, expires, t.at)
  <2>1. outbox'[k].status = "EXPIRED" /\ call' = call /\ Fail("RuntimeError")
    BY <1>8, CallFacts DEF ClaimTooLate, Opens
  <2>2. Stuck(t.run, t.index + 1, t.at, "RuntimeError")'
    BY <1>3, <1>4, <2>1 DEF Stuck, HeldKey
  <2>3. QED
    BY <1>2, <1>4, <2>1, <2>2, ErrorNames, FailTick
<1>9. CASE ClaimFinds(k, expires, t.at)
  <2>1. /\ UNCHANGED <<outbox, call>>
        /\ outbox[k].expires = expires /\ outbox[k].at <= t.at
        /\ outbox[k].status # "ABSENT"
    BY <1>9 DEF ClaimFinds, Outbox!Present
  <2>2. /\ outbox[k].status \in {"ABSENT", "STARTED", "DELIVERED", "EXPIRED"}
        /\ outbox[k].status \in {"STARTED", "DELIVERED"} => outbox[k].at <= outbox[k].expires
    BY DEF IInv, OutboxInv
  <2>3. CASE outbox[k].status = "DELIVERED"
    <3>1. StepDone
      BY <1>9, <2>3 DEF ClaimFinds
    <3>2. Delivered(t.run, t.index + 1, t.at)'
      BY <1>3, <2>1, <2>2, <2>3 DEF Delivered
    <3>3. Kept(t.run, t.index + 1, t.at)'
      BY <1>6, <3>2 DEF Kept
    <3>4. t.left > 0
      BY <1>2 DEF MayDo
    <3>5. PICK u \in Ticks : tick' = u
      BY <1>2, <3>1, <3>4, StepDoneFields
    <3>6. /\ u.pc = "job" /\ u.run = t.run /\ u.at = t.at
          /\ u.left = t.left - 1 /\ u.index = t.index + 1 /\ u.error = t.error
      BY <1>2, <3>1, <3>4, <3>5, StepDoneFields
    <3>7. TickHolds(u)'
      BY <1>2, <1>4, <1>5, <3>3, <3>6, TickCarries
    <3>8. QED
      BY <3>5, <3>7, TickMovesOn
  <2>4. CASE outbox[k].status # "DELIVERED"
    <3>1. Fail("RuntimeError")
      BY <1>9, <2>4 DEF ClaimFinds
    <3>2. Stuck(t.run, t.index + 1, t.at, "RuntimeError")'
      BY <1>3, <1>4, <2>1, <2>2, <2>4 DEF Stuck, HeldKey
    <3>3. QED
      BY <1>2, <1>4, <3>1, <3>2, ErrorNames, FailTick
  <2>5. QED
    BY <2>3, <2>4
<1>10. CASE ClaimConflicts(k, expires, t.at)
  <2>1. /\ UNCHANGED <<outbox, call>> /\ Outbox!Present(k) /\ Fail("ValueError")
        /\ outbox[k].at > t.at \/ outbox[k].expires # expires
    BY <1>10 DEF ClaimConflicts
  <2>2. Stuck(t.run, t.index + 1, t.at, "ValueError")'
    BY <1>3, <2>1 DEF Stuck, Outbox!Present
  <2>3. QED
    BY <1>2, <1>4, <2>1, <2>2, ErrorNames, FailTick
<1>11. QED
  BY <1>4, <1>7, <1>8, <1>9, <1>10

(* The send leaves the tick where it is.                                    *)
LEMMA SendAlertTick ==
    ASSUME IInv, StoresGrow, NEW t \in Ticks, tick = t, SendAlert
    PROVE  tick' \in {NoTick} \cup Ticks /\ TickInv'
<1>1. t.pc = "alert" /\ tick' = t /\ runs' = runs
  BY DEF SendAlert
<1>2. /\ Owed(t.run, t.index + 1) /\ MayDo(t) /\ t.error = Tables!NoDetail
      /\ Recorded(Plan[t.run].jobs[t.index + 1], t.at)
  BY <1>1, AlertFacts DEF TickHolds
<1>3. Recorded(Plan[t.run].jobs[t.index + 1], t.at)'
  BY <1>2 DEF Recorded, StoresGrow
<1>4. TickHolds(t)'
  BY <1>1, <1>2, <1>3, TickCarries
<1>5. QED
  BY <1>1, <1>4, TickMovesOn

(* The alert was claimed in time, and is delivered now.                     *)
LEMMA FinishAlertTick ==
    ASSUME IInv, StoresGrow, NEW t \in Ticks, tick = t, FinishAlert
    PROVE  tick' \in {NoTick} \cup Ticks /\ TickInv'
<1>1. /\ t.pc = "alert" /\ call["tick"].pc = "finish" /\ StepDone /\ runs' = runs
      /\ outbox' = [outbox EXCEPT ![KeyOf(t.run, t.index + 1)].status = "DELIVERED"]
  BY FinishEffect
<1>2. /\ Owed(t.run, t.index + 1) /\ MayDo(t) /\ t.error = Tables!NoDetail
      /\ Recorded(Plan[t.run].jobs[t.index + 1], t.at)
  BY <1>1, AlertFacts DEF TickHolds
<1>3. PlanAssumption /\ t.run \in Runs /\ t.at \in Nat
  BY <1>1, AlertFacts
<1>4. PICK k \in AlertKeys : KeyOf(t.run, t.index + 1) = k /\ AlertKey = k
  BY <1>1, AlertFacts
<1>5. outbox[k].at = t.at /\ t.at <= DeadlineOf(t.run, t.index + 1)
  BY <1>1, <1>4, BusyFacts
<1>6. outbox'[k].status = "DELIVERED" /\ outbox'[k].at = t.at
  <2>1. outbox[k] \in Alerts!Rows /\ outbox'[k] = [outbox[k] EXCEPT !.status = "DELIVERED"]
    BY <1>1, <1>4, CallFacts
  <2>2. QED
    BY <1>5, <2>1 DEF Alerts!Rows
<1>7. Delivered(t.run, t.index + 1, t.at)'
  BY <1>3, <1>4, <1>5, <1>6 DEF Delivered
<1>8. Kept(t.run, t.index + 1, t.at)'
  BY <1>2, <1>7 DEF Kept, Recorded, StoresGrow
<1>9. t.left > 0
  BY <1>2 DEF MayDo
<1>10. PICK u \in Ticks : tick' = u
  BY <1>1, <1>3, <1>9, StepDoneFields
<1>11. /\ u.pc = "job" /\ u.run = t.run /\ u.at = t.at
       /\ u.left = t.left - 1 /\ u.index = t.index + 1 /\ u.error = t.error
  BY <1>1, <1>3, <1>9, <1>10, StepDoneFields
<1>12. TickHolds(u)'
  BY <1>1, <1>2, <1>8, <1>11, TickCarries
<1>13. QED
  BY <1>10, <1>12, TickMovesOn

(* A failing store is its own reason.                                       *)
LEMMA StorageErrorTick ==
    ASSUME IInv, StoresGrow, NEW t \in Ticks, tick = t, StorageError
    PROVE  tick' \in {NoTick} \cup Ticks /\ TickInv'
<1>1. Fail("OSError") /\ runs' = runs
  BY DEF StorageError
<1>2. MayDo(t)
  <2>1. CASE t.pc = "job" /\ HasJob
    BY <2>1 DEF HasJob, MayDo, Job, Jobs
  <2>2. CASE t.pc = "alert"
    BY <2>2, AlertFacts
  <2>3. QED
    BY <2>1, <2>2 DEF StorageError
<1>3. Stuck(t.run, t.index + 1, t.at, "OSError")'
  BY DEF Stuck
<1>4. QED
  BY <1>1, <1>2, <1>3, ErrorNames, FailTick

(* Whatever happens, a tick knows what it must know to commit.              *)
LEMMA StepTick ==
    ASSUME IInv, StoresGrow, [Next]_vars
    PROVE  tick' \in {NoTick} \cup Ticks /\ TickInv'
<1>1. ASSUME UNCHANGED <<tick, runs, journal, outbox, call>>
      PROVE  tick' \in {NoTick} \cup Ticks /\ TickInv'
  BY <1>1 DEF IInv, TickInv, TickHolds, Kept, Recorded, Delivered, Stuck, MayDo, HeldKey,
              Outbox!Present
<1>2. ASSUME Command PROVE tick' \in {NoTick} \cup Ticks /\ TickInv'
  <2>1. ASSUME NEW r \in Runs, NEW at \in Times,
               Register(r, at) \/ \E running \in BOOLEAN : SetRunning(r, running, at)
        PROVE  tick' = NoTick
    BY <2>1 DEF Register, SetRunning
  <2>2. QED
    BY <1>2, <2>1, TickEnds, BeginTick DEF Command
<1>3. ASSUME tick = NoTick PROVE ~TickStep /\ ~StorageError
  BY <1>3 DEF NoTick, TickStep, RecordDecision, RefuseReceipt, ClaimAlert, SendAlert,
              FinishAlert, TickCommit, StorageError
<1>4. ASSUME TickStep \/ StorageError PROVE tick' \in {NoTick} \cup Ticks /\ TickInv'
  <2>1. PICK t \in Ticks : tick = t
    BY <1>3, <1>4 DEF IInv
  <2>2. QED
    BY <1>4, <2>1, TickEnds, RecordDecisionTick, RefuseReceiptTick, ClaimAlertTick,
       SendAlertTick, FinishAlertTick, StorageErrorTick
       DEF TickStep, TickCommit
<1>5. CASE Crash
  BY <1>5, TickEnds DEF Crash
<1>6. CASE UNCHANGED vars
  BY <1>1, <1>6 DEF vars
<1>7. QED
  BY <1>2, <1>4, <1>5, <1>6 DEF Next

-----------------------------------------------------------------------------
(* The rest of the invariant, one part at a time.                           *)

(* No tick, no dispatch: only a tick at an alert can be in one.             *)
LEMMA NoCallFacts ==
    ASSUME IInv, tick = NoTick \/ tick.pc # "alert"
    PROVE  call["tick"].pc = "idle"
BY DEF IInv, CallInv

(* A dispatch is that of the alert the tick is at, for as long as it runs.  *)
LEMMA StepCall ==
    ASSUME IInv, [Next]_vars
    PROVE  CallInv'
<1>0. ASSUME call'["tick"].pc = "idle" PROVE CallInv'
  BY <1>0 DEF CallInv
<1>1. ASSUME ClaimAlert PROVE CallInv'
  <2>1. tick \in Ticks /\ tick.pc = "alert"
    BY <1>1 DEF ClaimAlert, NoTick, IInv
  <2>2. PICK t \in Ticks : tick = t /\ t # NoTick /\ t.pc = "alert"
    BY <2>1, TickFacts DEF IInv
  <2>3. AlertKey \in AlertKeys /\ Expiry \in Nat
        /\ AlertKey = KeyOf(t.run, t.index + 1) /\ Expiry = DeadlineOf(t.run, t.index + 1)
    BY <2>2, AlertFacts
  <2>4. PICK k \in AlertKeys, expires \in Nat :
            /\ AlertKey = k /\ KeyOf(t.run, t.index + 1) = k
            /\ Expiry = expires /\ DeadlineOf(t.run, t.index + 1) = expires
    BY <2>3
  <2>5. /\ call["tick"].pc = "idle"
        /\ \/ ClaimOpens(k, expires, t.at) \/ ClaimTooLate(k, expires, t.at)
           \/ ClaimFinds(k, expires, t.at) \/ ClaimConflicts(k, expires, t.at)
    BY <1>1, <2>2, <2>4, ClaimAlertCases
  <2>6. CASE ClaimOpens(k, expires, t.at)
    <3>1. /\ t.at <= expires /\ tick' = t
          /\ call'["tick"].key = k /\ call'["tick"].at = t.at /\ call'["tick"].pc = "send"
      BY <2>2, <2>6, CallFacts DEF ClaimOpens
    <3>2. KeyOf(t.run, t.index + 1) = k /\ DeadlineOf(t.run, t.index + 1) = expires
      BY <2>4
    <3>3. KeyOf(tick.run, tick.index + 1)' = k /\ DeadlineOf(tick.run, tick.index + 1)' = expires
      BY <3>1, <3>2 DEF KeyOf, DeadlineOf
    <3>4. QED
      BY <2>2, <3>1, <3>3 DEF CallInv
  <2>7. CASE ClaimTooLate(k, expires, t.at) \/ ClaimFinds(k, expires, t.at)
                \/ ClaimConflicts(k, expires, t.at)
    BY <1>0, <2>5, <2>7 DEF ClaimTooLate, ClaimFinds, ClaimConflicts
  <2>8. QED
    BY <2>5, <2>6, <2>7
<1>2. ASSUME SendAlert PROVE CallInv'
  <2>1. /\ tick # NoTick /\ tick.pc = "alert"
        /\ call["tick"].key = KeyOf(tick.run, tick.index + 1)
        /\ call["tick"].at = tick.at /\ tick.at <= DeadlineOf(tick.run, tick.index + 1)
    BY <1>2, SendEffect DEF IInv, CallInv
  <2>2. PICK t : tick = t
    OBVIOUS
  <2>3. /\ tick' = t /\ call'["tick"].key = call["tick"].key
        /\ call'["tick"].at = call["tick"].at /\ call'["tick"].status = "DELIVERED"
    BY <1>2, <2>2, SendEffect
  <2>4. QED
    BY <2>1, <2>2, <2>3 DEF CallInv, KeyOf, DeadlineOf
<1>3. ASSUME FinishAlert PROVE CallInv'
  <2>1. tick \in Ticks
    BY <1>3 DEF FinishAlert, NoTick, IInv
  <2>2. QED
    BY <1>0, <1>3, <2>1, FinishEffect
<1>4. CASE StorageError
  BY <1>0, <1>4, CallFacts DEF StorageError
<1>5. CASE Crash
  BY <1>0, <1>5, CallFacts DEF Crash, Outbox!Abandon
<1>6. CASE RecordDecision \/ RefuseReceipt \/ TickCommit
  <2>1. call["tick"].pc = "idle"
    BY <1>6, NoCallFacts DEF RecordDecision, RefuseReceipt, TickCommit
  <2>2. call' = call
    BY <1>6 DEF RecordDecision, RefuseReceipt, TickCommit, effectVars
  <2>3. QED
    BY <1>0, <2>1, <2>2
<1>7. CASE Command
  <2>1. tick = NoTick /\ call' = call
    BY <1>7, Zenon DEF Command, Register, SetRunning, TickBegin, effectVars
  <2>2. QED
    BY <1>0, <2>1, NoCallFacts
<1>8. CASE UNCHANGED vars
  BY <1>8 DEF vars, IInv, CallInv, KeyOf, DeadlineOf
<1>9. QED
  BY <1>1, <1>2, <1>3, <1>4, <1>5, <1>6, <1>7, <1>8 DEF Next, TickStep

(* The rows of the outbox change by claims and finishes only.               *)
LEMMA OutboxMoves ==
    ASSUME IInv, [Next]_vars
    PROVE  \/ UNCHANGED outbox
           \/ \E k \in AlertKeys, expires \in Nat, at \in Nat, status \in {"STARTED", "EXPIRED"} :
                /\ Opens(k, expires, at, status)
                /\ status = "STARTED" => at <= expires
                /\ Recorded(k[1], at) /\ journal' = journal
           \/ \E k \in AlertKeys :
                /\ outbox[k].status = "STARTED" /\ journal' = journal
                /\ outbox' = [outbox EXCEPT ![k].status = "DELIVERED"]
<1>1. ASSUME ClaimAlert
      PROVE  \/ UNCHANGED outbox
             \/ \E k \in AlertKeys, expires \in Nat, at \in Nat, status \in {"STARTED", "EXPIRED"} :
                /\ Opens(k, expires, at, status)
                /\ status = "STARTED" => at <= expires
                /\ Recorded(k[1], at) /\ journal' = journal
  <2>1. tick \in Ticks /\ tick.pc = "alert"
    BY <1>1 DEF ClaimAlert, NoTick, IInv
  <2>2. PICK t \in Ticks : tick = t /\ t.pc = "alert"
    BY <2>1
  <2>3. /\ AlertKey \in AlertKeys /\ Expiry \in Nat /\ t.at \in Nat /\ AlertKey[1] = Job
        /\ AlertKey = KeyOf(t.run, t.index + 1) /\ Job = Plan[t.run].jobs[t.index + 1]
        /\ TickHolds(t)
    BY <2>2, AlertFacts
  <2>4. PICK k \in AlertKeys, expires \in Nat :
            /\ AlertKey = k /\ Expiry = expires /\ KeyOf(t.run, t.index + 1) = k
            /\ k[1] = Plan[t.run].jobs[t.index + 1]
    BY <2>3
  <2>5. /\ journal' = journal
        /\ \/ ClaimOpens(k, expires, t.at) \/ ClaimTooLate(k, expires, t.at)
           \/ ClaimFinds(k, expires, t.at) \/ ClaimConflicts(k, expires, t.at)
    BY <1>1, <2>2, <2>4, ClaimAlertCases
  <2>6. Recorded(k[1], t.at)
    BY <2>2, <2>3, <2>4 DEF TickHolds
  <2>7. CASE ClaimOpens(k, expires, t.at)
    <3>1. Opens(k, expires, t.at, "STARTED") /\ t.at <= expires
      BY <2>7 DEF ClaimOpens
    <3>2. QED
      BY <2>2, <2>3, <2>4, <2>5, <2>6, <3>1
  <2>8. CASE ClaimTooLate(k, expires, t.at)
    <3>1. Opens(k, expires, t.at, "EXPIRED")
      BY <2>8 DEF ClaimTooLate
    <3>2. QED
      BY <2>2, <2>3, <2>4, <2>5, <2>6, <3>1
  <2>9. CASE ClaimFinds(k, expires, t.at) \/ ClaimConflicts(k, expires, t.at)
    BY <2>9 DEF ClaimFinds, ClaimConflicts
  <2>10. QED
    BY <2>5, <2>7, <2>8, <2>9
<1>2. ASSUME FinishAlert
      PROVE  \E k \in AlertKeys :
                /\ outbox[k].status = "STARTED" /\ journal' = journal
                /\ outbox' = [outbox EXCEPT ![k].status = "DELIVERED"]
  <2>1. PICK t \in Ticks : tick = t
    BY <1>2 DEF FinishAlert, NoTick, IInv
  <2>2. /\ t.pc = "alert" /\ call["tick"].pc = "finish" /\ journal' = journal
        /\ outbox' = [outbox EXCEPT ![KeyOf(t.run, t.index + 1)].status = "DELIVERED"]
    BY <1>2, <2>1, FinishEffect
  <2>3. /\ KeyOf(t.run, t.index + 1) \in AlertKeys
        /\ outbox[KeyOf(t.run, t.index + 1)].status = "STARTED"
    BY <2>1, <2>2, BusyFacts
  <2>4. QED
    BY <2>2, <2>3
<1>3. CASE SendAlert
  BY <1>3, SendEffect
<1>4. CASE StorageError \/ Crash
  BY <1>4 DEF StorageError, Crash, Outbox!Abandon, Outbox!durable
<1>5. CASE RecordDecision \/ RefuseReceipt \/ TickCommit \/ UNCHANGED vars
  BY <1>5 DEF RecordDecision, RefuseReceipt, TickCommit, effectVars, vars
<1>6. CASE Command
  BY <1>6, Zenon DEF Command, Register, SetRunning, TickBegin, effectVars
<1>7. QED
  BY <1>1, <1>2, <1>3, <1>4, <1>5, <1>6 DEF Next, TickStep

(* Only deliveries are stored as outcomes, and only what was claimed in     *)
(* time is sent.                                                            *)
LEMMA StepOutbox ==
    ASSUME IInv, [Next]_vars
    PROVE  OutboxInv'
<1>1. ASSUME NEW k \in AlertKeys, NEW expires \in Nat, NEW at \in Nat,
             NEW status \in {"STARTED", "EXPIRED"},
             Opens(k, expires, at, status), status = "STARTED" => at <= expires
      PROVE  OutboxInv'
  <2>1. /\ outbox'[k].status = status /\ outbox'[k].at = at /\ outbox'[k].expires = expires
        /\ \A j \in AlertKeys \ {k} : outbox'[j] = outbox[j]
    BY <1>1, CallFacts DEF Opens
  <2>2. QED
    BY <1>1, <2>1 DEF IInv, OutboxInv
<1>2. ASSUME NEW k \in AlertKeys, outbox[k].status = "STARTED",
             outbox' = [outbox EXCEPT ![k].status = "DELIVERED"]
      PROVE  OutboxInv'
  <2>1. outbox[k] \in Alerts!Rows /\ outbox'[k] = [outbox[k] EXCEPT !.status = "DELIVERED"]
        /\ \A j \in AlertKeys \ {k} : outbox'[j] = outbox[j]
    BY <1>2, CallFacts
  <2>2. /\ outbox'[k].status = "DELIVERED" /\ outbox'[k].at = outbox[k].at
        /\ outbox'[k].expires = outbox[k].expires
    BY <2>1 DEF Alerts!Rows
  <2>3. QED
    BY <1>2, <2>1, <2>2 DEF IInv, OutboxInv
<1>3. CASE UNCHANGED outbox
  BY <1>3 DEF IInv, OutboxInv
<1>4. QED
  BY <1>1, <1>2, <1>3, OutboxMoves

(* The journal only ever gets receipts of decisions that are due.           *)
LEMMA StepJournal ==
    ASSUME IInv, [Next]_vars
    PROVE  JournalInv'
<1>1. CASE UNCHANGED journal
  BY <1>1 DEF IInv, JournalInv
<1>2. ASSUME RecordDecision PROVE JournalInv'
  <2>1. PICK t \in Ticks : tick = t
    BY <1>2 DEF RecordDecision, NoTick, IInv
  <2>2. PlanAssumption /\ t.run \in Runs /\ t.at \in Times /\ t.index \in Nat
    BY <2>1, TickFacts DEF IInv
  <2>3. t.index < Len(Plan[t.run].jobs) /\ Job = Plan[t.run].jobs[t.index + 1]
        /\ EvalAt[Plan[t.run].jobs[t.index + 1]] <= t.at
    BY <1>2, <2>1 DEF RecordDecision, HasJob, Job, Jobs
  <2>4. t.index + 1 \in 1 .. Len(Plan[t.run].jobs)
    BY <2>2, <2>3, JobFacts
  <2>5. PICK d \in Decisions : Plan[t.run].jobs[t.index + 1] = d
    BY <2>2, <2>4, JobFacts
  <2>6. journal' = journal \/ journal' = journal \cup {[decision |-> d, at |-> t.at]}
    BY <1>2, <2>1, <2>3, <2>5 DEF RecordDecision
  <2>7. [decision |-> d, at |-> t.at] \in Receipts
    BY <2>2 DEF Receipts
  <2>8. QED
    BY <2>3, <2>5, <2>6, <2>7 DEF IInv, JournalInv
<1>3. CASE ClaimAlert \/ SendAlert \/ FinishAlert \/ RefuseReceipt \/ TickCommit
            \/ StorageError \/ Crash \/ UNCHANGED vars
  BY <1>1, <1>3 DEF ClaimAlert, SendAlert, FinishAlert, RefuseReceipt, TickCommit,
                    StorageError, Crash, effectVars, vars
<1>4. CASE Command
  <2>1. UNCHANGED journal
    BY <1>4, Zenon DEF Command, Register, SetRunning, TickBegin, effectVars
  <2>2. QED
    BY <1>1, <2>1
<1>5. QED
  BY <1>2, <1>3, <1>4 DEF Next, TickStep

(* A row of the outbox is never older than the receipt of its decision.     *)
LEMMA StepJournalledFirst ==
    ASSUME IInv, StoresGrow, [Next]_vars
    PROVE  JournalledBeforeAlert'
<1> SUFFICES ASSUME NEW k \in AlertKeys, Outbox!Present(k)'
             PROVE  \E row \in journal' : row.decision = k[1] /\ row.at <= outbox'[k].at
  BY DEF JournalledBeforeAlert
<1>1. CASE Outbox!Present(k)
  <2>1. PICK row \in journal : row.decision = k[1] /\ row.at <= outbox[k].at
    BY <1>1 DEF IInv, JournalledBeforeAlert
  <2>2. row \in journal' /\ outbox'[k].at = outbox[k].at
    BY <1>1 DEF StoresGrow, RowGrows
  <2>3. QED
    BY <2>1, <2>2
<1>2. CASE ~Outbox!Present(k)
  <2>1. outbox[k].status = "ABSENT" /\ outbox'[k].status # "ABSENT"
    BY <1>2 DEF Outbox!Present
  <2>2. ASSUME NEW j \in AlertKeys, outbox[j].status = "STARTED",
               outbox' = [outbox EXCEPT ![j].status = "DELIVERED"]
        PROVE  FALSE
    <3>1. j # k
      BY <2>1, <2>2
    <3>2. outbox'[k] = outbox[k]
      BY <2>2, <3>1, CallFacts
    <3>3. QED
      BY <2>1, <3>2
  <2>3. PICK j \in AlertKeys, expires \in Nat, at \in Nat, status \in {"STARTED", "EXPIRED"} :
            Opens(j, expires, at, status) /\ Recorded(j[1], at) /\ journal' = journal
    BY <2>1, <2>2, OutboxMoves
  <2>4. j = k
    BY <2>1, <2>3, CallFacts DEF Opens
  <2>5. outbox'[k].at = at
    BY <2>3, <2>4, CallFacts DEF Opens
  <2>6. QED
    BY <2>3, <2>4, <2>5 DEF Recorded
<1>3. QED
  BY <1>1, <1>2

-----------------------------------------------------------------------------
(* What becomes of the runs.                                                *)

(* A commit without an error does not fail the run.                         *)
LEMMA CleanCommit ==
    ASSUME NEW r, NEW at, NEW index, Tables!Commit(r, at, index, Tables!NoDetail)
    PROVE  \E state \in {"COMPLETE", "RUNNING"} :
                runs' = [runs EXCEPT ![r] = [state |-> state, next |-> index, lastAt |-> at]]
<1>1. CASE index = Tables!Total(r)
  BY <1>1, Zenon DEF Tables!Commit, Tables!NoDetail
<1>2. CASE index # Tables!Total(r)
  BY <1>2, Zenon DEF Tables!Commit, Tables!NoDetail
<1>3. QED
  BY <1>1, <1>2

(* What is appended last is the last entry.                                 *)
LEMMA LastOfConcat ==
    ASSUME NEW S, NEW h \in Seq(S), NEW s \in Seq(S), Len(s) > 0
    PROVE  h \o s # <<>> /\ (h \o s)[Len(h \o s)] = s[Len(s)]
<1>1. PICK m \in Nat, n \in Nat : Len(h) = m /\ Len(s) = n /\ n > 0
  OBVIOUS
<1>2. Len(h \o s) = m + n /\ m + n > 0 /\ m + n > m /\ (m + n) - m = n
  BY <1>1
<1>3. m + n \in 1 .. m + n
  BY <1>2
<1>4. (h \o s)[m + n] = s[n]
  BY <1>1, <1>2, <1>3
<1>5. h \o s # <<>>
  BY <1>2
<1>6. QED
  BY <1>1, <1>2, <1>4, <1>5

(* Steps and transition appended at once: the transition is last.           *)
LEMMA LastOfBoth ==
    ASSUME NEW S, NEW h \in Seq(S), NEW steps \in Seq(S), NEW e \in S,
           NEW x, x = h \o (steps \o <<e>>)
    PROVE  x # <<>> /\ x[Len(x)] = e
<1>1. <<e>> \in Seq(S) /\ Len(<<e>>) = 1 /\ <<e>>[1] = e
  OBVIOUS
<1>2. steps \o <<e>> \in Seq(S)
  BY <1>1
<1>3. PICK s \in Seq(S) : s = steps \o <<e>>
  BY <1>2
<1>4. Len(s) > 0 /\ s[Len(s)] = e
  BY <1>1, <1>3, LastOfConcat
<1>5. QED
  BY <1>3, <1>4, LastOfConcat

(* The entry of a run that fails.                                           *)
LEMMA FailedEntry ==
    ASSUME NEW index \in Nat, NEW at \in Nat, NEW error \in Tables!Details
    PROVE  LET e == Tables!Event("FAILED", index, at, error) IN
           e \in Tables!Entries /\ e.step = index /\ e.at = at /\ e.detail = error
<1>1. Tables!Entries = [event : Tables!States \cup {"REGISTERED", "STEP"}, step : Nat,
                        at : Nat, detail : Tables!Details]
  BY Zenon DEF Tables!Entries, Tables!Details
<1>2. QED
  BY <1>1 DEF Tables!Event, Tables!States

(* What a commit writes: the row of one run, and why it failed if it did.   *)
LEMMA CommitMoves ==
    ASSUME IInv, NEW t \in Ticks, tick = t, TickCommit
    PROVE  \E state \in {"FAILED", "COMPLETE", "RUNNING"} :
            /\ runs' = [runs EXCEPT ![t.run] =
                    [state |-> state, next |-> t.index, lastAt |-> t.at]]
            /\ \A q \in Runs : q # t.run => audit'[q] = audit[q]
            /\ state = "FAILED" =>
                LET e == audit'[t.run][Len(audit'[t.run])] IN
                /\ audit'[t.run] # <<>>
                /\ t.pc = "failed" /\ e.step = t.index /\ e.at = t.at /\ e.detail = t.error
<1>1. /\ PlanAssumption /\ TickHolds(t) /\ t.run \in Runs /\ t.at \in Nat /\ t.index \in Nat
      /\ t.error \in Tables!Details
  BY TickFacts DEF IInv, TickInv
<1>2. Tables!Commit(t.run, t.at, t.index, t.error) /\ t.pc \in {"job", "failed"}
  BY CommitIsCommit DEF TickCommit
<1>3. /\ runs[t.run].next \in Nat /\ runs[t.run].next <= t.index
      /\ t.index <= Len(Plan[t.run].jobs) /\ Tables!Total(t.run) = Len(Plan[t.run].jobs)
      /\ Len(Plan[t.run].jobs) \in Nat
  BY <1>1, RunFacts, JobFacts DEF TickHolds
<1>4. t.index \in runs[t.run].next .. Tables!Total(t.run)
  BY <1>1, <1>3
<1>5. /\ Tables!IInv /\ Tables!LedgerAssumption
      /\ runs \in [Runs -> Tables!Rows] /\ audit \in [Runs -> Seq(Tables!Entries)]
  BY <1>1, LayerAssumptions DEF IInv, Tables!IInv, Tables!TypeOK
<1>6. PICK done \in Nat, steps \in Seq(Tables!Entries), state \in {"FAILED", "COMPLETE", "RUNNING"} :
            Tables!Appends(t.run, t.at, t.index, t.error, done, steps, state)
  BY <1>1, <1>2, <1>4, <1>5, Tables!CommitAppends
<1>7. /\ runs' = [runs EXCEPT ![t.run] = [state |-> state, next |-> t.index, lastAt |-> t.at]]
      /\ audit' = [audit EXCEPT ![t.run] = @ \o (steps \o
            (IF state = "RUNNING" THEN <<>>
             ELSE <<Tables!Event(state, t.index, t.at, t.error)>>))]
  BY <1>6 DEF Tables!Appends
<1>8. \A q \in Runs : q # t.run => audit'[q] = audit[q]
  BY <1>5, <1>7
<1>9. ASSUME state = "FAILED"
      PROVE  LET e == audit'[t.run][Len(audit'[t.run])] IN
             /\ audit'[t.run] # <<>>
             /\ t.pc = "failed" /\ e.step = t.index /\ e.at = t.at /\ e.detail = t.error
  <2>1. t.error # Tables!NoDetail
    <3> SUFFICES ASSUME t.error = Tables!NoDetail PROVE FALSE
      OBVIOUS
    <3>1. PICK s \in {"COMPLETE", "RUNNING"} :
            runs' = [runs EXCEPT ![t.run] = [state |-> s, next |-> t.index, lastAt |-> t.at]]
      BY <1>2, CleanCommit
    <3>2. runs'[t.run].state = s /\ runs'[t.run].state = "FAILED"
      BY <1>1, <1>5, <1>7, <1>9, <3>1
    <3>3. QED
      BY <3>2
  <2>2. t.pc = "failed"
    BY <1>1, <1>2, <2>1 DEF TickHolds
  <2>3. PICK f \in Tables!Entries :
            /\ f = Tables!Event("FAILED", t.index, t.at, t.error)
            /\ f.step = t.index /\ f.at = t.at /\ f.detail = t.error
    BY <1>1, FailedEntry
  <2>4. audit'[t.run] = audit[t.run] \o (steps \o <<f>>)
    BY <1>1, <1>5, <1>7, <1>9, <2>3
  <2>5. PICK h \in Seq(Tables!Entries) : audit[t.run] = h
    BY <1>1, <1>5
  <2>6. PICK x : audit'[t.run] = x /\ x = h \o (steps \o <<f>>)
    BY <2>4, <2>5
  <2>7. audit'[t.run] # <<>> /\ audit'[t.run][Len(audit'[t.run])] = f
    BY <2>6, LastOfBoth
  <2>8. QED
    BY <2>2, <2>3, <2>7
<1>10. QED
  BY <1>7, <1>8, <1>9

(* The row a command gives a run.                                           *)
SetsRow(r, at, state, next) ==
    /\ next = 0 \/ (next = runs[r].next /\ at >= runs[r].lastAt)
    /\ runs' = [runs EXCEPT ![r] = [state |-> state, next |-> next, lastAt |-> at]]
    /\ \A q \in Runs : q # r => audit'[q] = audit[q]

(* A command registers, starts or pauses a run; otherwise it takes a tick.  *)
LEMMA LedgerMoves ==
    ASSUME IInv, [Next]_vars
    PROVE  \/ UNCHANGED <<runs, audit>>
           \/ TickCommit
           \/ \E r \in Runs, at \in Times, state \in {"PAUSED", "RUNNING"}, next \in Nat :
                    SetsRow(r, at, state, next)
<1>0. audit \in [Runs -> Seq(Tables!Entries)]
  BY DEF IInv, Tables!IInv, Tables!TypeOK
<1>1. ASSUME NEW r \in Runs, NEW at \in Times, Register(r, at)
      PROVE  SetsRow(r, at, "PAUSED", 0)
  <2>1. /\ runs' = [runs EXCEPT ![r] = [state |-> "PAUSED", next |-> 0, lastAt |-> at]]
        /\ audit' = [audit EXCEPT ![r] = @ \o <<Tables!Event("REGISTERED", 0, at, Tables!NoDetail)>>]
    BY <1>1, Zenon DEF Register, Ledger!Register, Ledger!Log, Ledger!Event, Tables!Event,
                       Tables!NoDetail
  <2>2. QED
    BY <1>0, <2>1 DEF SetsRow
<1>2. ASSUME NEW r \in Runs, NEW at \in Times, NEW running \in BOOLEAN, SetRunning(r, running, at)
      PROVE  \E state \in {"PAUSED", "RUNNING"} : SetsRow(r, at, state, runs[r].next)
  <2>1. PICK state \in {"PAUSED", "RUNNING"} : state = IF running THEN "RUNNING" ELSE "PAUSED"
    OBVIOUS
  <2>2. /\ at >= runs[r].lastAt
        /\ runs' = [runs EXCEPT ![r] = [state |-> state, next |-> @.next, lastAt |-> at]]
    BY <1>2, <2>1, Zenon DEF SetRunning, Ledger!SetRunning
  <2>3. \/ audit' = [audit EXCEPT ![r] =
                @ \o <<Tables!Event(state, runs[r].next, at, Tables!NoDetail)>>]
        \/ audit' = audit
    BY <1>2, <2>1, Zenon DEF SetRunning, Ledger!SetRunning, Ledger!Log, Ledger!Event,
                             Tables!Event, Tables!NoDetail
  <2>4. \A q \in Runs : q # r => audit'[q] = audit[q]
    BY <1>0, <2>3
  <2>5. runs' = [runs EXCEPT ![r] = [state |-> state, next |-> runs[r].next, lastAt |-> at]]
    BY <2>2 DEF IInv, Tables!IInv, Tables!TypeOK
  <2>6. QED
    BY <2>2, <2>4, <2>5 DEF SetsRow
<1>3. ASSUME NEW r \in Runs, NEW at \in Times, NEW n \in 1 .. MaxJobs, TickBegin(r, at, n)
      PROVE  UNCHANGED <<runs, audit>>
  BY <1>3, Zenon DEF TickBegin
<1>4. ASSUME Command
      PROVE  \/ UNCHANGED <<runs, audit>>
             \/ \E r \in Runs, at \in Times, state \in {"PAUSED", "RUNNING"}, next \in Nat :
                    SetsRow(r, at, state, next)
  <2>1. PICK r \in Runs, at \in Times :
            \/ Register(r, at)
            \/ \E running \in BOOLEAN : SetRunning(r, running, at)
            \/ \E n \in 1 .. MaxJobs : TickBegin(r, at, n)
    BY <1>4 DEF Command
  <2>2. 0 \in Nat /\ runs[r].next \in Nat
    BY RunFacts
  <2>3. QED
    BY <1>1, <1>2, <1>3, <2>1, <2>2
<1>5. CASE TickStep \/ StorageError \/ Crash \/ UNCHANGED vars
  BY <1>5 DEF TickStep, RecordDecision, RefuseReceipt, ClaimAlert, SendAlert, FinishAlert,
              StorageError, Crash, vars
<1>6. QED
  BY <1>4, <1>5 DEF Next

(* The steps a run has committed stay done.                                 *)
LEMMA StepSteps ==
    ASSUME IInv, StoresGrow, [Next]_vars
    PROVE  StepsKept'
<1>0. PlanAssumption /\ JournalInv /\ Alerts!IInv /\ runs \in [Runs -> Tables!Rows]
  BY DEF IInv, Tables!IInv, Tables!TypeOK
<1>1. ASSUME NEW q \in Runs, NEW i \in 1 .. runs[q].next, NEW later \in Nat,
             runs[q].lastAt <= later
      PROVE  Kept(q, i, later)'
  <2>1. PICK next \in Nat, last \in Nat : runs[q].next = next /\ runs[q].lastAt = last
            /\ next <= Len(Plan[q].jobs) /\ Len(Plan[q].jobs) \in Nat
    BY RunFacts
  <2>2. Kept(q, i, last)
    BY <2>1 DEF IInv, StepsKept
  <2>3. i \in 1 .. Len(Plan[q].jobs) /\ last <= later
    BY <1>1, <2>1
  <2>4. QED
    BY <1>0, <1>1, <2>2, <2>3, KeptStays
<1>2. ASSUME NEW q \in Runs, runs'[q] = runs[q], NEW i \in 1 .. runs'[q].next
      PROVE  Kept(q, i, runs[q].lastAt)'
  <2>1. PICK last \in Nat : runs[q].lastAt = last /\ last <= last
    BY RunFacts
  <2>2. Kept(q, i, last)'
    BY <1>1, <1>2, <2>1
  <2>3. QED
    BY <1>2, <2>1, <2>2
<1>3. CASE UNCHANGED <<runs, audit>>
  <2> SUFFICES ASSUME NEW q \in Runs, NEW i \in 1 .. runs'[q].next
               PROVE  Kept(q, i, runs[q].lastAt)'
    BY DEF StepsKept
  <2>1. runs'[q] = runs[q]
    BY <1>3
  <2>2. QED
    BY <1>2, <2>1
<1>4. ASSUME TickCommit PROVE StepsKept'
  <2>1. PICK t \in Ticks : tick = t
    BY <1>4 DEF TickCommit, NoTick, IInv
  <2>2. /\ TickHolds(t) /\ t.run \in Runs /\ t.at \in Nat /\ t.index \in Nat
        /\ t.index <= Len(Plan[t.run].jobs) /\ Len(Plan[t.run].jobs) \in Nat
    BY <1>0, <2>1, TickFacts, JobFacts DEF IInv, TickInv, TickHolds
  <2>3. PICK state \in {"FAILED", "COMPLETE", "RUNNING"} :
            runs' = [runs EXCEPT ![t.run] = [state |-> state, next |-> t.index, lastAt |-> t.at]]
    BY <1>4, <2>1, CommitMoves
  <2> SUFFICES ASSUME NEW q \in Runs, NEW i \in 1 .. runs'[q].next
               PROVE  Kept(q, i, runs[q].lastAt)'
    BY DEF StepsKept
  <2>4. CASE q = t.run
    <3>1. runs'[q].next = t.index /\ runs'[q].lastAt = t.at
      BY <1>0, <2>3, <2>4
    <3>2. i \in 1 .. t.index /\ i \in 1 .. Len(Plan[t.run].jobs) /\ t.at <= t.at
      BY <2>2, <3>1
    <3>3. Kept(t.run, i, t.at)
      BY <2>2, <3>2 DEF TickHolds
    <3>4. Kept(t.run, i, t.at)'
      BY <1>0, <2>2, <3>2, <3>3, KeptStays
    <3>5. QED
      BY <2>4, <3>1, <3>4
  <2>5. CASE q # t.run
    <3>1. runs'[q] = runs[q]
      BY <1>0, <2>3, <2>5
    <3>2. QED
      BY <1>2, <3>1
  <2>6. QED
    BY <2>4, <2>5
<1>5. ASSUME NEW r \in Runs, NEW at \in Times, NEW state \in {"PAUSED", "RUNNING"},
             NEW next \in Nat, SetsRow(r, at, state, next)
      PROVE  StepsKept'
  <2> SUFFICES ASSUME NEW q \in Runs, NEW i \in 1 .. runs'[q].next
               PROVE  Kept(q, i, runs[q].lastAt)'
    BY DEF StepsKept
  <2>1. CASE q = r
    <3>1. runs'[q].next = next /\ runs'[q].lastAt = at /\ at \in Nat
      BY <1>0, <1>5, <2>1 DEF PlanAssumption, SetsRow
    <3>2. next # 0
      BY <3>1
    <3>3. i \in 1 .. runs[q].next /\ runs[q].lastAt <= at
      BY <1>5, <2>1, <3>1, <3>2, RunFacts DEF SetsRow
    <3>4. Kept(q, i, at)'
      BY <1>1, <3>1, <3>3
    <3>5. QED
      BY <3>1, <3>4
  <2>2. CASE q # r
    <3>1. runs'[q] = runs[q]
      BY <1>0, <1>5, <2>2 DEF SetsRow
    <3>2. QED
      BY <1>2, <3>1
  <2>3. QED
    BY <2>1, <2>2
<1>6. QED
  BY <1>3, <1>4, <1>5, LedgerMoves

(* A failed run can still be explained by the stores.                       *)
LEMMA StepFailures ==
    ASSUME IInv, StoresGrow, [Next]_vars
    PROVE  FailuresHold'
<1>0. /\ PlanAssumption /\ runs \in [Runs -> Tables!Rows]
      /\ audit \in [Runs -> Seq(Tables!Entries)]
  BY DEF IInv, Tables!IInv, Tables!TypeOK
<1>1. ASSUME NEW q \in Runs, runs'[q] = runs[q], audit'[q] = audit[q], runs'[q].state = "FAILED"
      PROVE  FailureHolds(q)'
  <2>1. FailureHolds(q)
    BY <1>1 DEF IInv, FailuresHold
  <2>2. audit[q] \in Seq(Tables!Entries) /\ audit[q] # <<>>
    BY <1>0, <2>1 DEF FailureHolds
  <2>3. audit[q][Len(audit[q])] \in Tables!Entries
    BY <2>2
  <2>4. PICK e \in Tables!Entries : audit[q][Len(audit[q])] = e
    BY <2>3
  <2>5. PICK next \in Nat : runs[q].next = next /\ Len(Plan[q].jobs) \in Nat
    BY RunFacts
  <2>6. /\ next < Len(Plan[q].jobs) /\ e.step = next /\ Stuck(q, next + 1, e.at, e.detail)
    BY <2>1, <2>4, <2>5 DEF FailureHolds
  <2>7. next + 1 \in 1 .. Len(Plan[q].jobs)
    BY <2>5, <2>6
  <2>8. e.at \in Nat
    BY Zenon DEF Tables!Entries
  <2>9. Stuck(q, next + 1, e.at, e.detail)'
    BY <1>0, <2>6, <2>7, <2>8, StuckStays
  <2>10. /\ audit'[q] # <<>> /\ audit'[q][Len(audit'[q])] = e /\ runs'[q].next = next
    BY <1>1, <2>2, <2>4, <2>5
  <2>11. QED
    BY <2>6, <2>9, <2>10 DEF FailureHolds
<1>2. CASE UNCHANGED <<runs, audit>>
  <2> SUFFICES ASSUME NEW q \in Runs, runs'[q].state = "FAILED" PROVE FailureHolds(q)'
    BY DEF FailuresHold
  <2>1. QED
    BY <1>1, <1>2
<1>3. ASSUME NEW r \in Runs, NEW at \in Times, NEW state \in {"PAUSED", "RUNNING"},
             NEW next \in Nat, SetsRow(r, at, state, next)
      PROVE  FailuresHold'
  <2> SUFFICES ASSUME NEW q \in Runs, runs'[q].state = "FAILED" PROVE FailureHolds(q)'
    BY DEF FailuresHold
  <2>1. runs'[r].state # "FAILED"
    BY <1>0, <1>3 DEF SetsRow
  <2>2. q # r
    BY <2>1
  <2>3. runs'[q] = runs[q] /\ audit'[q] = audit[q]
    BY <1>0, <1>3, <2>2 DEF SetsRow
  <2>4. QED
    BY <1>1, <2>3
<1>4. ASSUME TickCommit PROVE FailuresHold'
  <2>1. PICK t \in Ticks : tick = t
    BY <1>4 DEF TickCommit, NoTick, IInv
  <2>2. PICK state \in {"FAILED", "COMPLETE", "RUNNING"} :
            /\ runs' = [runs EXCEPT ![t.run] =
                    [state |-> state, next |-> t.index, lastAt |-> t.at]]
            /\ \A q \in Runs : q # t.run => audit'[q] = audit[q]
            /\ state = "FAILED" =>
                LET e == audit'[t.run][Len(audit'[t.run])] IN
                /\ audit'[t.run] # <<>>
                /\ t.pc = "failed" /\ e.step = t.index /\ e.at = t.at /\ e.detail = t.error
    BY <1>4, <2>1, CommitMoves
  <2>3. TickHolds(t) /\ t.run \in Runs /\ t.at \in Nat /\ t.index \in Nat
        /\ Len(Plan[t.run].jobs) \in Nat
    BY <1>0, <2>1, TickFacts, JobFacts DEF IInv, TickInv
  <2> SUFFICES ASSUME NEW q \in Runs, runs'[q].state = "FAILED" PROVE FailureHolds(q)'
    BY DEF FailuresHold
  <2>4. CASE q = t.run
    <3>1. runs'[q].state = state /\ runs'[q].next = t.index
      BY <1>0, <2>2, <2>4
    <3>2. PICK e : audit'[q][Len(audit'[q])] = e
      OBVIOUS
    <3>3. /\ audit'[q] # <<>> /\ t.pc = "failed"
          /\ e.step = t.index /\ e.at = t.at /\ e.detail = t.error
      BY <2>2, <2>4, <3>1, <3>2
    <3>4. MayDo(t) /\ Stuck(t.run, t.index + 1, t.at, t.error)
      BY <2>3, <3>3 DEF TickHolds
    <3>5. t.index < Len(Plan[t.run].jobs) /\ t.index + 1 \in 1 .. Len(Plan[t.run].jobs)
      BY <2>3, <3>4 DEF MayDo
    <3>6. Stuck(t.run, t.index + 1, t.at, t.error)'
      BY <1>0, <2>3, <3>4, <3>5, StuckStays
    <3>7. QED
      BY <2>4, <3>1, <3>2, <3>3, <3>5, <3>6 DEF FailureHolds
  <2>5. CASE q # t.run
    <3>1. runs'[q] = runs[q] /\ audit'[q] = audit[q]
      BY <1>0, <2>2, <2>5
    <3>2. QED
      BY <1>1, <3>1
  <2>6. QED
    BY <2>4, <2>5
<1>5. QED
  BY <1>2, <1>3, <1>4, LedgerMoves

-----------------------------------------------------------------------------
(* The inductive invariant holds at first, and every step keeps it.         *)
LEMMA InitInv == PlanAssumption /\ Init => IInv
<1> SUFFICES ASSUME PlanAssumption, Init PROVE IInv
  OBVIOUS
<1>0. /\ Tables!LedgerAssumption
      /\ Alerts!TimesAssumption /\ Alerts!EvalAssumption
  BY LayerAssumptions
<1>1. Tables!Init
  BY DEF Init, Ledger!Init, Tables!Init, Ledger!NoRun, Tables!NoRun
<1>2. Tables!IInv
  BY <1>0, <1>1, Tables!InitInv
<1>3. Alerts!Init
  BY DEF Init, Outbox!Init, Alerts!Init, Outbox!NoRow, Alerts!NoRow, Outbox!Idle, Alerts!Idle
<1>4. Alerts!IInv
  BY <1>0, <1>3, Alerts!InvSteps
<1>5. /\ \A r \in Runs : runs[r].state = "ABSENT" /\ runs[r].next = 0
      /\ \A k \in AlertKeys : outbox[k].status = "ABSENT"
      /\ call["tick"].pc = "idle" /\ journal = {} /\ tick = NoTick
  BY <1>1, <1>3 DEF Init, Tables!Init, Tables!NoRun, Alerts!Init, Alerts!NoRow, Alerts!Idle
<1>6. TickInv /\ CallInv /\ OutboxInv /\ JournalInv /\ FailuresHold
  BY <1>5 DEF TickInv, CallInv, OutboxInv, JournalInv, FailuresHold
<1>7. JournalledBeforeAlert
  BY <1>5 DEF JournalledBeforeAlert, Outbox!Present
<1>8. StepsKept
  BY <1>5 DEF StepsKept
<1>9. QED
  BY <1>2, <1>4, <1>5, <1>6, <1>7, <1>8 DEF IInv

(* Every step keeps the inductive invariant.                                *)
LEMMA NextInv == IInv /\ [Next]_vars => IInv'
<1> SUFFICES ASSUME IInv, [Next]_vars PROVE IInv'
  OBVIOUS
<1>0. /\ PlanAssumption /\ Tables!IInv /\ Alerts!IInv /\ tick \in {NoTick} \cup Ticks
      /\ Tables!LedgerAssumption
      /\ Alerts!TimesAssumption /\ Alerts!EvalAssumption
  BY LayerAssumptions DEF IInv
<1>1. StoresGrow
  BY StepGrows
<1>2. Tables!IInv'
  BY <1>0, IsLedgerStep, Tables!NextInv DEF Tables!ledgerVars
<1>3. Alerts!IInv'
  BY <1>0, IsOutboxStep, Alerts!InvSteps DEF Alerts!outboxVars
<1>4. PlanAssumption'
  BY <1>0 DEF PlanAssumption
<1>5. tick' \in {NoTick} \cup Ticks /\ TickInv'
  BY <1>1, StepTick
<1>6. CallInv' /\ OutboxInv' /\ JournalInv'
  BY StepCall, StepOutbox, StepJournal
<1>7. JournalledBeforeAlert' /\ StepsKept' /\ FailuresHold'
  BY <1>1, StepJournalledFirst, StepSteps, StepFailures
<1>8. (tick \in {NoTick} \cup Ticks)'
  BY <1>5 DEF NoTick, Ticks, Ledger!Errors
<1>9. QED
  BY <1>2, <1>3, <1>4, <1>5, <1>6, <1>7, <1>8 DEF IInv

(* The inductive invariant holds in every reachable state.                  *)
LEMMA RuntimeInvariant == PlanAssumption /\ Spec => []IInv
BY InitInv, NextInv, PTL DEF Spec

-----------------------------------------------------------------------------
(* A committed step keeps its word whatever crashed, failed or was repeated *)
(* before its commit: journalled in time, and the alert it owes delivered   *)
(* exactly once, in time (runtime/shadow.py, tick; alerts/outbox.py).       *)
THEOREM StepsStayKept == PlanAssumption /\ Spec => []CommittedStepsHold
<1>1. IInv => CommittedStepsHold
  <2> SUFFICES ASSUME IInv, NEW r \in Runs, NEW i \in 1 .. runs[r].next
               PROVE  LET d == Plan[r].jobs[i]
                          k == <<d, Plan[r].destination>>
                      IN
                      /\ \E row \in journal :
                            /\ row.decision = d
                            /\ EvalAt[d] <= row.at /\ row.at <= runs[r].lastAt
                      /\ (d \in Alerting /\ Plan[r].deliver) =>
                            /\ outbox[k].status = "DELIVERED"
                            /\ received[k] = 1
                            /\ outbox[k].at <= EvalAt[d] + Plan[r].ttl
                            /\ outbox[k].at <= runs[r].lastAt
    BY DEF CommittedStepsHold
  <2>1. Kept(r, i, runs[r].lastAt)
    BY DEF IInv, StepsKept
  <2>2. i \in 1 .. Len(Plan[r].jobs) /\ PlanAssumption
    BY RunFacts DEF IInv
  <2>3. KeyOf(r, i) \in AlertKeys
    BY <2>2, JobFacts
  <2>4. outbox[KeyOf(r, i)].status = "DELIVERED" => received[KeyOf(r, i)] = 1
    BY <2>3 DEF IInv, Alerts!IInv, Alerts!RowIsTruthful
  <2>5. Owed(r, i) =>
            /\ outbox[KeyOf(r, i)].status = "DELIVERED" /\ received[KeyOf(r, i)] = 1
            /\ outbox[KeyOf(r, i)].at <= EvalAt[Plan[r].jobs[i]] + Plan[r].ttl
            /\ outbox[KeyOf(r, i)].at <= runs[r].lastAt
    BY <2>1, <2>4 DEF Kept, Delivered, DeadlineOf
  <2>6. QED
    BY <2>1, <2>5 DEF Kept, Recorded, Owed, KeyOf
<1>2. QED
  BY <1>1, RuntimeInvariant, PTL

(* No alert leaves before its decision is journalled, and none leaves twice *)
(* over all runs and restarts (runtime/shadow.py, tick).                    *)
THEOREM AlertsStaySound == PlanAssumption /\ Spec => []AlertsAreSound
<1>1. IInv => AlertsAreSound
  BY DEF IInv, Alerts!IInv, Alerts!AtMostOnce, AlertsAreSound, AlertsAtMostOnce,
         Outbox!AtMostOnce
<1>2. QED
  BY <1>1, RuntimeInvariant, PTL

(* A row of runtime.db is explained by its audit, whatever happened inside  *)
(* the ticks, and a failed run by what the other stores have: an alert not  *)
(* known to be delivered, a conflict, or a failing store.                   *)
THEOREM RunsStayExplained == PlanAssumption /\ Spec => []RunsAreExplained
<1>1. PlanAssumption /\ Init => Tables!Explained
  <2> SUFFICES ASSUME PlanAssumption, Init, NEW r \in Runs
               PROVE  Tables!Explains(r, audit[r], runs[r])
    BY DEF Tables!Explained
  <2>1. audit[r] = <<>> /\ Len(audit[r]) = 0 /\ runs[r].state = "ABSENT"
    BY DEF Init, Ledger!Init, Ledger!NoRun
  <2>2. QED
    BY <2>1 DEF Tables!Explains
<1>2. IInv /\ Tables!Explained /\ [Next]_vars => Tables!Explained'
  <2> SUFFICES ASSUME IInv, Tables!Explained, [Next]_vars PROVE Tables!Explained'
    OBVIOUS
  <2>1. Tables!IInv /\ Tables!LedgerAssumption
    BY LayerAssumptions DEF IInv
  <2>2. QED
    BY <2>1, IsLedgerStep, Tables!StepExplained DEF Tables!ledgerVars
<1>3. Tables!Explained => Ledger!AuditExplainsRun
  BY DEF Tables!Explained, Tables!Explains, Ledger!AuditExplainsRun, Tables!IsLastTransition,
         Ledger!IsLastTransition, Tables!After, Ledger!After, Tables!Follows, Ledger!Follows,
         Tables!IsDue, Ledger!IsDue, Tables!Total, Ledger!Total, Tables!Terminal,
         Ledger!Terminal
<1>4. IInv => FailureIsExplained
  BY DEF IInv, FailuresHold, FailureHolds, Stuck, FailureIsExplained, KeyOf, DeadlineOf
<1>5. IInv /\ Tables!Explained => RunsAreExplained
  BY <1>3, <1>4 DEF RunsAreExplained
<1>6. QED
  BY <1>1, <1>2, <1>5, RuntimeInvariant, PTL DEF Spec

(* Refinement: the runtime, with its ticks interrupted anywhere, implements *)
(* the ledger, in which a tick is one step.                                 *)
THEOREM RuntimeKeepsLedger == PlanAssumption /\ Spec => ImplementsLedger
<1>1. Init => Ledger!Init
  BY DEF Init
<1>2. ASSUME Tables!Next PROVE Ledger!Next
  <2>1. ASSUME NEW r \in Runs, NEW at \in Times, Tables!Register(r, at)
        PROVE  Ledger!Register(r, at)
    BY <2>1, Zenon
       DEF Ledger!Register, Tables!Register, Ledger!Log, Tables!Log,
           Ledger!Event, Tables!Event, Ledger!Total, Tables!Total
  <2>2. ASSUME NEW r \in Runs, NEW at \in Times, NEW running \in BOOLEAN,
               Tables!SetRunning(r, running, at)
        PROVE  Ledger!SetRunning(r, running, at)
    BY <2>2, Zenon
       DEF Ledger!SetRunning, Tables!SetRunning, Ledger!Log, Tables!Log, Ledger!Event,
           Tables!Event, Ledger!States, Tables!States, Ledger!Terminal, Tables!Terminal
  <2>3. ASSUME NEW r \in Runs, NEW at \in Times, NEW n \in 1 .. MaxJobs, Tables!Tick(r, at, n)
        PROVE  Ledger!Tick(r, at, n)
    BY <2>3, CommitIsCommit, Zenon
       DEF Ledger!Tick, Tables!Tick, Ledger!Total, Tables!Total, Ledger!IsDue, Tables!IsDue,
           Ledger!Errors, Tables!Errors
  <2>4. QED
    BY <1>2, <2>1, <2>2, <2>3, Zenon DEF Tables!Next, Ledger!Next
<1>3. IInv /\ [Next]_vars => [Ledger!Next]_(Ledger!ledgerVars)
  BY <1>2, IsLedgerStep DEF Ledger!ledgerVars
<1>4. QED
  BY <1>1, <1>3, RuntimeInvariant, PTL DEF Spec, ImplementsLedger, Ledger!Spec

(* A run only moves forward, whatever happens inside of its ticks           *)
(* (runtime/shadow.py, _transition and tick): what RunLedgerProofs proves   *)
(* of the ledger holds of the runtime, which implements it.                 *)
THEOREM RuntimeNeverGoesBack == PlanAssumption /\ Spec => RunsOnlyAdvance
<1>1. IInv /\ [Next]_vars => [\A r \in Runs : Tables!Advances(r)]_(Tables!ledgerVars)
  <2> SUFFICES ASSUME IInv, [Next]_vars
               PROVE  [\A r \in Runs : Tables!Advances(r)]_(Tables!ledgerVars)
    OBVIOUS
  <2>1. Tables!IInv /\ Tables!LedgerAssumption
    BY LayerAssumptions DEF IInv
  <2>2. QED
    BY <2>1, IsLedgerStep, Tables!StepAdvances DEF Tables!ledgerVars
<1>2. PlanAssumption /\ Spec => [][\A r \in Runs : Tables!Advances(r)]_(Tables!ledgerVars)
  BY <1>1, RuntimeInvariant, PTL DEF Spec
<1>3. QED
  BY <1>2 DEF RunsOnlyAdvance, Ledger!RunsOnlyAdvance, Tables!Advances, Tables!ledgerVars,
              Ledger!ledgerVars, Tables!Terminal, Ledger!Terminal

(* Refinement: the runtime drives the outbox as one of its dispatchers      *)
(* does, at any instants, so what AlertOutboxProofs proves of the outbox    *)
(* holds of the runtime's as well.                                          *)
THEOREM RuntimeKeepsOutbox == PlanAssumption /\ Spec => Outbox!Spec
<1>1. Init => Outbox!Init
  BY DEF Init
<1>2. ASSUME Alerts!Next PROVE Outbox!Next
  <2>1. Alerts!Dispatch("tick") => Outbox!Dispatch("tick")
    BY Zenon
       DEF Alerts!Dispatch, Outbox!Dispatch, Alerts!ClaimToSend, Outbox!ClaimToSend,
           Alerts!ClaimExpired, Outbox!ClaimExpired, Alerts!ReturnPrior, Outbox!ReturnPrior,
           Alerts!Accepts, Outbox!Accepts, Alerts!Present, Outbox!Present,
           Alerts!Claimable, Outbox!Claimable, Alerts!WriteClaim, Outbox!WriteClaim,
           Alerts!outboxVars, Outbox!outboxVars
  <2>2. Alerts!Send("tick") => Outbox!Send("tick")
    BY Zenon DEF Alerts!Send, Outbox!Send, Alerts!Outcomes, Outbox!Outcomes,
                 Alerts!durable, Outbox!durable
  <2>3. Alerts!Finish("tick") => Outbox!Finish("tick")
    BY Zenon DEF Alerts!Finish, Outbox!Finish, Alerts!ClaimIsCurrent, Outbox!ClaimIsCurrent,
                 Alerts!Idle, Outbox!Idle
  <2>4. Alerts!Abandon("tick") => Outbox!Abandon("tick")
    BY Zenon DEF Alerts!Abandon, Outbox!Abandon, Alerts!durable, Outbox!durable,
                 Alerts!Idle, Outbox!Idle
  <2>5. QED
    BY <1>2, <2>1, <2>2, <2>3, <2>4 DEF Alerts!Next, Outbox!Next
<1>3. IInv /\ [Next]_vars => [Outbox!Next]_(Outbox!outboxVars)
  <2> SUFFICES ASSUME IInv, [Next]_vars PROVE [Outbox!Next]_(Outbox!outboxVars)
    OBVIOUS
  <2>1. tick \in {NoTick} \cup Ticks
    BY DEF IInv
  <2>2. QED
    BY <1>2, <2>1, IsOutboxStep DEF Outbox!outboxVars
<1>4. QED
  BY <1>1, <1>3, RuntimeInvariant, PTL DEF Spec, Outbox!Spec
=============================================================================
