--------------------------- MODULE ShadowRuntime ---------------------------
(***************************************************************************)
(* The restartable offline runtime (src/app/runtime/shadow.py) with the    *)
(* decision journal (src/app/evaluation/journal.py, record()) and the      *)
(* alert outbox it writes to.  The three are separate SQLite files: a tick *)
(* holds BEGIN IMMEDIATE on runtime.db from its first read to its commit,  *)
(* while every journal row, alert claim and alert outcome is durable at    *)
(* once.  A crash in between rolls back runtime.db and nothing else.       *)
(*                                                                         *)
(* Composing a request is a pure function of it, so a decision stands for  *)
(* its request.  Times are those the operator passes on the command line.  *)
(***************************************************************************)
EXTENDS Naturals, Sequences

CONSTANTS
    Runs, Times, MaxJobs, MaxEvents,
    Decisions,      \* distinct decisions of the requests of all plans
    EvalAt,         \* evaluation_at of each decision
    Alerting,       \* the decisions whose disposition is ALERT
    Destinations,   \* alert destinations
    Plan            \* Plan[r]: jobs, destination, deliver_alerts, alert_ttl_us

PlanAssumption ==
    /\ EvalAt \in [Decisions -> Nat]
    /\ Alerting \subseteq Decisions
    /\ Plan \in [Runs -> [jobs : Seq(Decisions), destination : Destinations,
                          deliver : BOOLEAN, ttl : Nat]]
    /\ \A r \in Runs : \A i \in 1 .. Len(Plan[r].jobs) - 1 :
            EvalAt[Plan[r].jobs[i]] < EvalAt[Plan[r].jobs[i + 1]]
    /\ Times \subseteq Nat
    /\ MaxJobs \in Nat

VARIABLES
    runs, audit,                        \* runtime.db
    journal,                            \* journal.db: rows of evaluation_decisions
    outbox, events, call, received,     \* outbox.db and the local alert sink
    tick                                \* the tick that holds the write lock

effectVars == <<journal, outbox, events, call, received>>
vars == <<runs, audit, journal, outbox, events, call, received, tick>>

Ledger == INSTANCE RunLedger
    WITH Schedule <- [r \in Runs |->
            [i \in 1 .. Len(Plan[r].jobs) |-> EvalAt[Plan[r].jobs[i]]]]

(* The only dispatcher is the tick; its coordinator is built with the       *)
(* destination of the plan as the whole allowlist and never asks to retry.  *)
AlertKeys == Decisions \X Destinations
Outbox == INSTANCE AlertOutbox
    WITH Workers <- {"tick"}, Keys <- AlertKeys, Allowed <- AlertKeys,
         EvalAt <- [k \in AlertKeys |-> EvalAt[k[1]]],
         Times <- Nat, MaxAttempt <- 2

NoTick == [pc |-> "none"]
Ticks == [pc : {"job", "alert", "failed"}, run : Runs, at : Times,
          left : 0 .. MaxJobs, index : Nat, error : Ledger!Errors \cup {""}]
Receipts == [decision : Decisions, at : Times]

(* Types: the ledger, the outbox, the journal's receipts, and a tick that   *)
(* never does more than max_jobs.                                           *)
TypeOK ==
    /\ Ledger!TypeOK
    /\ Outbox!TypeOK
    /\ journal \subseteq Receipts
    /\ tick \in {NoTick} \cup Ticks

Init ==
    /\ Ledger!Init
    /\ Outbox!Init
    /\ journal = {}
    /\ tick = NoTick

-----------------------------------------------------------------------------
Register(r, at) ==
    /\ tick = NoTick
    /\ Ledger!Register(r, at)
    /\ UNCHANGED <<effectVars, tick>>

SetRunning(r, running, at) ==
    /\ tick = NoTick
    /\ Ledger!SetRunning(r, running, at)
    /\ UNCHANGED <<effectVars, tick>>

(* tick(): takes the write lock and loads the run.                          *)
(* A tick of a run that is not RUNNING returns its status and does nothing. *)
TickBegin(r, at, n) ==
    /\ tick = NoTick
    /\ runs[r].state = "RUNNING"
    /\ at >= runs[r].lastAt
    /\ tick' = [pc |-> "job", run |-> r, at |-> at, left |-> n,
                index |-> runs[r].next, error |-> ""]
    /\ UNCHANGED <<runs, audit, effectVars>>

Jobs == Plan[tick.run].jobs
Job == Jobs[tick.index + 1]
HasJob ==
    /\ tick.left > 0
    /\ tick.index < Len(Jobs)
    /\ EvalAt[Job] <= tick.at

(* Bug variant: the failed step is counted.                                 *)
FailCounted(error) ==
    tick' = [tick EXCEPT !.pc = "failed", !.error = error, !.index = @ + 1]

StepDone ==
    tick' = [tick EXCEPT !.pc = "job", !.index = @ + 1, !.left = @ - 1]
Fail(error) == tick' = [tick EXCEPT !.pc = "failed", !.error = error]

(* journal.record(): the first receipt of a decision stays, and a receipt   *)
(* earlier than it is refused.                                              *)
JournalAccepts(d, at) == \A row \in journal : row.decision = d => row.at <= at

(* Bug variant: the decision of an alert is not journalled before it.       *)
RecordUnlessAlerting ==
    /\ tick.pc = "job" /\ HasJob
    /\ tick' = [tick EXCEPT !.pc = "alert"]
    /\ UNCHANGED <<runs, audit, effectVars>>

RecordDecision ==
    /\ tick.pc = "job" /\ HasJob
    /\ JournalAccepts(Job, tick.at)
    /\ journal' = IF \E row \in journal : row.decision = Job THEN journal
                  ELSE journal \cup {[decision |-> Job, at |-> tick.at]}
    /\ IF Job \in Alerting /\ Plan[tick.run].deliver
       THEN tick' = [tick EXCEPT !.pc = "alert"]
       ELSE StepDone
    /\ UNCHANGED <<runs, audit, outbox, events, call, received>>

RefuseReceipt ==
    /\ tick.pc = "job" /\ HasJob
    /\ ~JournalAccepts(Job, tick.at)
    /\ Fail("ValueError")
    /\ UNCHANGED <<runs, audit, effectVars>>

(* dispatch() of the alert of the job: its claim, its send into the local   *)
(* recording sink, which always takes it, and its finish.                   *)
AlertKey == <<Job, Plan[tick.run].destination>>
Expiry == EvalAt[Job] + Plan[tick.run].ttl

(* Bug variants: a claim that is only STARTED counts as delivered, and one  *)
(* that was DELIVERED before a crash fails the run.                         *)
ClaimTrustsStarted ==
    /\ tick.pc = "alert" /\ call["tick"].pc = "idle"
    /\ \/ /\ Outbox!ClaimToSend("tick", AlertKey, Expiry, tick.at, FALSE)
          /\ UNCHANGED tick
       \/ /\ Outbox!ReturnPrior("tick", AlertKey, Expiry, tick.at, FALSE)
          /\ StepDone
    /\ UNCHANGED <<runs, audit, journal>>
ClaimRejectsPrior ==
    /\ tick.pc = "alert" /\ call["tick"].pc = "idle"
    /\ \/ /\ Outbox!ClaimToSend("tick", AlertKey, Expiry, tick.at, FALSE)
          /\ UNCHANGED tick
       \/ /\ Outbox!ReturnPrior("tick", AlertKey, Expiry, tick.at, FALSE)
          /\ Fail("RuntimeError")
    /\ UNCHANGED <<runs, audit, journal>>

ClaimAlert ==
    /\ tick.pc = "alert" /\ call["tick"].pc = "idle"
    /\ \/ /\ Outbox!ClaimToSend("tick", AlertKey, Expiry, tick.at, FALSE)
          /\ UNCHANGED tick
       \/ /\ Outbox!ClaimExpired("tick", AlertKey, Expiry, tick.at, FALSE)
          /\ Fail("RuntimeError")
       \/ /\ Outbox!ReturnPrior("tick", AlertKey, Expiry, tick.at, FALSE)
          /\ IF outbox[AlertKey].status = "DELIVERED" THEN StepDone
             ELSE Fail("RuntimeError")
       \/ /\ ~Outbox!Accepts(AlertKey, Expiry, tick.at)
          /\ Fail("ValueError")
          /\ UNCHANGED <<outbox, events, call, received>>
    /\ UNCHANGED <<runs, audit, journal>>

SendAlert ==
    /\ tick.pc = "alert"
    /\ Outbox!Send("tick")
    /\ call'["tick"].status = "DELIVERED"
    /\ UNCHANGED <<runs, audit, journal, tick>>

FinishAlert ==
    /\ tick.pc = "alert"
    /\ Outbox!Finish("tick")
    /\ StepDone
    /\ UNCHANGED <<runs, audit, journal>>

(* The journal or the outbox is unavailable (disk, lock): the exception is  *)
(* caught like any other and fails the run.                                 *)
StorageError ==
    /\ \/ tick.pc = "job" /\ HasJob
       \/ tick.pc = "alert" /\ call["tick"].pc # "send"
    /\ Fail("OSError")
    /\ call' = [call EXCEPT !["tick"] = Outbox!Idle]
    /\ UNCHANGED <<runs, audit, journal, outbox, events, received>>

(* The end of the loop, or of the handler that marks the run FAILED.        *)
TickCommit ==
    /\ \/ tick.pc = "job" /\ ~HasJob
       \/ tick.pc = "failed"
    /\ Ledger!Commit(tick.run, tick.at, tick.index, tick.error)
    /\ tick' = NoTick
    /\ UNCHANGED effectVars

(* The process dies or is interrupted, or runtime.db fails: the transaction *)
(* of the tick is rolled back, and nothing else is.                         *)
Crash ==
    /\ tick # NoTick
    /\ tick' = NoTick
    /\ IF call["tick"].pc = "idle"
       THEN UNCHANGED <<outbox, events, call, received>>
       ELSE Outbox!Abandon("tick")
    /\ UNCHANGED <<runs, audit, journal>>

Command ==
    \E r \in Runs, at \in Times :
        \/ Register(r, at)
        \/ \E running \in BOOLEAN : SetRunning(r, running, at)
        \/ \E n \in 1 .. MaxJobs : TickBegin(r, at, n)

TickStep ==
    \/ RecordDecision \/ RefuseReceipt
    \/ ClaimAlert \/ SendAlert \/ FinishAlert
    \/ TickCommit

Next == Command \/ TickStep \/ StorageError \/ Crash

(* A tick that has begun runs: it is a loop without waits.  Nobody has to   *)
(* issue a command, and nothing has to fail.                                *)
Spec == Init /\ [][Next]_vars

-----------------------------------------------------------------------------
(* A committed step keeps its word whatever crashed before it: its decision *)
(* is in the journal since a time between the evaluation and the run's      *)
(* clock, and its alert, if it owes one, was delivered exactly once, within *)
(* its time to live.                                                        *)
CommittedStepsHold ==
    \A r \in Runs : \A i \in 1 .. runs[r].next :
        LET d == Plan[r].jobs[i]
            k == <<d, Plan[r].destination>>
        IN
        /\ \E row \in journal :
            row.decision = d /\ EvalAt[d] <= row.at /\ row.at <= runs[r].lastAt
        /\ (d \in Alerting /\ Plan[r].deliver) =>
            /\ outbox[k].status = "DELIVERED"
            /\ received[k] = 1
            /\ outbox[k].at <= EvalAt[d] + Plan[r].ttl
            /\ outbox[k].at <= runs[r].lastAt

(* No decision is alerted that the journal does not have, nor before it.    *)
JournalledBeforeAlert ==
    \A k \in AlertKeys :
        Outbox!Present(k) =>
            \E row \in journal : row.decision = k[1] /\ row.at <= outbox[k].at

(* A run fails for a reason that can be read off the durable tables: an     *)
(* alert nobody can prove delivered, a receipt or a claim later than the    *)
(* tick, another expiry under the same key, or a failing store.             *)
FailureIsExplained ==
    \A r \in Runs : runs[r].state = "FAILED" =>
        LET e == audit[r][Len(audit[r])]
            d == Plan[r].jobs[runs[r].next + 1]
            k == <<d, Plan[r].destination>>
        IN
        /\ e.step = runs[r].next
        /\ e.detail = "RuntimeError" =>
            outbox[k].status \in {"STARTED", "EXPIRED"}
        /\ e.detail = "ValueError" =>
            \/ \E row \in journal : row.decision = d /\ row.at > e.at
            \/ /\ Outbox!Present(k)
               /\ \/ outbox[k].at > e.at
                  \/ outbox[k].expires # EvalAt[d] + Plan[r].ttl

(* A row of runtime.db is explained by its audit, and a failure by the      *)
(* other stores.                                                            *)
RunsAreExplained == Ledger!AuditExplainsRun /\ FailureIsExplained

(* Whatever happens inside ticks, runtime.db shows runs that are registered,*)
(* toggled and ticked one transaction at a time.                            *)
ImplementsLedger == Ledger!Spec

(* A run only moves forward: its checkpoint and its clock never go back,    *)
(* and a terminal run never changes again.                                  *)
RunsOnlyAdvance == Ledger!RunsOnlyAdvance

(* The alert sink sees each alert at most once over all runs and restarts.  *)
AlertsAtMostOnce == Outbox!AtMostOnce

(* Every alert is journalled before it is sent, and sent once at most.      *)
AlertsAreSound == JournalledBeforeAlert /\ AlertsAtMostOnce

=============================================================================
