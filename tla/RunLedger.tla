----------------------------- MODULE RunLedger -----------------------------
(***************************************************************************)
(* The runs of the shadow runtime as runtime.db shows them to everybody    *)
(* else (src/app/runtime/shadow.py): the tables shadow_runs and            *)
(* shadow_events, changed by one transaction at a time.  A tick is one     *)
(* step here; what it does in between, and how it can be interrupted, is   *)
(* in ShadowRuntime, which implements this module.                         *)
(*                                                                         *)
(* The plan of a run is a constant: registering a run_id again with        *)
(* another manifest is refused and changes nothing, registering it again   *)
(* with the same one changes nothing either.                               *)
(***************************************************************************)
EXTENDS Naturals, Sequences

CONSTANTS
    Runs,         \* run identifiers
    Schedule,     \* Schedule[r]: the evaluation_at of each request of the plan
    Times,        \* instants a caller may pass
    MaxJobs,      \* largest max_jobs a caller passes
    MaxEvents     \* bound on the audit length at which a run is still toggled

LedgerAssumption ==
    /\ Schedule \in [Runs -> Seq(Nat)]
    /\ \A r \in Runs : \A i \in 1 .. Len(Schedule[r]) - 1 :
            Schedule[r][i] < Schedule[r][i + 1]
    /\ Times \subseteq Nat

VARIABLES
    runs,         \* table shadow_runs: state, next_index, last_at
    audit         \* table shadow_events, split by run, in sequence order

ledgerVars == <<runs, audit>>

States == {"PAUSED", "RUNNING", "COMPLETE", "FAILED"}
Terminal == {"COMPLETE", "FAILED"}
(* The exception class a FAILED event carries: an unresolved alert, a time  *)
(* or content conflict, or a failing journal or outbox.                     *)
Errors == {"RuntimeError", "ValueError", "OSError"}

NoRun == [state |-> "ABSENT", next |-> 0, lastAt |-> 0]
Total(r) == Len(Schedule[r])

Event(name, step, at, detail) ==
    [event |-> name, step |-> step, at |-> at, detail |-> detail]

Init ==
    /\ runs = [r \in Runs |-> NoRun]
    /\ audit = [r \in Runs |-> <<>>]

Log(r, entries) == audit' = [audit EXCEPT ![r] = @ \o entries]

-----------------------------------------------------------------------------
(* register(): a new run is PAUSED at its first request.                    *)
Register(r, at) ==
    /\ runs[r].state = "ABSENT"
    /\ Total(r) > 0 => at <= Schedule[r][1]
    /\ runs' = [runs EXCEPT ![r] = [state |-> "PAUSED", next |-> 0, lastAt |-> at]]
    /\ Log(r, <<Event("REGISTERED", 0, at, "")>>)

(* Bug variant: a terminal run may be started again.                        *)
SetRunningAgain(r, running, at) ==
    LET state == IF running THEN "RUNNING" ELSE "PAUSED" IN
    /\ runs[r].state \in States \ {state}
    /\ at >= runs[r].lastAt
    /\ runs[r].state \in Terminal \/ Len(audit[r]) < MaxEvents
    /\ Log(r, <<Event(state, runs[r].next, at, "")>>)
    /\ runs' = [runs EXCEPT ![r] = [state |-> state, next |-> @.next, lastAt |-> at]]

(* start and pause; asking for the state the run is in only moves its clock *)
SetRunning(r, running, at) ==
    LET state == IF running THEN "RUNNING" ELSE "PAUSED" IN
    /\ runs[r].state \in States \ Terminal
    /\ at >= runs[r].lastAt
    /\ \/ /\ runs[r].state # state
          /\ Len(audit[r]) < MaxEvents
          /\ Log(r, <<Event(state, runs[r].next, at, "")>>)
       \/ runs[r].state = state /\ UNCHANGED audit
    /\ runs' = [runs EXCEPT ![r] = [state |-> state, next |-> @.next, lastAt |-> at]]

(* The end of a tick: its steps, its last event and the new row.            *)
Commit(r, at, index, error) ==
    LET done == index - runs[r].next
        state == IF error # "" THEN "FAILED"
                 ELSE IF index = Total(r) THEN "COMPLETE" ELSE "RUNNING"
    IN
    /\ runs' = [runs EXCEPT ![r] = [state |-> state, next |-> index, lastAt |-> at]]
    /\ Log(r, [i \in 1 .. done |-> Event("STEP", runs[r].next + i - 1, at, "")] \o
              (IF state = "RUNNING" THEN <<>> ELSE <<Event(state, index, at, error)>>))

(* A job of the plan that is due at the given time.                         *)
IsDue(r, i, at) == i \in 1 .. Total(r) /\ Schedule[r][i] <= at

(* A tick does up to max_jobs due jobs in schedule order; it stops short    *)
(* only because one of them failed, and then the run has FAILED.            *)
Tick(r, at, n) ==
    /\ runs[r].state = "RUNNING"
    /\ at >= runs[r].lastAt
    /\ \E index \in runs[r].next .. Total(r), error \in Errors \cup {""} :
        /\ \A i \in runs[r].next + 1 .. index : IsDue(r, i, at)
        /\ index - runs[r].next <= n
        /\ error = "" <=> ~(index - runs[r].next < n /\ IsDue(r, index + 1, at))
        /\ Commit(r, at, index, error)

Next ==
    \E r \in Runs, at \in Times :
        \/ Register(r, at)
        \/ \E running \in BOOLEAN : SetRunning(r, running, at)
        \/ \E n \in 1 .. MaxJobs : Tick(r, at, n)

Spec == Init /\ [][Next]_ledgerVars

-----------------------------------------------------------------------------
Rows == [state : States \cup {"ABSENT"}, next : Nat, lastAt : Nat]
Entries == [event : States \cup {"REGISTERED", "STEP"}, step : Nat, at : Nat,
            detail : Errors \cup {""}]

(* Types, and a checkpoint that stays within the schedule.                  *)
TypeOK ==
    /\ runs \in [Runs -> Rows]
    /\ audit \in [Runs -> Seq(Entries)]
    /\ \A r \in Runs : runs[r].next <= Total(r)

(* The checkpoint of a run after the given entry of its audit.              *)
After(e) == IF e.event = "STEP" THEN e.step + 1 ELSE e.step

(* Entry f may stand behind entry e.                                        *)
Follows(e, f) ==
    /\ f.step = After(e)
    /\ f.at >= e.at
    /\ e.event \notin Terminal
    /\ f.event # "REGISTERED"

(* The last entry of an audit that is not a step, and so names the state.   *)
IsLastTransition(h, i) ==
    h[i].event # "STEP" /\ \A j \in i + 1 .. Len(h) : h[j].event = "STEP"

(* The audit of a run replays to its row: registered once and first, every  *)
(* step once, in order and not before it was due, nothing after a terminal  *)
(* event, time never going back; the last transition is the state, and the  *)
(* last entry the checkpoint.                                               *)
AuditExplainsRun ==
    \A r \in Runs :
        LET h == audit[r] IN
        /\ runs[r].state = "ABSENT" <=> h = <<>>
        /\ h # <<>> =>
            /\ h[1].event = "REGISTERED" /\ h[1].step = 0
            /\ \E i \in 1 .. Len(h) :
                /\ IsLastTransition(h, i)
                /\ h[i].event = IF runs[r].state = "PAUSED" /\ i = 1
                                THEN "REGISTERED" ELSE runs[r].state
            /\ After(h[Len(h)]) = runs[r].next
            /\ h[Len(h)].at <= runs[r].lastAt
        /\ \A i \in 1 .. Len(h) - 1 : Follows(h[i], h[i + 1])
        /\ \A i \in 1 .. Len(h) : h[i].event = "STEP" => IsDue(r, h[i].step + 1, h[i].at)
        /\ runs[r].state = "COMPLETE" => runs[r].next = Total(r)

(* A run only moves forward: its checkpoint and its clock never go back,    *)
(* and a terminal run never changes again.                                  *)
RunsOnlyAdvance ==
    [][\A r \in Runs :
        /\ runs[r].next <= runs'[r].next
        /\ runs[r].lastAt <= runs'[r].lastAt
        /\ runs[r].state \in Terminal => runs'[r] = runs[r]
        /\ runs'[r].next > runs[r].next => runs[r].state = "RUNNING"]_ledgerVars
=============================================================================
