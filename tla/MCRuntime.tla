----------------------------- MODULE MCRuntime -----------------------------
(* The shadow runtime: three runs that share a decision.  The second owes   *)
(* the very alert of the first, the third the same alert with a shorter     *)
(* time to live.                                                            *)
EXTENDS ShadowRuntime, TLC

CONSTANTS r1, r2, r3, d1, d2

Deliver(jobs, ttl) ==
    [jobs |-> jobs, destination |-> "desk", deliver |-> TRUE, ttl |-> ttl]
SharedDecision ==
    r1 :> Deliver(<<d1, d2>>, 1) @@ r2 :> Deliver(<<d1>>, 1) @@ r3 :> Deliver(<<d1>>, 0)
MCEvalAt == d1 :> 0 @@ d2 :> 1
MCTimes == 0 .. 1

ASSUME PlanAssumption
=============================================================================
