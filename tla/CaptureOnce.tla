----------------------------- MODULE CaptureOnce -----------------------------
(***************************************************************************)
(* What a capture promises for each cycle (src/app/capture/coordinator.py, *)
(* docstrings): its bars are acquired once at most, what is sealed was     *)
(* acquired, a result comes from a seal, and a cycle that was interrupted  *)
(* before its seal is never acquired again.                                *)
(***************************************************************************)
EXTENDS Naturals

CONSTANT Cycles

VARIABLES
    stage,      \* how far a cycle has come
    acquired    \* how often the batch of a cycle was received

vars == <<stage, acquired>>

Init ==
    /\ stage = [c \in Cycles |-> "NEW"]
    /\ acquired = [c \in Cycles |-> 0]

Move(c, from, to) ==
    /\ stage[c] \in from
    /\ stage' = [stage EXCEPT ![c] = to]
    /\ UNCHANGED acquired

Claim(c) == Move(c, {"NEW"}, "ACQUIRING")

Acquire(c) ==
    /\ stage[c] = "ACQUIRING" /\ acquired[c] = 0
    /\ acquired' = [acquired EXCEPT ![c] = 1]
    /\ UNCHANGED stage

Seal(c) == acquired[c] = 1 /\ Move(c, {"ACQUIRING"}, "INPUTS_SEALED")
Complete(c) == Move(c, {"INPUTS_SEALED"}, "COMPLETE")
Block(c) == acquired[c] = 1 /\ Move(c, {"ACQUIRING", "INPUTS_SEALED"}, "BLOCKED")
GiveUp(c) == Move(c, {"ACQUIRING"}, "UNRESOLVED")

Next ==
    \E c \in Cycles :
        Claim(c) \/ Acquire(c) \/ Seal(c) \/ Complete(c) \/ Block(c) \/ GiveUp(c)

Spec == Init /\ [][Next]_vars
=============================================================================
