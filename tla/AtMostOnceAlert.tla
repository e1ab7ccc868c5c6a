-------------------------- MODULE AtMostOnceAlert --------------------------
(***************************************************************************)
(* What an alert outbox promises, with no dispatchers, rows, attempts or   *)
(* clocks: an alert is handed to the outside world at most once, and it is *)
(* called delivered, open (again) or expired only when that is true.       *)
(***************************************************************************)
EXTENDS Naturals

CONSTANT Alerts

VARIABLES
    phase,       \* what the outbox says of each alert
    received     \* how often the outside world got each alert

promiseVars == <<phase, received>>


Init ==
    /\ phase = [a \in Alerts |-> "open"]
    /\ received = [a \in Alerts |-> 0]

(* An attempt to deliver begins; it may begin again after one that failed. *)
Begin(a) ==
    /\ phase[a] = "open"
    /\ phase' = [phase EXCEPT ![a] = "pending"]
    /\ UNCHANGED received

(* The alert is past its time before anything was sent.                    *)
Expire(a) ==
    /\ phase[a] = "open"
    /\ phase' = [phase EXCEPT ![a] = "expired"]
    /\ UNCHANGED received

(* The outside world gets it: only during an attempt, and only once.       *)
Arrive(a) ==
    /\ phase[a] = "pending"
    /\ received[a] = 0
    /\ received' = [received EXCEPT ![a] = 1]
    /\ UNCHANGED phase

(* The attempt ends with an honest verdict; "unknown" is always honest.    *)
Settle(a) ==
    /\ phase[a] = "pending"
    /\ \/ received[a] = 1 /\ phase' = [phase EXCEPT ![a] = "delivered"]
       \/ received[a] = 0 /\ phase' = [phase EXCEPT ![a] = "open"]
       \/ phase' = [phase EXCEPT ![a] = "unknown"]
    /\ UNCHANGED received

Next == \E a \in Alerts : Begin(a) \/ Expire(a) \/ Arrive(a) \/ Settle(a)

Spec == Init /\ [][Next]_promiseVars
=============================================================================
