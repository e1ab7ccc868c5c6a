----------------------------- MODULE MCControl -----------------------------
(* Alerts: two dispatchers, two alerts whose decisions are one instant      *)
(* apart, three instants and two attempts per alert.                        *)
(*                                                                          *)
(* Commands: two planes, one run of two requests, four command ids, three   *)
(* of which are used with other contents as well.                           *)
(*                                                                          *)
(* The two have no state in common: a part is chosen at the start and the   *)
(* other one stays as it began.                                             *)
EXTENDS AlertOutbox, LocalControl, TLC

CONSTANTS Parts, k1, k2, p1, p2, r1, c1, c2, c3, c4

VARIABLE part

MCTimes == 0 .. 2
MCEvalAt == (k1 :> 0) @@ (k2 :> 1)

Cmd(id, action, at, digest) ==
    [id |-> id, principal |-> "ops", run |-> r1, digest |-> digest,
     action |-> action, at |-> at, jobs |-> 1]
MCCommands ==
    {Cmd(c1, "REGISTER", 0, "plan"), Cmd(c1, "STATUS", 0, "plan"),
     Cmd(c2, "START", 0, "plan"), Cmd(c2, "REGISTER", 0, "other"),
     Cmd(c3, "TICK", 0, "plan"), Cmd(c3, "TICK", 1, "other"),
     Cmd(c4, "PAUSE", 0, "plan")}
AllGrants ==
    {[principal |-> "ops", run |-> r1, digest |-> d,
      actions |-> {"REGISTER", "START", "PAUSE", "TICK", "STATUS"}] : d \in {"plan", "other"}}
MCGrants == {AllGrants, {}}
MCSchedule == r1 :> <<0, 1>>
MCCommandTimes == 0 .. 1

ASSUME ControlAssumption

partsVars == <<part, outboxVars, controlVars>>

PartsInit ==
    /\ part \in Parts
    /\ Init /\ ControlInit
    /\ part # "commands" => grants = [p \in Planes |-> {}]
PartsNext ==
    \/ part = "alerts" /\ Next /\ UNCHANGED <<part, controlVars>>
    \/ part = "commands" /\ ControlNext /\ UNCHANGED <<part, outboxVars>>
PartsSpec == PartsInit /\ [][PartsNext]_partsVars /\ Fairness
=============================================================================
