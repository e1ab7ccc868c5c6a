---------------------------- MODULE MCDashboard ----------------------------
(* Accounts: two requests at a time, up to three accounts, a code with a    *)
(* limit of one whose other settings may be edited, and one without a limit.*)
(*                                                                          *)
(* Saves: two threads, two scans of one bar, a connection test and two      *)
(* settings saves.  Scans: two threads, three scans over three bars, the    *)
(* second at a price of 0.  Either may die once.                            *)
(*                                                                          *)
(* A part is chosen at the start and the others stay as they began.         *)
EXTENDS Accounts, MarketScan, TLC

CONSTANTS Parts, c1, c2

VARIABLE part

Offer(max, days, expires, active) ==
    [max |-> max, days |-> days, expires |-> expires, active |-> active]
MCOffers ==
    (c1 :> {Offer(1, 1, 1, TRUE), Offer(1, 0, Null, FALSE)}) @@ (c2 :> {Offer(Null, 1, Null, TRUE)})
(* One code, never edited: what is redeemed beyond the limit was in time.   *)
OneOffer == (c1 :> {Offer(1, 1, Null, TRUE)}) @@ (c2 :> {})
MCEnds == {2}

MCCloses == <<2, 0, 3>>

ASSUME MarketScanAssumption

MCSymmetry ==
    Permutations(Users) \cup Permutations(Requests) \cup Permutations(Threads)

partsVars == <<part, vars, scanVars>>

PartsInit == part \in Parts /\ Init /\ ScanInit
PartsNext ==
    \/ part = "accounts" /\ Next /\ UNCHANGED <<part, scanVars>>
    \/ part = "saves" /\ ScanNext /\ bar' <= 1 /\ scans' <= 2 /\ UNCHANGED <<part, vars>>
    \/ part = "scans" /\ ScanNext /\ probes' = 0 /\ settings' = 0 /\ UNCHANGED <<part, vars>>
PartsSpec == PartsInit /\ [][PartsNext]_partsVars
=============================================================================
