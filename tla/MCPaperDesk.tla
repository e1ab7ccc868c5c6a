---------------------------- MODULE MCPaperDesk ----------------------------
(* Orders: two requests at a time, two orders, and a cap of one approval.   *)
(*                                                                          *)
(* Plans: one symbol at two prices, planned twice with the inputs below.    *)
(*                                                                          *)
(* A part is chosen at the start and the other one stays as it began.       *)
EXTENDS PaperOrders, PaperPlan, TLC

CONSTANTS Parts, S

VARIABLE part

Input(auto, side, quantity, stop, notional, share, loss) ==
    [auto |-> auto, side |-> side, quantity |-> quantity, cash |-> 6,
     maxNotional |-> notional, maxGross |-> 8, maxInstrument |-> 6,
     maxShare |-> share, minCash |-> 1, stop |-> stop, maxLoss |-> loss]
Whole == [part |-> 1, of |-> 1]
Half == [part |-> 1, of |-> 2]

(* Sized automatically: bound by the loss, the notional or the account, or  *)
(* refused; a concentration below one; sides, stops and quantities entered, *)
(* and amounts that are not positive.                                       *)
MCInputs ==
    {Input(TRUE, "BUY", 3, 1, 6, Whole, 2), Input(TRUE, "BUY", 3, 1, 4, Whole, 9),
     Input(TRUE, "BUY", 3, 2, 6, Half, 9), Input(TRUE, "SELL", 1, 3, 6, Whole, 9),
     Input(FALSE, "BUY", 1, 1, 6, Whole, 2), Input(FALSE, "BUY", 2, 3, 6, Whole, 2),
     Input(FALSE, "SELL", 1, 3, 6, Whole, 2), Input(FALSE, "BUY", 1, 0, 6, Whole, 2)}
MCWholeInputs == {input \in MCInputs : input.auto /\ input.maxShare = Whole}

MCSymbols == {S}

OrderSymmetry == Permutations(Orders) \cup Permutations(Threads)

partsVars == <<part, vars, planVars>>

ASSUME PlanAssumption

PartsInit ==
    /\ part \in Parts
    /\ Init /\ PlanInit
    /\ part # "plans" => price = [s \in Symbols |-> 2]
PartsNext ==
    \/ part = "orders" /\ Next /\ UNCHANGED <<part, planVars>>
    \/ part = "plans" /\ PlanNext /\ UNCHANGED <<part, vars>>
PartsSpec == PartsInit /\ [][PartsNext]_partsVars
=============================================================================
