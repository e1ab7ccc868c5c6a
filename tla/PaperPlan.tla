------------------------------ MODULE PaperPlan -------------------------------
(***************************************************************************)
(* The paper planner of the dashboard (paper_plan() of                     *)
(* src/app/dashboard/live.py): a plan for one READY row of the last scan,  *)
(* sized by the user or from the paper account as it was last synced,      *)
(* checked by the engines of RiskDesk, and, when eligible, stored as an    *)
(* approval that a later request may place.  How an approval becomes an    *)
(* order is the subject of PaperOrders; here it is one step, and the       *)
(* broker (external) fills an order at its entry limit whenever it likes.  *)
(*                                                                         *)
(* One paper_plan() is one step: it reads the artifact and the account     *)
(* once each and stores its approval last.                                 *)
(***************************************************************************)
EXTENDS RiskDesk, Sequences, SequencesExt

CONSTANTS
    Symbols,        \* instruments of the watchlist
    Prices,         \* positive closes
    Inputs,         \* PaperPlanInput without its assessment
    StartCash,      \* cash of the paper account at the start
    MaxPlans        \* bound: eligible plans in a behaviour

PlanInputs ==
    [auto : BOOLEAN, side : {"BUY", "SELL"}, quantity : Int, cash : Int,
     maxNotional : Int, maxGross : Int, maxInstrument : Int,
     maxShare : [part : Int, of : Int], minCash : Int, stop : Int, maxLoss : Int]

PlanAssumption ==
    /\ IsFiniteSet(Symbols)
    /\ Prices \subseteq Nat \ {0}
    /\ Inputs \subseteq PlanInputs
    /\ StartCash \in Int /\ MaxPlans \in Nat

VARIABLES
    paper,          \* [cash, held]: the paper account at the broker
    price,          \* the last completed close of each symbol
    artifacts,      \* _research_artifacts: by symbol, for the READY rows
    snapshot,       \* _paper_account: the account as last synced, or None
    plan,           \* the answer of the last step, or None
    approvals,      \* _approved_plans, oldest first
    working,        \* orders at the broker
    eligible,       \* how many plans were eligible so far
    alone           \* history: every plan approved so far was sized from a
                    \* snapshot of the present account, with no other one open

planVars == <<paper, price, artifacts, snapshot, plan, approvals, working, eligible, alone>>

PlanCap == 50
PolicyAge == 1000000    \* 40_000_000_000_000 us, far beyond any bar here

PlanInit ==
    /\ paper = [cash |-> StartCash, held |-> [s \in Symbols |-> 0]]
    /\ price \in [Symbols -> Prices]
    /\ artifacts = <<>>
    /\ snapshot = None
    /\ plan = None
    /\ approvals = <<>> /\ working = {}
    /\ eligible = 0 /\ alone = TRUE

-----------------------------------------------------------------------------
Worth(s) == paper.held[s] * price[s]

(* paper_account(): an error keeps the snapshot there is.                   *)
SyncAccount ==
    /\ \E blocked \in BOOLEAN :
        snapshot' = [cash |-> paper.cash, blocked |-> blocked,
                     value |-> [s \in Symbols |-> Worth(s)],
                     equity |-> paper.cash + Total([s \in Symbols |-> Worth(s)])]
    /\ plan' = None
    /\ UNCHANGED <<paper, price, artifacts, approvals, working, eligible, alone>>

(* A scan replaces every artifact: the rows that are READY have one, with   *)
(* an active setup and whatever trend was found.                            *)
Scan ==
    /\ \E ready \in SUBSET Symbols, key \in {"UPSIDE", "DOWNSIDE"},
          regime \in {"UPWARD", "DOWNWARD"} :
        artifacts' = [s \in ready |-> [close |-> price[s], key |-> key, regime |-> regime]]
    /\ plan' = None
    /\ UNCHANGED <<paper, price, snapshot, approvals, working, eligible, alone>>

Move(s) ==
    /\ \E p \in Prices : price' = [price EXCEPT ![s] = p]
    /\ plan' = None
    /\ UNCHANGED <<paper, artifacts, snapshot, approvals, working, eligible, alone>>

-----------------------------------------------------------------------------
Positive(v) == IF v > 0 THEN v ELSE 0

Accepted(input) ==
    /\ input.quantity > 0 /\ input.cash >= 0
    /\ input.maxNotional > 0 /\ input.maxGross > 0 /\ input.maxInstrument > 0
    /\ input.maxShare.part > 0 /\ input.maxShare.part <= input.maxShare.of
    /\ input.minCash >= 0 /\ input.stop > 0 /\ input.maxLoss > 0

(* Bug variant: what the account already holds is not counted.              *)
SizeFromFlat(s, close, input) ==
    LET whole == {input.maxLoss \div (close - input.stop),
                  input.maxNotional \div close,
                  input.maxGross \div close,
                  input.maxInstrument \div close,
                  (snapshot.equity * input.maxShare.part) \div (close * input.maxShare.of),
                  snapshot.cash \div close}
    IN Min(whole)

(* Automatic sizing: the whole shares every cap leaves room for, by the     *)
(* account as it was last synced.                                           *)
SafeSize(s, close, input) ==
    LET held == snapshot.value[s]
        gross == Total([t \in Symbols |-> Magnitude(snapshot.value[t])])
        Room(cap) == Positive(cap) \div close
        share == Positive(snapshot.equity * input.maxShare.part
                            - Magnitude(held) * input.maxShare.of)
    IN Min({input.maxLoss \div (close - input.stop),
            input.maxNotional \div close,
            Room(input.maxGross - gross),
            Room(input.maxInstrument - Magnitude(held)),
            share \div (close * input.maxShare.of),
            Room(snapshot.cash - input.minCash)})

(* The requests that are refused before anything is evaluated.              *)
Refusal(s, input) ==
    LET close == artifacts[s].close IN
    IF s \notin DOMAIN artifacts THEN "EXPIRED"
    ELSE IF ~Accepted(input) THEN "AMOUNTS"
    ELSE IF ~input.auto THEN "NO"
    ELSE IF snapshot = None THEN "NOT_SYNCED"
    ELSE IF snapshot.blocked THEN "BLOCKED"
    ELSE IF input.side # "BUY" THEN "LONG_ONLY"
    ELSE IF close <= input.stop THEN "STOP_ABOVE_ENTRY"
    ELSE IF SafeSize(s, close, input) < 1 THEN "NO_WHOLE_SHARE"
    ELSE "NO"

(* The gate sees an account made up for the plan: its cash, no positions,   *)
(* nothing pending, and a policy made of the limits entered.                *)
RiskRequest(s, input, quantity, cash) ==
    LET close == artifacts[s].close
        mark == [price |-> close, valued |-> 0, observed |-> 1] IN
    [account |-> [id |-> "LOCAL_PAPER_ACCOUNT", currency |-> "USD", effective |-> 1,
                  observed |-> 1, cash |-> cash, positions |-> <<>>, pending |-> {}],
     context |-> [asOf |-> 1, at |-> 1],
     proposal |-> [account |-> "LOCAL_PAPER_ACCOUNT", currency |-> "USD", instrument |-> s,
                   quantity |-> IF input.side = "BUY" THEN quantity ELSE -quantity,
                   effective |-> 1, observed |-> 1, mark |-> mark],
     policy |-> [id |-> "DASHBOARD_PAPER_RISK", account |-> "LOCAL_PAPER_ACCOUNT",
                 currency |-> "USD", maxQuantity |-> quantity,
                 maxNotional |-> input.maxNotional, maxGross |-> input.maxGross,
                 maxInstrument |-> input.maxInstrument, maxShare |-> input.maxShare,
                 allowShort |-> FALSE, minEquity |-> 1, minCash |-> input.minCash,
                 maxAccountAge |-> 0, maxMarkAge |-> PolicyAge, maxProposalAge |-> 0],
     asOf |-> 1, at |-> 1]

(* Both reports come from the artifact's bars, recomputed.                  *)
DeskRequest(s, input, risk) ==
    LET a == artifacts[s]
        report == [instrument |-> s, asOf |-> 1, at |-> 1, history |-> {<<0, a.close>>}] IN
    [proposal |-> risk.request.proposal, risk |-> risk,
     setup |-> report @@ [snapshot |-> [time |-> 0,
                status |-> [k \in {"UPSIDE", "DOWNSIDE"} |->
                    IF k = a.key THEN "ACTIVE" ELSE "INACTIVE"]]],
     trend |-> report @@ [snapshot |-> [time |-> 0, regime |-> a.regime]],
     facts |-> {},
     policy |-> [account |-> "LOCAL_PAPER_ACCOUNT", riskPolicy |-> "DASHBOARD_PAPER_RISK",
                 setupKey |-> IF input.side = "BUY" THEN "UPSIDE" ELSE "DOWNSIDE",
                 watchlist |-> TRUE, alert |-> TRUE, maxBarAge |-> PolicyAge],
     asOf |-> 1, at |-> 1]

(* The loss at the stop exceeds the budget, or the stop is on the wrong     *)
(* side of the entry.                                                       *)
LossVeto(close, input, quantity) ==
    \/ quantity * Magnitude(close - input.stop) > input.maxLoss
    \/ input.side = "BUY" /\ input.stop >= close
    \/ input.side = "SELL" /\ input.stop <= close

Status(risk, desk, veto) ==
    IF risk.status = "PASS_CHECKS" /\ desk.disposition = "ALERT" /\ ~veto
    THEN "ELIGIBLE_FOR_PAPER_REVIEW"
    ELSE IF veto \/ risk.status = "VETO" THEN "VETOED" ELSE "NOT_ACTIONABLE"

Result(s, input) ==
    LET close == artifacts[s].close
        quantity == IF input.auto THEN SafeSize(s, close, input) ELSE input.quantity
        cash == IF input.auto THEN snapshot.cash ELSE input.cash
        risk == Evaluate(RiskRequest(s, input, quantity, cash))
        gap == Magnitude(close - input.stop)
    IN [symbol |-> s, input |-> input, quantity |-> quantity, entry |-> close,
        target |-> IF input.side = "BUY" THEN close + 2 * gap ELSE close - 2 * gap,
        reasons |-> risk.reasons, evidence |-> artifacts[s],
        status |-> Status(risk, Compose(DeskRequest(s, input, risk)),
                          LossVeto(close, input, quantity))]

(* Bug variant: the quantity entered is approved, not the one sized.        *)
ApprovalAsEntered(answer) ==
    [id |-> eligible, symbol |-> answer.symbol, side |-> answer.input.side, quantity |-> answer.input.quantity,
     entry |-> answer.entry, stop |-> answer.input.stop, target |-> answer.target]

Approval(answer) ==
    [id |-> eligible, symbol |-> answer.symbol, side |-> answer.input.side, quantity |-> answer.quantity,
     entry |-> answer.entry, stop |-> answer.input.stop, target |-> answer.target]

(* The present account, and nothing else on its way to it.                  *)
SizedAlone(input) ==
    /\ input.auto
    /\ snapshot.cash = paper.cash
    /\ approvals = <<>> /\ working = {}

MakePlan(s, input) ==
    /\ Refusal(s, input) = "NO"
    /\ LET answer == Result(s, input) IN
        /\ plan' = answer
        /\ IF answer.status = "ELIGIBLE_FOR_PAPER_REVIEW"
           THEN /\ eligible < MaxPlans /\ eligible' = eligible + 1
                /\ approvals' = LET all == Append(approvals, Approval(answer))
                               IN IF Len(all) > PlanCap THEN Tail(all) ELSE all
                /\ alone' = (alone /\ SizedAlone(input))
           ELSE UNCHANGED <<approvals, eligible, alone>>
    /\ UNCHANGED <<paper, price, artifacts, snapshot, working>>

RefusePlan(s, input) ==
    /\ Refusal(s, input) # "NO"
    /\ plan' = [status |-> Refusal(s, input)]
    /\ UNCHANGED <<paper, price, artifacts, snapshot, approvals, working, eligible, alone>>

-----------------------------------------------------------------------------
(* An approval is used once, whatever was scanned or synced since.          *)
PlaceApproved ==
    /\ \E i \in 1 .. Len(approvals) :
        /\ working' = working \cup {approvals[i]}
        /\ approvals' = RemoveAt(approvals, i)
    /\ plan' = None
    /\ UNCHANGED <<paper, price, artifacts, snapshot, eligible, alone>>

Fill ==
    /\ \E order \in working :
        /\ working' = working \ {order}
        /\ paper' = [cash |-> paper.cash - order.quantity * order.entry,
                      held |-> [paper.held EXCEPT ![order.symbol] = @ + order.quantity]]
    /\ plan' = None
    /\ UNCHANGED <<price, artifacts, snapshot, approvals, eligible, alone>>

Cancel ==
    /\ \E order \in working : working' = working \ {order}
    /\ plan' = None
    /\ UNCHANGED <<paper, price, artifacts, snapshot, approvals, eligible, alone>>

PlanNext ==
    \/ SyncAccount \/ Scan \/ PlaceApproved \/ Fill \/ Cancel
    \/ \E s \in Symbols :
        \/ Move(s)
        \/ \E input \in Inputs : MakePlan(s, input) \/ RefusePlan(s, input)

PlanSpec == PlanInit /\ [][PlanNext]_planVars

-----------------------------------------------------------------------------
Planned == plan # None /\ "quantity" \in DOMAIN plan

(* Types, and every approval is a bracket the broker's contract accepts:    *)
(* bought, its stop below its entry and its target above.  A short sale is  *)
(* never approved, nor is the sale of shares that are held.                 *)
PlanTypeOK ==
    /\ paper.cash \in Int /\ \A s \in Symbols : paper.held[s] \in Nat
    /\ price \in [Symbols -> Prices]
    /\ DOMAIN artifacts \subseteq Symbols
    /\ Len(approvals) <= PlanCap /\ eligible \in 0 .. MaxPlans
    /\ \A order \in ToSet(approvals) \cup working :
        /\ order.side = "BUY" /\ order.quantity \in Nat \ {0}
        /\ order.stop < order.entry /\ order.entry < order.target

(* The least cash that any request accepted asks to keep.                   *)
Floor == Min({input.minCash : input \in {i \in Inputs : Accepted(i)}})

(* An automatically sized plan is never too large for the limits it was     *)
(* sized by: it is not vetoed by its loss budget, and the gate, which       *)
(* computes its limits independently of the sizing, finds no more than the  *)
(* concentration of an account whose only position is this one.             *)
SizingAgreesWithTheGate ==
    Planned => (plan.input.auto =>
        /\ plan.reasons \subseteq {"CONCENTRATION_LIMIT"}
        /\ ~LossVeto(plan.entry, plan.input, plan.quantity))

(* While every plan approved was sized from a snapshot of the account as it *)
(* is, with no other approval or order open, the cash at the broker never   *)
(* falls below the cash to be kept, whatever the market does and whichever  *)
(* orders fill (if there was less than that to begin with, nothing is       *)
(* bought).                                                                 *)
PlansOneByOneKeepTheFloor == alone => paper.cash >= Floor \/ paper.cash = StartCash

(* What the planner approves is safe as long as plans come one at a time.   *)
PlansAreSafe == SizingAgreesWithTheGate /\ PlansOneByOneKeepTheFloor

(* The cash the planner says stays in the account after a trade stays       *)
(* there, when every plan is sized from the synced account.                 *)
CashIsKept == paper.cash >= Floor
=============================================================================
