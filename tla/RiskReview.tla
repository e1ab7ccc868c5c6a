------------------------------ MODULE RiskReview ------------------------------
(***************************************************************************)
(* A caller of the engines of RiskDesk.  Quotes move, the account is       *)
(* observed now and then, a proposal is reviewed against the account as it *)
(* was last observed, the desks report on the bars, and the head of desk   *)
(* composes whatever verdict and reports exist at that moment, each made   *)
(* at a time of its own, in any order, or missing.  A behaviour is one     *)
(* case: each result is made at most once and the decision ends it, which  *)
(* loses nothing, the engines keep no state.  One time stands for the      *)
(* cutoff and the evaluation of a request, except that a review may look   *)
(* back.                                                                   *)
(***************************************************************************)
EXTENDS RiskDesk

CONSTANTS
    Instruments,    \* instruments with a quote
    MarkPrices,     \* prices a quote may have
    Changes,        \* signed quantities of the proposals
    Accounts,       \* [cash, held (quantity by instrument), pending]: what may be observed
    RiskPolicy,     \* PaperRiskPolicy
    Reported,       \* instruments the desks report on
    DeskPolicy,     \* HeadOfDeskPolicy
    MaxTime         \* bound: the last instant

ReviewAssumption ==
    /\ IsFiniteSet(Instruments)
    /\ MarkPrices \subseteq Int
    /\ Changes \subseteq Int \ {0}
    /\ Accounts \subseteq [cash : Int, held : [Instruments -> Int], pending : BOOLEAN]
    /\ {RiskPolicy.maxQuantity, RiskPolicy.maxNotional, RiskPolicy.maxGross,
        RiskPolicy.maxInstrument, RiskPolicy.minCash} \subseteq Int
    /\ DeskPolicy.alert => DeskPolicy.watchlist
    /\ MaxTime \in Nat

VARIABLES
    now,
    quotes,     \* the newest mark of each instrument
    account,    \* the account as last observed, or None
    verdict,    \* the last PaperRiskResult, or None
    setup,      \* the last reports of the desks, or None
    trend,
    decision    \* the last HeadOfDeskResult with its request, or None

reviewVars == <<now, quotes, account, verdict, setup, trend, decision>>

Mark(price) == [price |-> price, valued |-> now, observed |-> now]

ReviewInit ==
    /\ now = 0
    /\ quotes \in [Instruments -> {Mark(p) : p \in MarkPrices}]
    /\ account = None /\ verdict = None
    /\ setup = None /\ trend = None
    /\ decision = None

-----------------------------------------------------------------------------
Tick ==
    /\ now < MaxTime /\ decision = None
    /\ now' = now + 1
    /\ UNCHANGED <<quotes, account, verdict, setup, trend, decision>>

Quote(i) ==
    /\ \E p \in MarkPrices : quotes' = [quotes EXCEPT ![i] = Mark(p)]
    /\ decision = None
    /\ UNCHANGED <<now, account, verdict, setup, trend, decision>>

(* The observation takes the marks there are.  A position that is held may  *)
(* come without one.                                                        *)
Observe ==
    /\ account = None /\ decision = None
    /\ \E seen \in Accounts, marked \in SUBSET Instruments :
        /\ Cardinality(Instruments \ marked) <= 1
        /\ account' = [
            id |-> "paper", currency |-> "USD", effective |-> now, observed |-> now,
            cash |-> seen.cash, pending |-> IF seen.pending THEN {now} ELSE {},
            positions |-> [i \in {j \in Instruments : seen.held[j] # 0} |->
                [quantity |-> seen.held[i],
                 mark |-> IF i \in marked THEN quotes[i] ELSE None]]]
    /\ UNCHANGED <<now, quotes, verdict, setup, trend, decision>>

Proposal(i, change) ==
    [account |-> "paper", currency |-> "USD", instrument |-> i, quantity |-> change,
     effective |-> now, observed |-> now, mark |-> quotes[i]]

(* The portfolio context was built when the account was observed.           *)
Review(i, change) ==
    /\ account # None /\ verdict = None /\ decision = None
    /\ \E asOf \in {now, now - 1} :
        LET request == [account |-> account,
                        context |-> [asOf |-> account.observed, at |-> account.observed],
                        proposal |-> Proposal(i, change), policy |-> RiskPolicy,
                        asOf |-> asOf, at |-> now] IN
        /\ PortfolioRequestValid(account, account.observed, account.observed)
        /\ verdict' = Evaluate(request)
    /\ UNCHANGED <<now, quotes, account, setup, trend, decision>>

(* The bars completed so far; a bar may be revised at any time.             *)
Report(i, revision, snapshot) ==
    [instrument |-> i, asOf |-> now, at |-> now,
     history |-> {<<t, revision>> : t \in 0 .. now}, snapshot |-> snapshot]

ReportSetup(i) ==
    /\ setup = None /\ decision = None
    /\ \E revision \in {0, 1}, active \in BOOLEAN :
        setup' = Report(i, revision,
            [time |-> now,
             status |-> [key \in {"UPSIDE", "DOWNSIDE"} |->
                IF active /\ key = DeskPolicy.setupKey THEN "ACTIVE" ELSE "INACTIVE"]])
    /\ ReportValid(setup')
    /\ UNCHANGED <<now, quotes, account, verdict, trend, decision>>

ReportTrend(i) ==
    /\ trend = None /\ decision = None
    /\ \E revision \in {0, 1}, regime \in {"UPWARD", "DOWNWARD"} :
        trend' = Report(i, revision, [time |-> now, regime |-> regime])
    /\ ReportValid(trend')
    /\ UNCHANGED <<now, quotes, account, verdict, setup, decision>>

(* No facts, facts of the proposal's instrument, facts without one.         *)
FactSets ==
    {{}, {[instrument |-> None, asOf |-> now, at |-> now]}}
    \cup {{[instrument |-> i, asOf |-> now, at |-> now]} : i \in Instruments}

Request(proposal, facts) ==
    [proposal |-> proposal, risk |-> verdict, setup |-> setup, trend |-> trend,
     facts |-> facts, policy |-> DeskPolicy, asOf |-> now, at |-> now]

(* The proposal of the verdict, or another one.                             *)
Decide ==
    /\ account # None /\ decision = None
    /\ \E facts \in FactSets,
          proposal \in {Proposal(i, c) : i \in Instruments, c \in Changes}
                        \cup IF verdict = None THEN {} ELSE {verdict.request.proposal} :
        LET request == Request(proposal, facts) IN
        decision' = [request |-> request, result |-> Compose(request)]
    /\ UNCHANGED <<now, quotes, account, verdict, setup, trend>>

ReviewNext ==
    \/ Tick \/ Observe \/ Decide
    \/ \E i \in Instruments :
        \/ Quote(i)
        \/ \E c \in Changes : Review(i, c)
    \/ \E i \in Reported : ReportSetup(i) \/ ReportTrend(i)

ReviewSpec == ReviewInit /\ [][ReviewNext]_reviewVars

-----------------------------------------------------------------------------
Times == 0 .. MaxTime
Reasons ==
    {"ACCOUNT_MISMATCH", "CURRENCY_MISMATCH", "FUTURE_KNOWLEDGE", "FUTURE_EVENT",
     "STALE_ACCOUNT", "STALE_PROPOSAL", "STALE_MARK", "PENDING_ACTIONS",
     "INCOMPLETE_VALUATION", "NONPOSITIVE_MARK", "REFERENCE_MARK_MISMATCH",
     "EQUITY_BELOW_MINIMUM", "QUANTITY_LIMIT", "PROPOSAL_NOTIONAL_LIMIT", "CASH_FLOOR",
     "GROSS_EXPOSURE_LIMIT", "INSTRUMENT_EXPOSURE_LIMIT", "CONCENTRATION_LIMIT",
     "SHORT_POSITION_DISALLOWED"}

(* Types.  A verdict passes exactly when it names no reason; one that could *)
(* not be projected names why.                                              *)
ReviewTypeOK ==
    /\ now \in Times
    /\ quotes \in [Instruments -> [price : MarkPrices, valued : Times, observed : Times]]
    /\ account # None => account.observed \in Times
    /\ verdict # None =>
        /\ verdict.reasons \subseteq Reasons
        /\ (verdict.status = "PASS_CHECKS") = (verdict.reasons = {})
        /\ verdict.projection = None => verdict.reasons # {}
    /\ decision # None =>
        /\ decision.result.disposition \in {"QUIET", "WATCHLIST", "ALERT"}
        /\ decision.result.reasons # {}

Projecting == verdict # None /\ verdict.projection # None
Passing == verdict # None /\ verdict.status = "PASS_CHECKS"
Alerting == decision # None /\ decision.result.disposition = "ALERT"

(* A projection moves money between cash and the position and makes none:   *)
(* its cash and its positions are worth what the account was worth, because *)
(* a held position may only be traded at the very mark it is valued at.     *)
EquityIsConserved ==
    Projecting =>
        verdict.projection.cash + Total(Values(verdict.projection.positions))
            = Portfolio(verdict.request.account).equity

Projected(request) == [request EXCEPT !.account.cash = Project(request).cash,
                                      !.account.positions = Project(request).positions]

(* Splitting an order does not evade the account's limits: when a proposal  *)
(* passes, and a second one in the same instrument passes on the account    *)
(* the first would leave, the two in one order break at most the two limits *)
(* that are per order.                                                      *)
SplittingEvadesOnlyOrderLimits ==
    Passing =>
        \A change \in Changes :
            LET first == verdict.request
                second == [Projected(first) EXCEPT !.proposal.quantity = change]
                both == [first EXCEPT !.proposal.quantity = @ + change]
            IN  Evaluate(second).status = "PASS_CHECKS" /\ both.proposal.quantity # 0
                => Evaluate(both).reasons \subseteq {"QUANTITY_LIMIT", "PROPOSAL_NOTIONAL_LIMIT"}

(* A larger purchase is never safer: on an account that is not short, every *)
(* limit a purchase breaks is broken by a larger one, the concentration     *)
(* limit excepted (buying more of one instrument shrinks another's share).  *)
LargerBuysAreNotSafer ==
    Projecting =>
        LET r == verdict.request IN
        (r.proposal.quantity > 0
         /\ \A i \in DOMAIN r.account.positions : r.account.positions[i].quantity >= 0)
        => \A more \in {c \in Changes : c > r.proposal.quantity} :
            verdict.reasons \ {"CONCENTRATION_LIMIT"}
                \subseteq Evaluate([r EXCEPT !.proposal.quantity = more]).reasons

(* Neither splitting an order nor making it larger gets around a limit.     *)
LimitsCannotBeEvaded == SplittingEvadesOnlyOrderLimits /\ LargerBuysAreNotSafer

(* An alert rests on a verdict that would be given again at the moment of   *)
(* the alert, for the proposal alerted on: not on one that has since become *)
(* stale.                                                                   *)
AlertsRestOnAPresentPass ==
    Alerting =>
        LET d == decision.request IN
        /\ d.risk.request.proposal = d.proposal
        /\ Evaluate([d.risk.request EXCEPT !.asOf = d.asOf, !.at = d.at]).status = "PASS_CHECKS"

Rank(disposition) == CASE disposition = "QUIET" -> 0
                       [] disposition = "WATCHLIST" -> 1
                       [] disposition = "ALERT" -> 2

(* Catalyst and insider facts never promote: with them a proposal is at     *)
(* most what it would be without them.                                      *)
FactsNeverPromote ==
    decision # None =>
        Rank(decision.result.disposition)
            <= Rank(Compose([decision.request EXCEPT !.facts = {}]).disposition)

(* An alert is earned by the verdict, and by nothing else.                  *)
AlertsAreEarned == AlertsRestOnAPresentPass /\ FactsNeverPromote
=============================================================================
