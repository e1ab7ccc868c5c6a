------------------------------- MODULE RiskDesk -------------------------------
(***************************************************************************)
(* The pure engines between research and an order: the valuation of a      *)
(* paper account (src/app/portfolio), the risk gate (src/app/risk) and the *)
(* head of desk (src/app/orchestration).  Each is a function of its        *)
(* request; a result object recomputes it when it is built, so a result    *)
(* that exists always agrees with its request.                             *)
(*                                                                         *)
(* An account holds positions by instrument; the code keeps them in the    *)
(* canonical order of the instrument's identity, here a function.  Amounts *)
(* are integers (the code's are decimals of fifty digits), a share is      *)
(* compared by cross-multiplication, times are integers in microseconds'   *)
(* stead, and None stands for Python's.                                    *)
(***************************************************************************)
EXTENDS Integers, FiniteSets, FiniteSetsExt, Functions

None == [none |-> TRUE]

Magnitude(v) == IF v < 0 THEN -v ELSE v
Total(f) == FoldFunction(LAMBDA a, b : a + b, 0, f)

-----------------------------------------------------------------------------
(* Portfolio.                                                               *)

(* A position without quantity is worth nothing, marked or not.             *)
Unmarked(position) == position.quantity # 0 /\ position.mark = None
MarketValue(position) ==
    IF position.quantity = 0 THEN 0 ELSE position.quantity * position.mark.price
Values(positions) == [i \in DOMAIN positions |-> MarketValue(positions[i])]
Gross(positions) ==
    Total([i \in DOMAIN positions |-> Magnitude(MarketValue(positions[i]))])

(* One nonzero position without a mark, and no total is reported at all.    *)
Portfolio(account) ==
    LET complete == \A i \in DOMAIN account.positions : ~Unmarked(account.positions[i]) IN
    [complete |-> complete,
     gross |-> IF complete THEN Gross(account.positions) ELSE None,
     equity |-> IF complete THEN account.cash + Total(Values(account.positions)) ELSE None]

(* The requests' own validators: nothing known after its cutoff.            *)
PortfolioRequestValid(account, asOf, at) ==
    /\ asOf <= at
    /\ account.observed <= asOf
    /\ \A i \in DOMAIN account.positions :
        account.positions[i].mark # None => account.positions[i].mark.observed <= asOf

-----------------------------------------------------------------------------
(* The risk gate.  A request: [account, context (its as_of and evaluation), *)
(* proposal, policy, asOf, at].                                             *)

(* Bug variant: a mark valued at the same time will do.                     *)
RepricedSameTime(r) ==
    LET positions == r.account.positions IN
    /\ r.proposal.instrument \in DOMAIN positions
    /\ positions[r.proposal.instrument].quantity # 0
    /\ positions[r.proposal.instrument].mark # None
    /\ positions[r.proposal.instrument].mark.valued # r.proposal.mark.valued

(* The instrument is held and valued at another mark than the proposal's.   *)
Repriced(r) ==
    LET positions == r.account.positions IN
    /\ r.proposal.instrument \in DOMAIN positions
    /\ positions[r.proposal.instrument].quantity # 0
    /\ positions[r.proposal.instrument].mark # None
    /\ positions[r.proposal.instrument].mark # r.proposal.mark

Prerequisites(r) ==
    LET account == r.account
        proposal == r.proposal
        policy == r.policy
        positions == account.positions
        marked == {i \in DOMAIN positions : positions[i].mark # None}
        heldMarks == {positions[i].mark : i \in {j \in marked : positions[j].quantity # 0}}
        context == Portfolio(account)
        events == {account.effective, proposal.effective, proposal.mark.valued}
                    \cup {positions[i].mark.valued : i \in marked} \cup account.pending
        Failed(reason, test) == IF test THEN {reason} ELSE {}
    IN UNION {
        Failed("ACCOUNT_MISMATCH", ~(proposal.account = account.id /\ account.id = policy.account)),
        Failed("CURRENCY_MISMATCH",
               ~(policy.currency = account.currency /\ account.currency = proposal.currency)),
        Failed("FUTURE_KNOWLEDGE",
               \/ r.context.asOf > r.asOf
               \/ proposal.observed > r.asOf
               \/ proposal.mark.observed > r.asOf),
        Failed("FUTURE_EVENT", r.context.at > r.at \/ \E e \in events : e > r.at),
        Failed("STALE_ACCOUNT", r.at - account.effective > policy.maxAccountAge),
        Failed("STALE_PROPOSAL", r.at - proposal.effective > policy.maxProposalAge),
        Failed("STALE_MARK",
               \E m \in heldMarks \cup {proposal.mark} : r.at - m.valued > policy.maxMarkAge),
        Failed("PENDING_ACTIONS", account.pending # {}),
        Failed("INCOMPLETE_VALUATION", ~context.complete),
        Failed("NONPOSITIVE_MARK", \E m \in heldMarks \cup {proposal.mark} : m.price <= 0),
        Failed("REFERENCE_MARK_MISMATCH", Repriced(r)),
        Failed("EQUITY_BELOW_MINIMUM", context.complete /\ context.equity < policy.minEquity)}

(* Bug variant: a proposal replaces the position instead of adding to it.   *)
ProjectReplacing(r) ==
    LET proposal == r.proposal
        positions == [i \in DOMAIN r.account.positions \cup {proposal.instrument} |->
            IF i # proposal.instrument THEN r.account.positions[i]
            ELSE [quantity |-> proposal.quantity, mark |-> proposal.mark]]
        cost == proposal.quantity * proposal.mark.price
    IN [positions |-> positions, notional |-> Magnitude(cost),
        cash |-> r.account.cash - cost, gross |-> Gross(positions)]

(* The account if the proposal were filled at its reference mark.           *)
Project(r) ==
    LET proposal == r.proposal
        held == IF proposal.instrument \in DOMAIN r.account.positions
                THEN r.account.positions[proposal.instrument].quantity ELSE 0
        positions == [i \in DOMAIN r.account.positions \cup {proposal.instrument} |->
            IF i # proposal.instrument THEN r.account.positions[i]
            ELSE [quantity |-> held + proposal.quantity, mark |-> proposal.mark]]
        cost == proposal.quantity * proposal.mark.price
    IN [positions |-> positions, notional |-> Magnitude(cost),
        cash |-> r.account.cash - cost, gross |-> Gross(positions)]

Limits(r, p) ==
    LET policy == r.policy
        exposure == [i \in DOMAIN p.positions |-> Magnitude(MarketValue(p.positions[i]))]
        Failed(reason, test) == IF test THEN {reason} ELSE {}
    IN UNION {
        Failed("QUANTITY_LIMIT", Magnitude(r.proposal.quantity) > policy.maxQuantity),
        Failed("PROPOSAL_NOTIONAL_LIMIT", p.notional > policy.maxNotional),
        Failed("CASH_FLOOR", p.cash < policy.minCash),
        Failed("GROSS_EXPOSURE_LIMIT", p.gross > policy.maxGross),
        Failed("INSTRUMENT_EXPOSURE_LIMIT",
               \E i \in DOMAIN exposure : exposure[i] > policy.maxInstrument),
        Failed("CONCENTRATION_LIMIT",
               p.gross > 0 /\ \E i \in DOMAIN exposure :
                    exposure[i] * policy.maxShare.of > policy.maxShare.part * p.gross),
        Failed("SHORT_POSITION_DISALLOWED",
               ~policy.allowShort /\ \E i \in DOMAIN p.positions : p.positions[i].quantity < 0)}

(* Every failed prerequisite is reported, and then nothing is projected;    *)
(* otherwise every failed limit of the projection.                          *)
Evaluate(r) ==
    LET missing == Prerequisites(r) IN
    IF missing # {}
    THEN [request |-> r, status |-> "VETO", reasons |-> missing, projection |-> None]
    ELSE LET p == Project(r)
             over == Limits(r, p) IN
         [request |-> r, status |-> IF over = {} THEN "PASS_CHECKS" ELSE "VETO",
          reasons |-> over, projection |-> p]

-----------------------------------------------------------------------------
(* The head of desk.  A request: [proposal, risk, setup, trend, facts,      *)
(* policy, asOf, at].  A report of a desk keeps the instrument, the cutoff, *)
(* the evaluation and the history it was made from (pairs of a bar's time   *)
(* and its revision), and the newest snapshot of it; a fact report          *)
(* (catalysts, insiders) only the first three.                              *)
BarTimes(report) == {bar[1] : bar \in report.history}

(* A desk takes evidence whose cutoff and bars are not after its evaluation.*)
ReportValid(report) ==
    /\ report.asOf <= report.at
    /\ \A t \in BarTimes(report) : t <= report.at

(* Bug variant: an earlier verdict is still good.                           *)
LaterMoment(r, d) == r.asOf > d.asOf \/ r.at > d.at

(* The verdict was given for another cutoff or another moment.              *)
OtherMoment(r, d) == r.asOf # d.asOf \/ r.at # d.at

(* Everything that keeps a proposal from being more than noted; all of it   *)
(* is reported.                                                             *)
Blockers(d) ==
    LET risk == d.risk
        proposal == d.proposal
        policy == d.policy
        reports == {d.setup, d.trend} \ {None}
        setup == IF d.setup = None THEN None ELSE d.setup.snapshot
        trend == IF d.trend = None THEN None ELSE d.trend.snapshot
        cutoffs == {proposal.observed, proposal.mark.observed}
            \cup {report.asOf : report \in reports \cup d.facts}
            \cup IF risk = None THEN {}
                 ELSE {risk.request.asOf, risk.request.context.asOf,
                       risk.request.proposal.observed, risk.request.proposal.mark.observed}
        evaluations == {proposal.effective, proposal.mark.valued}
            \cup {report.at : report \in reports \cup d.facts}
            \cup UNION {BarTimes(report) : report \in reports}
            \cup IF risk = None THEN {}
                 ELSE {risk.request.at, risk.request.context.at,
                       risk.request.proposal.effective, risk.request.proposal.mark.valued}
        accounts == {proposal.account}
            \cup IF risk = None THEN {}
                 ELSE {risk.request.proposal.account, risk.request.policy.account,
                       risk.request.account.id}
        Found(reason, test) == IF test THEN {reason} ELSE {}
    IN UNION {
        Found("RISK_UNAVAILABLE", risk = None),
        Found("RISK_VETO", risk # None /\ risk.status = "VETO"),
        Found("PROPOSAL_MISMATCH", risk # None /\ risk.request.proposal # proposal),
        Found("ACCOUNT_MISMATCH", accounts # {policy.account}),
        Found("RISK_POLICY_MISMATCH", risk # None /\ risk.request.policy.id # policy.riskPolicy),
        Found("RISK_BOUNDARY_MISMATCH", risk # None /\ OtherMoment(risk.request, d)),
        Found("FUTURE_KNOWLEDGE", \E t \in cutoffs : t > d.asOf),
        Found("FUTURE_EVALUATION", \E t \in evaluations : t > d.at),
        Found("INSTRUMENT_MISMATCH",
              \/ \E report \in reports : report.instrument # proposal.instrument
              \/ \E fact \in d.facts : fact.instrument \notin {None, proposal.instrument}),
        Found("EVIDENCE_SCOPE_MISMATCH",
              \/ \E report \in reports : report.asOf # d.asOf
              \/ \E fact \in d.facts :
                    fact.instrument # proposal.instrument \/ fact.asOf # d.asOf),
        Found("BAR_HISTORY_MISMATCH",
              None \notin {d.setup, d.trend} /\ d.setup.history # d.trend.history),
        Found("STALE_SETUP", setup # None /\ d.at - setup.time > policy.maxBarAge),
        Found("STALE_TREND", trend # None /\ d.at - trend.time > policy.maxBarAge),
        Found("SNAPSHOT_MISMATCH", None \notin {setup, trend} /\ setup.time # trend.time),
        Found("PROPOSAL_DIRECTION_MISMATCH", (proposal.quantity > 0) # (policy.setupKey = "UPSIDE"))}

Compose(d) ==
    LET blockers == Blockers(d)
        setup == IF d.setup = None THEN None ELSE d.setup.snapshot
        trend == IF d.trend = None THEN None ELSE d.trend.snapshot
        expected == IF d.policy.setupKey = "UPSIDE" THEN "UPWARD" ELSE "DOWNWARD"
        Answer(disposition, reasons) == [disposition |-> disposition, reasons |-> reasons]
    IN IF blockers # {} THEN Answer("QUIET", blockers)
       ELSE IF ~d.policy.watchlist THEN Answer("QUIET", {"WATCHLIST_DISABLED"})
       ELSE IF setup = None THEN Answer("QUIET", {"SETUP_UNAVAILABLE"})
       ELSE IF setup.status[d.policy.setupKey] # "ACTIVE"
            THEN Answer("QUIET", {"SETUP_NOT_ACTIVE"})
       ELSE IF trend = None THEN Answer("WATCHLIST", {"TREND_NOT_SUPPORTING"})
       ELSE IF trend.regime # expected THEN Answer("WATCHLIST", {"TREND_NOT_SUPPORTING"})
       ELSE IF ~d.policy.alert THEN Answer("WATCHLIST", {"ALERT_DISABLED"})
       ELSE Answer("ALERT", {"SETUP_AND_TREND_SUPPORTED"})
=============================================================================
