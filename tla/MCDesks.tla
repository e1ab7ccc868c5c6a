------------------------------ MODULE MCDesks ------------------------------
(* The cases of the gate: proposals of three sizes in two instruments,      *)
(* reviewed against five accounts, for the constants the cfg gives.         *)
(* Desk: the same with one account, whose verdicts and reports come in any  *)
(* order.                                                                   *)
(*                                                                          *)
(* Scan: a symbol that may miss bars, and SPY, which is listed or not: every*)
(* series of five bar times, and every held-out result of a setup.          *)
(*                                                                          *)
(* A part is chosen at the start and the others stay as they began.         *)
EXTENDS RiskReview, ScanDesk, TLC

CONSTANTS A, B, SPY, AAA

VARIABLE part

(* Nothing held; both instruments held; short of one; an action pending;    *)
(* bought on margin.                                                        *)
Seen(cash, a, b, pending) ==
    [cash |-> cash, held |-> A :> a @@ B :> b, pending |-> pending]
MCInstruments == {A, B}
MCMarkPrices == {1, 2}
MCChanges == {-1, 1, 2}
MCAccounts ==
    {Seen(4, 0, 0, FALSE), Seen(3, 1, 1, FALSE), Seen(5, -1, 1, FALSE),
     Seen(4, 0, 1, TRUE), Seen(-2, 3, 0, FALSE)}
MCRiskPolicy ==
    [id |-> "v1", account |-> "paper", currency |-> "USD",
     maxQuantity |-> 2, maxNotional |-> 3, maxGross |-> 4, maxInstrument |-> 3,
     maxShare |-> [part |-> 3, of |-> 4], allowShort |-> FALSE,
     minEquity |-> 3, minCash |-> 1,
     maxAccountAge |-> 0, maxMarkAge |-> 0, maxProposalAge |-> 0]
MCDeskPolicy ==
    [account |-> "paper", riskPolicy |-> "v1", setupKey |-> "UPSIDE",
     watchlist |-> TRUE, alert |-> TRUE, maxBarAge |-> 0]

Desk ==
    INSTANCE RiskReview
    WITH MarkPrices <- {1}, Changes <- {-1, 1}, Accounts <- {Seen(3, 1, 1, FALSE)},
         Reported <- {A}
ASSUME ReviewAssumption /\ Desk!ReviewAssumption

MCSymbols == {SPY, AAA}
MCWatchlists == {<<AAA, SPY>>, <<AAA>>}
MCQuotes == (SPY :> {1, 3}) @@ (AAA :> {0, 1, 2})
MCScores ==
    {[grade |-> "PROMISING", score |-> 2], [grade |-> "WEAK", score |-> -1],
     [grade |-> "INSUFFICIENT", score |-> NoScore]}
MCPeriod == [k \in Kinds |-> IF k = "return" THEN 1 ELSE 3]

ASSUME ResearchAssumption /\ ScanAssumption

partsVars == <<part, reviewVars, reportVars>>

PartsInit ==
    /\ part \in {"gate", "desk", "scan"}
    /\ IF part = "gate" THEN ReviewInit ELSE Desk!ReviewInit
    /\ ReportInit
PartsNext ==
    \/ part = "gate" /\ ReviewNext /\ UNCHANGED <<part, reportVars>>
    \/ part = "desk" /\ Desk!ReviewNext /\ UNCHANGED <<part, reportVars>>
    \/ part = "scan" /\ ReportNext /\ UNCHANGED <<part, reviewVars>>
PartsSpec == PartsInit /\ [][PartsNext]_partsVars
=============================================================================
