------------------------------- MODULE ScanDesk -------------------------------
(***************************************************************************)
(* How a scan of the watchlist becomes a ranked report: the rows of        *)
(* research() in src/app/dashboard/live.py, analysed by ResearchEngine,    *)
(* compared with the benchmark, judged, sorted and summarised, and the     *)
(* same analysis of an imported series (research_import()).  When scans    *)
(* run, and what they store, is the subject of MarketScan.                 *)
(*                                                                         *)
(* Bars arrive, a symbol may miss some, and one scan or import is answered *)
(* from what has arrived.  A time or a price of 0 stands for None.         *)
(***************************************************************************)
EXTENDS ResearchEngine, Orders, SequencesExt

CONSTANTS
    Symbols,           \* the symbols bars arrive for
    Watchlists,        \* the watchlists that are scanned
    Benchmark,         \* SPY, which need not be on the watchlist
    Quotes,            \* the closes a symbol can have at a time; 0 is no bar
    MaxBarTime,        \* bound: bar times
    ChartBars,         \* bars of a chart, 120
    FreshnessLimit,    \* oldest latest bar that is fresh, by timeframe
    Scores             \* held-out results [grade, score]; NoScore is a score of None

NoScore == -1000
Grades == <<"PROMISING", "WEAK", "INSUFFICIENT", "NOT_APPLICABLE">>
Alignments == <<"SUPPORTS", "NEUTRAL", "UNAVAILABLE", "CONTRADICTS">>

(* A PROMISING result has a score, the return is over one bar, and a chart  *)
(* shows more than one.                                                     *)
ScanAssumption ==
    /\ MaxBarTime \in Nat /\ FreshnessLimit \in Nat
    /\ Quotes \in [Symbols -> SUBSET Nat]
    /\ \A w \in Watchlists : w # <<>> /\ w \in Seq(Symbols) /\ IsInjective(w)
    /\ Scores \subseteq [grade : {"PROMISING", "WEAK", "INSUFFICIENT"}, score : Int]
    /\ \A s \in Scores : s.grade = "PROMISING" => s.score # NoScore
    /\ Period["high"] = Period["low"] /\ Period["high"] = Period["sma"] /\ Period["return"] = 1
    /\ ChartBars \in Nat \ {0, 1}

VARIABLES
    barTime,           \* the latest completed bar time
    market,            \* by symbol: its bars [at, close], oldest first
    answer             \* what the scan or import answered, or its kind is "none"
reportVars == <<barTime, market, answer>>

-----------------------------------------------------------------------------
(* A symbol's series, every bar at its close.                               *)
Flat(quote) == [open |-> quote.close, high |-> quote.close, low |-> quote.close,
                close |-> quote.close, volume |-> 1]
History(series) == [i \in DOMAIN series |-> Flat(series[i])]

(* The setup that is active on the latest bar; the two exclude each other.  *)
ActiveSetup(setups) ==
    IF setups = <<>> THEN "none"
    ELSE IF Last(setups).upside = "ACTIVE" THEN "upside"
    ELSE IF Last(setups).downside = "ACTIVE" THEN "downside" ELSE "none"

(* The bars a breakout is measured against, once there are enough.          *)
PriorStructure(history) ==
    IF Len(history) <= Period["high"] THEN <<>>
    ELSE SubSeq(history, Len(history) - Period["high"], Len(history) - 1)

(* The level that was broken, where it is on the losing side of the close.  *)
SuggestedStop(history, setup) ==
    LET prior == PriorStructure(history)
        high == {prior[i].high : i \in DOMAIN prior}
        low == {prior[i].low : i \in DOMAIN prior}
        level == IF prior = <<>> THEN 0
                 ELSE CASE setup = "upside" -> CHOOSE x \in high : \A y \in high : y <= x
                        [] setup = "downside" -> CHOOSE x \in low : \A y \in low : x <= y
                        [] OTHER -> 0
        close == Last(history).close
    IN IF \/ setup = "upside" /\ 0 < level /\ level < close
          \/ setup = "downside" /\ level > close THEN level ELSE 0

Chart(series) == SubSeq(series, Most(1, Len(series) - ChartBars + 1), Len(series))

(* What is composed later has the value it has in a new MarketResearchRow.  *)
ResearchRow(symbol, series, observedAt) ==
    LET history == History(series)
        features == Features(history)
        setup == ActiveSetup(Setups(Evidence(history, features)))
    IN [symbol |-> symbol, observedAt |-> observedAt, chart |-> Chart(series),
        latestAt |-> IF series = <<>> THEN 0 ELSE Last(series).at,
        setup |-> setup,
        action |-> IF series = <<>> THEN "NO_DATA" ELSE IF setup = "none" THEN "WAIT" ELSE "REVIEW",
        trend |-> IF series = <<>> THEN "NO_DATA" ELSE Last(Regime(history, features)),
        stop |-> IF setup = "none" THEN 0 ELSE SuggestedStop(history, setup),
        hasId |-> series # <<>>, grade |-> "NOT_APPLICABLE", score |-> NoScore,
        market |-> "UNAVAILABLE", relative |-> "UNAVAILABLE",
        readiness |-> "WAIT", checks |-> <<>>, rank |-> 0]
Graded(row, result) ==
    IF row.setup = "none" THEN row
    ELSE [row EXCEPT !.grade = result.grade, !.score = result.score]

Regimes == {"UPWARD", "DOWNWARD", "FLAT", "MIXED"}
With(setup, supports, contradicts) ==
    IF supports THEN "SUPPORTS" ELSE IF contradicts THEN "CONTRADICTS" ELSE "NEUTRAL"

(* The trend of the benchmark's row, <<>> when it is not on the watchlist.   *)
MarketAlignment(row, benchmark) ==
    IF row.setup = "none" THEN "NEUTRAL"
    ELSE IF benchmark = <<>> THEN "UNAVAILABLE"
    ELSE IF benchmark[1].trend \notin Regimes THEN "UNAVAILABLE"
    ELSE With(row.setup,
              benchmark[1].trend = IF row.setup = "upside" THEN "UPWARD" ELSE "DOWNWARD",
              benchmark[1].trend = IF row.setup = "upside" THEN "DOWNWARD" ELSE "UPWARD")

(* The return of the row over that of the benchmark, between the first and  *)
(* the last of their latest common bars, Period["high"] + 1 of them at most.*)
ChartTimes(chart) == {chart[i].at : i \in DOMAIN chart}
MostRecent(times) == {t \in times : Cardinality({u \in times : u > t}) <= Period["high"]}
CommonTimes(row, other) == MostRecent(ChartTimes(row.chart) \cap ChartTimes(other.chart))
CloseAt(chart, t) == chart[CHOOSE i \in DOMAIN chart : chart[i].at = t].close
Excess(row, other, times) ==
    LET first == CHOOSE t \in times : \A u \in times : t <= u
        last == CHOOSE t \in times : \A u \in times : u <= t
    IN CloseAt(row.chart, last) * CloseAt(other.chart, first)
           - CloseAt(other.chart, last) * CloseAt(row.chart, first)
RelativeTo(row, other) ==
    LET common == CommonTimes(row, other)
        excess == Excess(row, other, common)
    IN IF Cardinality(common) < 2 THEN "UNAVAILABLE"
       ELSE IF row.setup = "none" \/ excess = 0 THEN "NEUTRAL"
       ELSE With(row.setup, (row.setup = "upside") = (excess > 0), TRUE)
RelativeAlignment(row, benchmark) ==
    IF benchmark = <<>> THEN "UNAVAILABLE" ELSE RelativeTo(row, benchmark[1])

-----------------------------------------------------------------------------
Fresh(row) ==
    /\ row.latestAt # 0
    /\ row.observedAt - row.latestAt \in 0 .. FreshnessLimit

(* Bug variant: how old the latest bar is only shows in the checks.         *)
ReadinessOfAnyAge(row) ==
    IF row.setup = "none" THEN "WAIT"
    ELSE IF "CONTRADICTS" \in {row.market, row.relative} THEN "CAUTION"
    ELSE IF row.grade # "PROMISING" THEN "CAUTION" ELSE "READY_FOR_RISK_CHECK"

Readiness(row) ==
    IF ~Fresh(row) \/ row.setup = "none" THEN "WAIT"
    ELSE IF "CONTRADICTS" \in {row.market, row.relative} THEN "CAUTION"
    ELSE IF row.grade # "PROMISING" THEN "CAUTION"
    ELSE "READY_FOR_RISK_CHECK"

(* The checks shown with the row, without those that only inform.           *)
AlignmentCheck(alignment) ==
    CASE alignment = "CONTRADICTS" -> "BLOCK"
      [] alignment = "SUPPORTS" -> "PASS"
      [] OTHER -> "CAUTION"
Checks(row) ==
    [freshness |-> IF Fresh(row) THEN "PASS" ELSE "BLOCK",
     setup |-> IF row.setup = "none" THEN "BLOCK" ELSE "PASS",
     market |-> AlignmentCheck(row.market),
     relative |-> AlignmentCheck(row.relative),
     evidence |-> IF row.grade = "PROMISING" THEN "PASS"
                  ELSE IF row.setup = "none" THEN "INFO" ELSE "CAUTION"]

(* _with_trade_readiness().                                                 *)
WithReadiness(row) ==
    [row EXCEPT !.readiness = Readiness(row), !.checks = Checks(row)]

(* _with_market_alignment() and _with_relative_strength().                  *)
Aligned(row, benchmark) ==
    [row EXCEPT !.market = MarketAlignment(row, benchmark),
                !.relative = RelativeAlignment(row, benchmark)]

(* The order of the report.  Symbols are compared last, here by their place *)
(* in the watchlist.                                                        *)
PlaceIn(order, x) == CHOOSE i \in DOMAIN order : order[i] = x
SortKey(row, watchlist) ==
    <<IF row.action = "REVIEW" THEN 0 ELSE 1, PlaceIn(Alignments, row.market),
      PlaceIn(Alignments, row.relative), PlaceIn(Grades, row.grade), -row.score,
      PlaceIn(watchlist, row.symbol)>>
Rankable(row) ==
    row.action = "REVIEW" /\ row.market # "CONTRADICTS" /\ row.score # NoScore
Ranked(rows) ==
    [i \in DOMAIN rows |->
        [rows[i] EXCEPT !.rank = IF Rankable(rows[i])
                                 THEN Cardinality({j \in 1 .. i : Rankable(rows[j])}) ELSE 0]]

WithReadinessOf(rows, readiness) == Select(rows, LAMBDA r : r.readiness = readiness)

(* _desk_summary(): the lead is the first ready row of the report.          *)
DeskSummary(rows) ==
    LET ready == WithReadinessOf(rows, "READY_FOR_RISK_CHECK")
        cautious == WithReadinessOf(rows, "CAUTION")
    IN [stance |-> IF ready # <<>> THEN "REVIEW_READY"
                   ELSE IF cautious # <<>> THEN "CAUTION_ONLY" ELSE "WAIT",
        lead |-> IF ready # <<>> THEN <<Head(ready).symbol>> ELSE <<>>,
        ready |-> Len(ready), caution |-> Len(cautious),
        wait |-> Len(WithReadinessOf(rows, "WAIT"))]

(* The part of research() between the acquired bars and the stores; what    *)
(* headlines add to the rows between alignment and readiness is left out.   *)
InReportOrder(rows, watchlist) ==
    Sorted(rows, LAMBDA a, b : KeyBefore(SortKey(a, watchlist), SortKey(b, watchlist)))
ReportOf(watchlist, acquired) ==
    LET benchmark == Select(acquired, LAMBDA r : r.symbol = Benchmark)
        judged == {WithReadiness(Aligned(acquired[i], benchmark)) : i \in DOMAIN acquired}
        rows == Ranked(InReportOrder(judged, watchlist))
    IN [kind |-> "report", rows |-> rows, summary |-> DeskSummary(rows)]

(* research_import(): no benchmark, no assessment id, and never ready.      *)
Imported(row) ==
    LET assessed == WithReadiness(row)
    IN [assessed EXCEPT !.hasId = FALSE, !.market = "UNAVAILABLE", !.relative = "UNAVAILABLE",
            !.readiness = IF @ = "READY_FOR_RISK_CHECK" THEN "CAUTION" ELSE @]
-----------------------------------------------------------------------------
NoAnswer == [kind |-> "none"]

ReportInit ==
    /\ barTime = 0
    /\ market = [s \in Symbols |-> <<>>]
    /\ answer = NoAnswer

(* A bar time completes; each symbol has its quote or no bar.               *)
Complete ==
    /\ answer = NoAnswer /\ barTime < MaxBarTime
    /\ barTime' = barTime + 1
    /\ \E quote \in [Symbols -> UNION {Quotes[s] : s \in Symbols}] :
        /\ \A s \in Symbols : quote[s] \in Quotes[s]
        /\ market' = [s \in Symbols |->
                        IF quote[s] = 0 THEN market[s]
                        ELSE Append(market[s], [at |-> barTime + 1, close |-> quote[s]])]
    /\ UNCHANGED answer

(* research(): every symbol in the order of the watchlist, with whatever     *)
(* held-out results its active setup has.                                   *)
Scan ==
    /\ answer = NoAnswer
    /\ \E watchlist \in Watchlists :
        LET rows == [i \in DOMAIN watchlist |->
                        ResearchRow(watchlist[i], market[watchlist[i]], barTime)]
        IN \E heldOut \in [DOMAIN watchlist -> Scores] :
            answer' = ReportOf(watchlist, [i \in DOMAIN watchlist |-> Graded(rows[i], heldOut[i])])
    /\ UNCHANGED <<barTime, market>>

(* A series is imported; receipts hold at least one bar.                    *)
Import ==
    /\ answer = NoAnswer
    /\ \E s \in Symbols :
        /\ market[s] # <<>>
        /\ \E result \in Scores :
            answer' = [kind |-> "import",
                rows |-> <<Imported(Graded(ResearchRow(s, market[s], barTime), result))>>]
    /\ UNCHANGED <<barTime, market>>

ReportNext == Complete \/ Scan \/ Import
ReportSpec == ReportInit /\ [][ReportNext]_reportVars
-----------------------------------------------------------------------------
ReadinessValues == {"READY_FOR_RISK_CHECK", "CAUTION", "WAIT"}
ReportRows == IF answer.kind = "none" THEN <<>> ELSE answer.rows
ReadyRows == {i \in DOMAIN ReportRows : ReportRows[i].readiness = "READY_FOR_RISK_CHECK"}

(* The rows of an answer, whatever was listed and had arrived.              *)
ReportTypeOK ==
    /\ barTime \in 0 .. MaxBarTime /\ answer.kind \in {"none", "report", "import"}
    /\ \A s \in Symbols : \A i \in DOMAIN market[s] : market[s][i].close \in Quotes[s]
    /\ \A i \in DOMAIN ReportRows :
        /\ ReportRows[i].setup \in {"upside", "downside", "none"}
        /\ ReportRows[i].action \in {"REVIEW", "WAIT", "NO_DATA"} /\ ReportRows[i].stop \in Nat
        /\ {ReportRows[i].market, ReportRows[i].relative} \subseteq Range(Alignments)
        /\ ReportRows[i].readiness \in ReadinessValues
        /\ ReportRows[i].grade \in Range(Grades)
    /\ answer.kind = "report" =>
        \A i \in DOMAIN ReportRows : ReportRows[i].rank \in 0 .. Len(ReportRows)

(* Said of the bars alone: the closes of a symbol from the bar before the   *)
(* Period last ones on, and a market that moves against a setup.            *)
PriorCloses(series) ==
    {series[i].close : i \in Len(series) - Period["high"] .. Len(series) - 1}
BrokeOut(series, setup) ==
    /\ Len(series) > Period["high"]
    /\ \A c \in PriorCloses(series) :
        IF setup = "upside" THEN Last(series).close > c ELSE Last(series).close < c
MovesAgainst(series, setup) ==
    LET n == Len(series)
        mean(x) == SumOf([i \in DOMAIN series |-> series[i].close], n - Period["sma"] + 1, n)
                       - Period["sma"] * x
    IN /\ n >= Period["sma"] /\ n >= 2
       /\ IF setup = "upside"
          THEN series[n].close < series[n - 1].close /\ mean(series[n].close) > 0
          ELSE series[n].close > series[n - 1].close /\ mean(series[n].close) < 0

(* A row is only ready when its latest bar is as recent as the limit asks,  *)
(* that bar broke out of the bars before it, its held-out result is         *)
(* PROMISING, and the benchmark that was scanned with it does not move      *)
(* against it (the readiness gate of DASHBOARD_GUIDE.md:47).                *)
ReadyRowsBrokeOut ==
    \A i \in ReadyRows :
        LET row == ReportRows[i] IN
        /\ Last(market[row.symbol]).at \in barTime - FreshnessLimit .. barTime
        /\ BrokeOut(market[row.symbol], row.setup)
        /\ row.grade = "PROMISING"
        /\ Benchmark \in {ReportRows[j].symbol : j \in DOMAIN ReportRows} =>
              ~MovesAgainst(market[Benchmark], row.setup)

(* Every ready row has a rank, although the ranks come from other fields,   *)
(* and the lead the desk names is the ready row of the best rank.           *)
ReadyRowsAreRanked ==
    answer.kind = "report" =>
        /\ \A i \in ReadyRows : ReportRows[i].rank # 0
        /\ ReadyRows # {} => \E i \in ReadyRows :
              /\ answer.summary.lead = <<ReportRows[i].symbol>>
              /\ \A j \in ReadyRows : ReportRows[i].rank <= ReportRows[j].rank

(* The stop that is suggested is on the losing side of the close, and       *)
(* every active setup has one: the level it broke, which comes from the     *)
(* bars while the setup comes from the features.                            *)
ActiveSetupsHaveAStop ==
    \A i \in DOMAIN ReportRows :
        LET row == ReportRows[i]
            series == market[row.symbol]
        IN row.setup # "none" =>
            /\ row.stop \in PriorCloses(series)
            /\ BrokeOut(Append(SubSeq(series, 1, Len(series) - 1),
                               [at |-> row.latestAt, close |-> row.stop +
                                    IF row.setup = "upside" THEN 1 ELSE -1]), row.setup)
            /\ (row.setup = "upside") = (row.stop < Last(series).close)

(* A setup never runs against the trend shown with it, and the benchmark's  *)
(* own setup is supported by the market and equal to it.                    *)
SetupsFollowTheirTrend ==
    \A i \in DOMAIN ReportRows :
        ReportRows[i].setup # "none" =>
            /\ ReportRows[i].trend = IF ReportRows[i].setup = "upside" THEN "UPWARD" ELSE "DOWNWARD"
            /\ ReportRows[i].symbol = Benchmark /\ answer.kind = "report" =>
                  ReportRows[i].market = "SUPPORTS" /\ ReportRows[i].relative = "NEUTRAL"

(* What the report says of a row is borne out by the bars and by the other  *)
(* rows.                                                                    *)
ReportsAreSound ==
    /\ ReadyRowsBrokeOut
    /\ ReadyRowsAreRanked
    /\ ActiveSetupsHaveAStop
    /\ SetupsFollowTheirTrend
=============================================================================
