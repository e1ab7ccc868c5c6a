---------------------------- MODULE SeriesResearch ----------------------------
(***************************************************************************)
(* The research of one growing series of bars and the backtest of its      *)
(* setups, src/app/evaluation/backtest.py.  All of it is recomputed        *)
(* whenever a bar is added, so it must not change for old bars.            *)
(***************************************************************************)
EXTENDS ResearchEngine

CONSTANTS
    Bars,              \* the bars of the instance
    MaxBars,           \* bound on the length of the series
    MaxHold,           \* maximum_hold_bars, 20
    MinTrades          \* trades the grade asks for, 20

SeriesAssumption ==
    /\ Bars \subseteq ValidBars
    /\ MaxHold \in Nat \ {0} /\ MinTrades \in Nat /\ MaxBars \in Nat

(* The return looks no further back than the breakouts do: the dashboard    *)
(* takes returns over one bar.                                              *)
RegimeAssumption == Period["return"] <= Period["high"] /\ Period["return"] <= Period["low"]

VARIABLES
    bars,              \* the series
    research           \* what its last analysis answered
seriesVars == <<bars, research>>

-----------------------------------------------------------------------------
(* The first bar of an open trade that reaches its stop, 2 percent against  *)
(* it, or its target, 4 percent for it.                                     *)
StopHit(bar, entry, key) ==
    IF key = "upside" THEN 100 * bar.low <= 98 * entry ELSE 100 * bar.high >= 102 * entry
TargetHit(bar, entry, key) ==
    IF key = "upside" THEN 100 * bar.high >= 104 * entry ELSE 100 * bar.low <= 96 * entry

(* Bug variant: the target is looked at before the stop.                    *)
TradeOptimistic(history, signal, key) ==
    LET entry == history[signal + 1].open
        last == Least(signal + MaxHold, Len(history))
        hits == {i \in signal + 1 .. last :
                    StopHit(history[i], entry, key) \/ TargetHit(history[i], entry, key)}
        exit == IF hits = {} THEN last ELSE CHOOSE i \in hits : \A j \in hits : i <= j
    IN [signal |-> signal, entry |-> signal + 1, exit |-> exit,
        result |-> IF hits = {} THEN "timeout"
                   ELSE IF TargetHit(history[exit], entry, key) THEN "win" ELSE "loss"]

(* A trade is entered at the open after its signal.  A bar that reaches     *)
(* both stop and target is a loss, and the hold ends with the series.       *)
Trade(history, signal, key) ==
    LET entry == history[signal + 1].open
        last == Least(signal + MaxHold, Len(history))
        hits == {i \in signal + 1 .. last :
                    StopHit(history[i], entry, key) \/ TargetHit(history[i], entry, key)}
        exit == IF hits = {} THEN last ELSE CHOOSE i \in hits : \A j \in hits : i <= j
    IN [signal |-> signal, entry |-> signal + 1, exit |-> exit,
        result |-> IF hits = {} THEN "timeout"
                   ELSE IF StopHit(history[exit], entry, key) THEN "loss" ELSE "win"]

(* The walk looks for the next signal after the exit.                       *)
Resume(trade) == trade.exit + 1

(* The trades of one setup; entries at a price of 0 are skipped.            *)
Trades(history, setups, key, firstEntry) ==
    LET from[s \in 1 .. Len(history) + 1] ==
            IF s >= Len(history) THEN <<>>
            ELSE IF setups[s][key] # "ACTIVE" \/ s + 1 < firstEntry THEN from[s + 1]
            ELSE IF history[s + 1].open <= 0 THEN from[s + 2]
            ELSE LET trade == Trade(history, s, key)
                 IN <<trade>> \o from[Resume(trade)]
    IN from[Most(1, firstEntry - 1)]

(* Entries of the last three tenths of the series are held out.             *)
Split(history) == (Len(history) * 7) \div 10 + 1

(* Hundreds of R times the entry: a stop is -1 R, a target 2 R, a timeout   *)
(* what the close moved, and each trade costs 0.05 R.                       *)
Outcome(history, trade, key) ==
    LET entry == history[trade.entry].open
        move == history[trade.exit].close - entry
    IN CASE trade.result = "loss" -> <<-105, 100>>
         [] trade.result = "win" -> <<195, 100>>
         [] OTHER -> <<5000 * (IF key = "upside" THEN move ELSE -move) - 5 * entry, 100 * entry>>
Expectancy(history, trades, key) ==      \* numerator over the entries' product
    LET total[i \in 0 .. Len(trades)] ==
            IF i = 0 THEN <<0, 1>>
            ELSE LET o == Outcome(history, trades[i], key)
                 IN <<total[i - 1][1] * o[2] + o[1] * total[i - 1][2], total[i - 1][2] * o[2]>>
    IN total[Len(trades)][1]

(* The setup with more held-out trades is graded, the upside one on a tie.  *)
Grade(history, heldOut) ==
    LET key == IF Len(heldOut["downside"]) > Len(heldOut["upside"]) THEN "downside" ELSE "upside"
        trades == heldOut[key]
    IN IF Len(trades) < MinTrades \/ trades = <<>> THEN "INSUFFICIENT"
       ELSE IF Expectancy(history, trades, key) <= 0 THEN "WEAK" ELSE "PROMISING"

Analyze(history) ==
    LET features == Features(history)
        evidence == Evidence(history, features)
        setups == Setups(evidence)
        trades == [key \in Keys |-> Trades(history, setups, key, 1)]
        heldOut == [key \in Keys |-> Trades(history, setups, key, Split(history))]
    IN [features |-> features, evidence |-> evidence, setups |-> setups,
        regime |-> Regime(history, features), trades |-> trades, heldOut |-> heldOut,
        grade |-> Grade(history, heldOut)]

-----------------------------------------------------------------------------
SeriesInit == bars = <<>> /\ research = Analyze(<<>>)

(* A bar is appended, its time its position, and the series analyzed anew.  *)
AddBar(b) ==
    /\ Len(bars) < MaxBars
    /\ bars' = Append(bars, b)
    /\ research' = Analyze(bars')
SeriesNext == \E b \in Bars : AddBar(b)
SeriesSpec == SeriesInit /\ [][SeriesNext]_seriesVars

-----------------------------------------------------------------------------
(* The series, and the results a series of these bars can have.             *)
SeriesTypeOK ==
    /\ bars \in Seq(Bars) /\ Len(bars) <= MaxBars
    /\ DOMAIN research.evidence = DOMAIN bars /\ DOMAIN research.setups = DOMAIN bars
    /\ \A i \in DOMAIN bars :
        /\ \A key \in DOMAIN research.evidence[i] : research.evidence[i][key] \in Statuses
        /\ \A key \in Keys : research.setups[i][key] \in Statuses
    /\ \A key \in Keys : \A n \in DOMAIN research.trades[key] :
        research.trades[key][n].exit \in DOMAIN bars
    /\ research.grade \in {"INSUFFICIENT", "WEAK", "PROMISING"}

(* The recurrences compute what their names say: rolling sums and extremes  *)
(* are those of the window, averages stay inside of the values they are     *)
(* over, the relative strength index is between 0 and 100 and is 50 for a   *)
(* series that does not move.                                               *)
FeaturesMeanWhatTheySay ==
    LET f == research.features
        highs == [i \in DOMAIN bars |-> bars[i].high]
        lows == [i \in DOMAIN bars |-> bars[i].low]
        Window(i, period) == i - period + 1 .. i
    IN \A i \in DOMAIN bars :
        /\ i >= Period["sma"] =>
            f.sma[i].num = SumOf(Closes(bars), i - Period["sma"] + 1, i)
        /\ i >= Period["high"] =>
            /\ \E j \in Window(i, Period["high"]) : f.high[i].num = highs[j]
            /\ \A j \in Window(i, Period["high"]) : f.high[i].num >= highs[j]
        /\ i >= Period["low"] =>
            /\ \E j \in Window(i, Period["low"]) : f.low[i].num = lows[j]
            /\ \A j \in Window(i, Period["low"]) : f.low[i].num <= lows[j]
        /\ i >= Period["ema"] =>
            /\ \E j \in 1 .. i : ~Above(f.ema[i], bars[j].close)
            /\ \E j \in 1 .. i : ~Below(f.ema[i], bars[j].close)
        /\ i > Period["rsi"] =>
            /\ ~Above(f.rsi[i], 100) /\ ~Below(f.rsi[i], 0)
            /\ (\A j \in 1 .. i : bars[j].close = bars[1].close) =>
                ~Above(f.rsi[i], 50) /\ ~Below(f.rsi[i], 50)

(* Evidence about one bar never contradicts itself, and a setup never       *)
(* stands against the trend regime: a breakout implies a positive return.   *)
EvidenceIsConsistent ==
    \A i \in DOMAIN bars :
        LET evidence == research.evidence[i]
            setups == research.setups[i]
            regime == research.regime[i]
            Active(keys) == {key \in keys : evidence[key] = "ACTIVE"}
            OneAtMost(keys) == \A a, b \in Active(keys) : a = b
        IN
        /\ OneAtMost({"PRICE_ABOVE_SMA", "PRICE_BELOW_SMA"})
        /\ OneAtMost({"EMA_ABOVE_SMA", "EMA_BELOW_SMA"})
        /\ OneAtMost({"CLOSE_BREAKOUT_ABOVE_PRIOR_HIGH", "CLOSE_BREAKDOWN_BELOW_PRIOR_LOW"})
        /\ OneAtMost({"RSI_OVERBOUGHT", "RSI_OVERSOLD", "RSI_MIDRANGE"})
        /\ OneAtMost({"VOLUME_ZSCORE_HIGH", "VOLUME_ZSCORE_LOW"})
        /\ setups.upside = "ACTIVE" => regime \in {"UPWARD", "UNDEFINED", "WARMING_UP"}
        /\ setups.downside = "ACTIVE" => regime \in {"DOWNWARD", "UNDEFINED", "WARMING_UP"}

(* A close breaks out exactly when it is beyond every bar of the window     *)
(* before it: a breakout neither looks at its own bar nor can never happen. *)
BreakoutsBreakOut ==
    \A i \in DOMAIN bars :
        LET evidence == research.evidence[i]
            Before(period) == i - period .. i - 1
        IN
        /\ i > Period["high"] =>
            (evidence.CLOSE_BREAKOUT_ABOVE_PRIOR_HIGH = "ACTIVE"
                <=> \A j \in Before(Period["high"]) : bars[j].high < bars[i].close)
        /\ i > Period["low"] =>
            (evidence.CLOSE_BREAKDOWN_BELOW_PRIOR_LOW = "ACTIVE"
                <=> \A j \in Before(Period["low"]) : bars[j].low > bars[i].close)

(* Evidence warms up once: a rule that had its operands has them from then  *)
(* on, or is undefined.                                                     *)
WarmsUpOnce ==
    \A i, j \in DOMAIN bars : i < j =>
        \A key \in DOMAIN research.evidence[i] :
            research.evidence[j][key] = "WARMING_UP" => research.evidence[i][key] = "WARMING_UP"

(* Features, evidence, setups and regime mean what they say, together.      *)
ResearchIsConsistent ==
    FeaturesMeanWhatTheySay /\ EvidenceIsConsistent /\ BreakoutsBreakOut /\ WarmsUpOnce

(* Trades follow an active signal of the bar before, never overlap, end in  *)
(* their hold at the first bar that reaches stop or target, and count such  *)
(* a bar as a loss whenever it reaches the stop.                            *)
TradesAreCausal ==
    \A key \in Keys : \A first \in {1, Split(bars)} :
        LET trades == (IF first = 1 THEN research.trades ELSE research.heldOut)[key] IN
        \A n \in DOMAIN trades :
            LET t == trades[n]
                entry == bars[t.entry].open
            IN
            /\ research.setups[t.signal][key] = "ACTIVE"
            /\ first <= t.entry /\ t.signal < t.entry /\ t.entry <= t.exit
            /\ t.exit < t.entry + MaxHold
            /\ n < Len(trades) => t.exit < trades[n + 1].signal
            /\ \A i \in t.entry .. t.exit - 1 :
                ~StopHit(bars[i], entry, key) /\ ~TargetHit(bars[i], entry, key)
            /\ StopHit(bars[t.exit], entry, key) <=> t.result = "loss"

(* No repainting: another bar changes no evidence, setup or regime of the   *)
(* bars before it.                                                          *)
NoRepaint ==
    [][\A i \in DOMAIN bars :
        /\ research'.evidence[i] = research.evidence[i]
        /\ research'.setups[i] = research.setups[i]
        /\ research'.regime[i] = research.regime[i]]_seriesVars

(* Another bar changes no trade of the backtest, except that a trade that   *)
(* was cut off by the end of the series goes on.                            *)
PastTradesAreFinal ==
    [][\A key \in Keys :
        LET before == research.trades[key]
            after == research'.trades[key]
        IN \A n \in DOMAIN before :
            /\ n \in DOMAIN after
            /\ after[n].entry = before[n].entry
            /\ after[n] = before[n] \/ (n = Len(before) /\ before[n].result = "timeout"
                                        /\ before[n].exit = Len(bars))]_seriesVars

(* What was said of the past is final.                                      *)
ResearchIsFinal == NoRepaint /\ PastTradesAreFinal
=============================================================================
