---------------------------- MODULE ResearchEngine ----------------------------
(***************************************************************************)
(* The research of a series of bars, src/app/research/engine.py: the       *)
(* technical features, the market evidence read from them (evidence/), the *)
(* setups composed from the evidence (setups/) and the trend regime        *)
(* (regime/).                                                              *)
(***************************************************************************)
EXTENDS TechnicalFeatures

CONSTANTS
    Period,            \* periods, by kind of feature
    Overbought, Oversold,       \* thresholds of the RSI
    ZHigh              \* square of the thresholds of the z-score, 2 and -2

Keys == {"upside", "downside"}
BarType == [open : Nat, high : Nat, low : Nat, close : Nat, volume : Nat]
(* Low and high hold the open and the close.                                *)
ValidBars ==
    {b \in BarType : b.low <= b.open /\ b.low <= b.close /\ b.open <= b.high /\ b.close <= b.high}
Kinds == {"sma", "ema", "rsi", "atr", "high", "low", "return", "volume", "zscore"}
Statuses == {"WARMING_UP", "UNDEFINED", "INACTIVE", "ACTIVE"}

ResearchAssumption ==
    /\ Period \in [Kinds -> Nat \ {0}]
    /\ Oversold \in Nat /\ Overbought \in Nat
    /\ Oversold < Overbought /\ Overbought <= 100
    /\ ZHigh \in Nat

-----------------------------------------------------------------------------
Closes(history) == [i \in DOMAIN history |-> history[i].close]
Volumes(history) == [i \in DOMAIN history |-> history[i].volume]

(* The configured features of every bar.                                    *)
Features(history) ==
    [sma |-> Sma(Closes(history), Period["sma"]),
     ema |-> Ema(Closes(history), Period["ema"]),
     rsi |-> Rsi(Closes(history), Period["rsi"]),
     atr |-> WilderAverage(TrueRanges(history), Period["atr"]),
     high |-> RollingHigh([i \in DOMAIN history |-> history[i].high], Period["high"]),
     low |-> RollingLow([i \in DOMAIN history |-> history[i].low], Period["low"]),
     return |-> Returns(Closes(history), Period["return"]),
     volume |-> Sma(Volumes(history), Period["volume"]),
     zscore |-> ZScore(Volumes(history), Period["zscore"])]

EvidenceKeys ==
    {"PRICE_ABOVE_SMA", "PRICE_BELOW_SMA", "EMA_ABOVE_SMA", "EMA_BELOW_SMA", "POSITIVE_RETURN",
     "NEGATIVE_RETURN", "RSI_OVERBOUGHT", "RSI_OVERSOLD", "RSI_MIDRANGE",
     "CLOSE_BREAKOUT_ABOVE_PRIOR_HIGH", "CLOSE_BREAKDOWN_BELOW_PRIOR_LOW",
     "VOLUME_ABOVE_MEAN", "VOLUME_ZSCORE_HIGH", "VOLUME_ZSCORE_LOW"}

(* Extremes are those of the bars before; the first bar has none.           *)
Prior(series, i) == IF i = 1 THEN Warming ELSE series[i - 1]

(* The operands of a rule at a bar.                                         *)
Sources(key, f, i) ==
    CASE key \in {"PRICE_ABOVE_SMA", "PRICE_BELOW_SMA"} -> <<f.sma[i]>>
      [] key \in {"EMA_ABOVE_SMA", "EMA_BELOW_SMA"} -> <<f.sma[i], f.ema[i]>>
      [] key \in {"POSITIVE_RETURN", "NEGATIVE_RETURN"} -> <<f.return[i]>>
      [] key \in {"RSI_OVERBOUGHT", "RSI_OVERSOLD", "RSI_MIDRANGE"} -> <<f.rsi[i]>>
      [] key = "CLOSE_BREAKOUT_ABOVE_PRIOR_HIGH" -> <<Prior(f.high, i)>>
      [] key = "CLOSE_BREAKDOWN_BELOW_PRIOR_LOW" -> <<Prior(f.low, i)>>
      [] key = "VOLUME_ABOVE_MEAN" -> <<f.volume[i]>>
      [] key \in {"VOLUME_ZSCORE_HIGH", "VOLUME_ZSCORE_LOW"} -> <<f.zscore[i]>>

(* Whether the rule holds of available operands d.                          *)
Holds(key, bar, d) ==
    CASE key = "PRICE_ABOVE_SMA" -> Below(d[1], bar.close)
      [] key = "PRICE_BELOW_SMA" -> Above(d[1], bar.close)
      [] key = "EMA_ABOVE_SMA" -> Exceeds(d[2], d[1])
      [] key = "EMA_BELOW_SMA" -> Exceeds(d[1], d[2])
      [] key = "POSITIVE_RETURN" -> d[1].num > 0
      [] key = "NEGATIVE_RETURN" -> d[1].num < 0
      [] key = "RSI_OVERBOUGHT" -> ~Below(d[1], Overbought)
      [] key = "RSI_OVERSOLD" -> ~Above(d[1], Oversold)
      [] key = "RSI_MIDRANGE" -> Above(d[1], Oversold) /\ Below(d[1], Overbought)
      [] key = "CLOSE_BREAKOUT_ABOVE_PRIOR_HIGH" -> Below(d[1], bar.close)
      [] key = "CLOSE_BREAKDOWN_BELOW_PRIOR_LOW" -> Above(d[1], bar.close)
      [] key = "VOLUME_ABOVE_MEAN" -> Below(d[1], bar.volume)
      [] key = "VOLUME_ZSCORE_HIGH" -> d[1].num > 0 /\ d[1].num * d[1].num >= ZHigh * d[1].den
      [] key = "VOLUME_ZSCORE_LOW" -> d[1].num < 0 /\ d[1].num * d[1].num >= ZHigh * d[1].den

(* The rule itself is only looked at when all of its operands are there.    *)
Availability(statuses) ==
    IF "WARMING_UP" \in statuses THEN "WARMING_UP"
    ELSE IF "UNDEFINED" \in statuses THEN "UNDEFINED" ELSE "AVAILABLE"
EvaluateRule(key, bar, operands) ==
    LET availability == Availability({operands[n].status : n \in DOMAIN operands})
    IN IF availability # "AVAILABLE" THEN availability
       ELSE IF Holds(key, bar, operands) THEN "ACTIVE" ELSE "INACTIVE"

Evidence(history, f) ==
    [i \in DOMAIN history |->
        [key \in EvidenceKeys |-> EvaluateRule(key, history[i], Sources(key, f, i))]]

(* A setup is active when all evidence it requires is.                      *)
SetupStatus(statuses) ==
    LET availability == Availability(statuses)
    IN IF availability # "AVAILABLE" THEN availability
       ELSE IF statuses = {"ACTIVE"} THEN "ACTIVE" ELSE "INACTIVE"

Setups(evidence) ==
    [i \in DOMAIN evidence |->
        [upside |-> SetupStatus({evidence[i].PRICE_ABOVE_SMA,
                                 evidence[i].CLOSE_BREAKOUT_ABOVE_PRIOR_HIGH}),
         downside |-> SetupStatus({evidence[i].PRICE_BELOW_SMA,
                                   evidence[i].CLOSE_BREAKDOWN_BELOW_PRIOR_LOW})]]

(* The trend regime from the close, its average and the return.             *)
Derive(close, sma, return) ==
    LET availability == Availability({sma.status, return.status})
    IN IF availability # "AVAILABLE" THEN availability
       ELSE IF Below(sma, close) /\ return.num > 0 THEN "UPWARD"
       ELSE IF Above(sma, close) /\ return.num < 0 THEN "DOWNWARD"
       ELSE IF ~Below(sma, close) /\ ~Above(sma, close) /\ return.num = 0 THEN "FLAT"
       ELSE "MIXED"
Regime(history, f) ==
    [i \in DOMAIN history |-> Derive(history[i].close, f.sma[i], f.return[i])]
=============================================================================
