-------------------------- MODULE TechnicalFeatures --------------------------
(***************************************************************************)
(* The feature series of src/app/technical/engine.py over a sequence of    *)
(* integers, with their recurrences as the engine runs them.  A value is a *)
(* fraction num/den; the z-score is num/sqrt(den).  Where the engine       *)
(* rounds to its decimal context, these are exact.                         *)
(***************************************************************************)
EXTENDS Integers, Sequences, FiniteSetsExt

Warming == [status |-> "WARMING_UP"]
Undefined == [status |-> "UNDEFINED"]
Available(num, den) == [status |-> "AVAILABLE", num |-> num, den |-> den]

Least(a, b) == IF a < b THEN a ELSE b
Most(a, b) == IF a > b THEN a ELSE b
Distance(a, b) == IF a > b THEN a - b ELSE b - a
SumOf(values, first, last) ==
    LET sum[i \in first - 1 .. last] == IF i < first THEN 0 ELSE sum[i - 1] + values[i]
    IN sum[last]

-----------------------------------------------------------------------------
(* Bug variant: the value that leaves the window is taken off one late.     *)
RollingSumLate(values, period) ==
    LET sum[i \in 0 .. Len(values)] ==
            IF i = 0 THEN 0
            ELSE sum[i - 1] + values[i] - (IF i > period + 1 THEN values[i - period - 1] ELSE 0)
    IN sum

RollingSum(values, period) ==
    LET sum[i \in 0 .. Len(values)] ==
            IF i = 0 THEN 0
            ELSE sum[i - 1] + values[i] - (IF i > period THEN values[i - period] ELSE 0)
    IN sum

Sma(values, period) ==
    LET sum == RollingSum(values, period)
    IN [i \in DOMAIN values |-> IF i < period THEN Warming ELSE Available(sum[i], period)]

(* An average that starts as the mean of the first period values and then   *)
(* moves by weight/den towards each next one.                               *)
Smoothed(values, period, weight, den) ==
    LET average[i \in 1 .. Len(values)] ==
            IF i < period THEN Warming
            ELSE IF i = period THEN Available(SumOf(values, 1, period), period)
            ELSE LET before == average[i - 1]
                 IN Available(weight * values[i] * before.den + (den - weight) * before.num,
                              den * before.den)
    IN average

Ema(values, period) == Smoothed(values, period, 2, period + 1)
WilderAverage(values, period) == Smoothed(values, period, 1, period)

(* Average gains and losses have one denominator, so their numerators give  *)
(* the relative strength; without any movement the index is 50.             *)
RsiValue(gain, loss) ==
    IF gain = 0 /\ loss = 0 THEN Available(50, 1) ELSE Available(100 * gain, gain + loss)

Rsi(closes, period) ==
    LET changes == [i \in 1 .. Len(closes) - 1 |-> closes[i + 1] - closes[i]]
        gains == WilderAverage([i \in DOMAIN changes |-> Most(changes[i], 0)], period)
        losses == WilderAverage([i \in DOMAIN changes |-> Most(-changes[i], 0)], period)
    IN [i \in DOMAIN closes |->
            IF i <= period THEN Warming ELSE RsiValue(gains[i - 1].num, losses[i - 1].num)]

TrueRanges(bars) ==
    [i \in DOMAIN bars |->
        LET range == bars[i].high - bars[i].low IN
        IF i = 1 THEN range
        ELSE Most(range, Most(Distance(bars[i].high, bars[i - 1].close),
                              Distance(bars[i].low, bars[i - 1].close)))]

(* The candidates of a rolling extreme after each value: the positions of   *)
(* the window that no later value covers, from above or from below.         *)
Candidates(values, period, highest) ==
    LET Covers(a, b) == IF highest THEN b <= a ELSE b >= a
        candidates[i \in 0 .. Len(values)] ==
            IF i = 0 THEN <<>>
            ELSE LET before == candidates[i - 1]
                     inside == {k \in DOMAIN before : before[k] > i - period}
                     first == Min({Len(before) + 1} \cup inside)
                     kept == {k \in first .. Len(before) : ~Covers(values[i], values[before[k]])}
                     last == Max({first - 1} \cup kept)
                 IN Append(SubSeq(before, first, last), i)
    IN candidates

RollingExtreme(values, period, highest) ==
    LET candidates == Candidates(values, period, highest)
    IN [i \in DOMAIN values |->
            IF i < period THEN Warming ELSE Available(values[Head(candidates[i])], 1)]

RollingHigh(values, period) == RollingExtreme(values, period, TRUE)
RollingLow(values, period) == RollingExtreme(values, period, FALSE)

Returns(closes, period) ==
    [i \in DOMAIN closes |->
        IF i <= period THEN Warming
        ELSE IF closes[i - period] = 0 THEN Undefined
        ELSE Available(closes[i] - closes[i - period], closes[i - period])]

(* Bug variant: the deviation is from the mean of the whole series.         *)
ZScoreOfAll(values, period) ==
    LET n == Len(values)
        sum == SumOf(values, 1, n)
        squares == SumOf([j \in DOMAIN values |-> values[j] * values[j]], 1, n)
        variance == n * squares - sum * sum
    IN [i \in DOMAIN values |->
        IF i < period THEN Warming
        ELSE IF variance = 0 THEN Undefined ELSE Available(n * values[i] - sum, variance)]

(* n times the deviation of the last value over the square of n times the   *)
(* standard deviation of the window.                                        *)
ZScore(values, period) ==
    [i \in DOMAIN values |->
        IF i < period THEN Warming
        ELSE LET sum == SumOf(values, i - period + 1, i)
                 squares == SumOf([j \in DOMAIN values |-> values[j] * values[j]], i - period + 1, i)
                 variance == period * squares - sum * sum
             IN IF variance = 0 THEN Undefined
                ELSE Available(period * values[i] - sum, variance)]

-----------------------------------------------------------------------------
(* Comparisons of a fraction with an integer.                               *)
Above(feature, value) == feature.num > value * feature.den
Below(feature, value) == feature.num < value * feature.den
(* Two fractions.                                                           *)
Exceeds(a, b) == a.num * b.den > b.num * a.den
=============================================================================
