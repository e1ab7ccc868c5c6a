--------------------------- MODULE MarketStructure ---------------------------
(***************************************************************************)
(* Swings, breaks of structure, liquidity sweeps, fair value gaps and      *)
(* support/resistance zones of a series of bars, as src/app/structure/     *)
(* engine.py derives them anew from the whole series at every evaluation.  *)
(* The evaluation is at the newest bar, and a bar's time is its position.  *)
(***************************************************************************)
EXTENDS Integers, Sequences, FiniteSets

CONSTANTS
    Candles,                 \* the bars of the instance
    MaxCandles,              \* bound on the length of the series
    LeftSpan, RightSpan,     \* StructureConfig
    HalfWidth                \* ZoneConfig

CandleType == [high : Nat, low : Nat, close : Nat]
StructureAssumption ==
    /\ Candles \subseteq {b \in CandleType : b.low <= b.close /\ b.close <= b.high}
    /\ MaxCandles \in Nat
    /\ LeftSpan \in 1 .. 100 /\ RightSpan \in 1 .. 100
    /\ HalfWidth \in Nat \ {0}

Never == 0
(* The first position of a set of positions.                                *)
First(positions) ==
    IF positions = {} THEN Never ELSE CHOOSE i \in positions : \A j \in positions : i <= j

VARIABLES candles, structure
structureVars == <<candles, structure>>

-----------------------------------------------------------------------------
PivotsAt(history, positions) ==
    {[at |-> i, kind |-> kind, confirmed |-> i + RightSpan,
      price |-> IF kind = "HIGH" THEN history[i].high ELSE history[i].low] :
        i \in positions, kind \in {"HIGH", "LOW"}}
Stands(history, p, others) ==
    \A j \in others \ {p.at} :
        IF p.kind = "HIGH" THEN history[j].high < p.price ELSE history[j].low > p.price

(* Bug variant: at the end of the series the bars that are there suffice.   *)
PivotsUnconfirmed(history) ==
    {p \in PivotsAt(history, LeftSpan + 1 .. Len(history)) :
        Stands(history, p, (p.at - LeftSpan .. p.confirmed) \cap DOMAIN history)}

(* A pivot is strictly above (below) the bars of both spans, and is known   *)
(* at the last of them.                                                     *)
Pivots(history) ==
    {p \in PivotsAt(history, LeftSpan + 1 .. Len(history) - RightSpan) :
        Stands(history, p, p.at - LeftSpan .. p.confirmed)}

KnownPivots(pivots, i) == {p \in pivots : p.confirmed <= i /\ p.at < i}
Newest(pivots) == {p \in pivots : \A q \in pivots : q.at <= p.at}
Beyond(price, pivot) == IF pivot.kind = "HIGH" THEN price > pivot.price ELSE price < pivot.price

(* Bug variant: every known pivot is looked at, broken before or not.       *)
BreaksAgain(history, pivots) ==
    {b \in {[pivot |-> p, at |-> i] : p \in pivots, i \in DOMAIN history} :
        b.pivot \in KnownPivots(pivots, b.at) /\ Beyond(history[b.at].close, b.pivot)}

(* The newest known pivot of a kind is broken by the first close beyond it. *)
Breaks(history, pivots) ==
    LET Crossing(p) ==
            {i \in DOMAIN history :
                /\ p \in Newest({q \in KnownPivots(pivots, i) : q.kind = p.kind})
                /\ Beyond(history[i].close, p)}
    IN {[pivot |-> p, at |-> First(Crossing(p))] : p \in {p \in pivots : Crossing(p) # {}}}

(* A level is swept by the first bar since its confirmation that goes       *)
(* beyond it and closes back.                                               *)
Sweeps(history, pivots) ==
    LET Sweeping(p) ==
            {i \in DOMAIN history :
                /\ p.confirmed <= i
                /\ Beyond(IF p.kind = "HIGH" THEN history[i].high ELSE history[i].low, p)
                /\ ~Beyond(history[i].close, p)}
    IN {[pivot |-> p, at |-> First(Sweeping(p))] : p \in {p \in pivots : Sweeping(p) # {}}}

(* The gap between the first and the third of three bars, and how later     *)
(* bars fill it: once filled no bar counts as a partial fill any more.      *)
Filled(bar, gap) == IF gap.upward THEN bar.low <= gap.lower ELSE bar.high >= gap.upper
Entered(bar, gap) == IF gap.upward THEN bar.low < gap.upper ELSE bar.high > gap.lower
Formed(history) ==
    {[at |-> i, upward |-> TRUE, lower |-> history[i - 2].high, upper |-> history[i].low] :
        i \in {i \in 3 .. Len(history) : history[i].low > history[i - 2].high}}
    \cup
    {[at |-> i, upward |-> FALSE, lower |-> history[i].high, upper |-> history[i - 2].low] :
        i \in {i \in 3 .. Len(history) : history[i].high < history[i - 2].low}}

Gaps(history) ==
    {LET later == gap.at + 1 .. Len(history)
         filled == First({i \in later : Filled(history[i], gap)})
     IN [gap |-> gap, filled |-> filled,
         partial |-> First({i \in later : Entered(history[i], gap)
                                          /\ (filled = Never \/ i < filled)})] :
        gap \in Formed(history)}

(* A zone around a pivot is tested by the first later bar that overlaps it  *)
(* and broken by the first close beyond it, which ends the walk.            *)
Zone(history, p) ==
    LET lower == p.price - HalfWidth
        upper == p.price + HalfWidth
        later == p.confirmed + 1 .. Len(history)
        broken == First({i \in later : IF p.kind = "HIGH" THEN history[i].close > upper
                                                          ELSE history[i].close < lower})
    IN [pivot |-> p, broken |-> broken,
        tested |-> First({i \in later : /\ history[i].high >= lower /\ history[i].low <= upper
                                        /\ broken = Never \/ i <= broken})]

(* One zone that would reach below zero fails the whole evaluation.         *)
Rejected(pivots) == \E p \in pivots : p.price < HalfWidth
Zones(history, pivots) == IF Rejected(pivots) THEN {} ELSE {Zone(history, p) : p \in pivots}

EvaluateStructure(history) ==
    LET pivots == Pivots(history)
    IN [pivots |-> pivots, breaks |-> Breaks(history, pivots), sweeps |-> Sweeps(history, pivots),
        gaps |-> Gaps(history), zones |-> Zones(history, pivots),
        rejected |-> Rejected(pivots)]

-----------------------------------------------------------------------------
StructureInit == candles = <<>> /\ structure = EvaluateStructure(<<>>)

AddCandle(b) ==
    /\ Len(candles) < MaxCandles
    /\ candles' = Append(candles, b)
    /\ structure' = EvaluateStructure(candles')
StructureNext == \E b \in Candles : AddCandle(b)
StructureSpec == StructureInit /\ [][StructureNext]_structureVars

-----------------------------------------------------------------------------
(* The results are about bars of the series, and the validators of          *)
(* structure/models.py accept them: an evaluation of legal bars never fails *)
(* except for a zone below zero.                                            *)
StructureTypeOK ==
    /\ candles \in Seq(Candles) /\ Len(candles) <= MaxCandles
    /\ \A p \in structure.pivots : p.at < p.confirmed /\ p.confirmed <= Len(candles)
    /\ \A b \in structure.breaks : b.at \in DOMAIN candles /\ Beyond(candles[b.at].close, b.pivot)
    /\ \A s \in structure.sweeps : s.at \in DOMAIN candles /\ ~Beyond(candles[s.at].close, s.pivot)
    /\ \A g \in structure.gaps :
        g.gap.lower < g.gap.upper /\ g.filled \in {Never} \cup (g.gap.at + 1 .. Len(candles))

(* A pivot is broken once, and neither broken nor swept by a bar that had   *)
(* to stay below (above) it to confirm it.  A bar may sweep a level or      *)
(* break it, never both.                                                    *)
PivotsAreUsedOnce ==
    /\ \A a, b \in structure.breaks : a.pivot = b.pivot => a = b
    /\ \A e \in structure.breaks \cup structure.sweeps : e.at > e.pivot.confirmed
    /\ structure.breaks \cap structure.sweeps = {}

(* The zones agree with the breaks of structure: a zone is never broken     *)
(* before its own pivot, unless a newer pivot had taken that one's place.   *)
ZonesFollowStructure ==
    \A z \in structure.zones : z.broken # Never =>
        \/ \E b \in structure.breaks : b.pivot = z.pivot /\ b.at <= z.broken
        \/ \E q \in KnownPivots(structure.pivots, z.broken) : q.kind = z.pivot.kind /\ q.at > z.pivot.at

(* The states of pivots, breaks, sweeps and zones fit together.             *)
StructureIsConsistent == PivotsAreUsedOnce /\ ZonesFollowStructure

(* No repainting: another bar only adds pivots, breaks and sweeps that are  *)
(* dated with it.                                                           *)
StructureNoRepaint ==
    [][LET now == Len(candles') IN
       /\ structure.pivots \subseteq structure'.pivots
       /\ \A p \in structure'.pivots \ structure.pivots : p.confirmed = now
       /\ structure.breaks \subseteq structure'.breaks
       /\ \A b \in structure'.breaks \ structure.breaks : b.at = now
       /\ structure.sweeps \subseteq structure'.sweeps
       /\ \A s \in structure'.sweeps \ structure.sweeps : s.at = now]_structureVars

(* The life of a gap or a zone moves forward only, by events dated with the *)
(* bar that is added, and one that is filled or broken is settled.          *)
Advances(before, after) == after = before \/ (before = Never /\ after = Len(candles'))
LifeOnlyAdvances ==
    [][/\ \A g \in structure.gaps : \E h \in structure'.gaps :
            /\ h.gap = g.gap
            /\ Advances(g.filled, h.filled) /\ Advances(g.partial, h.partial)
            /\ g.filled # Never => h = g
       /\ ~structure'.rejected =>
            \A z \in structure.zones : \E y \in structure'.zones :
                /\ y.pivot = z.pivot
                /\ Advances(z.broken, y.broken) /\ Advances(z.tested, y.tested)
                /\ z.broken # Never => y = z]_structureVars

(* What was said of the structure is final, or advances with the new bar.   *)
StructureOnlyAdvances == StructureNoRepaint /\ LifeOnlyAdvances
=============================================================================
