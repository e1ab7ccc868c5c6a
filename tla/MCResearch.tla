----------------------------- MODULE MCResearch -----------------------------
(* Store: two processes open, fetch and append.                             *)
(* Replay: one writer, and a reader with pages of one and two.              *)
(* Series, structure: a series grows by one of six bars at a time.          *)
(* Universe: two instruments, corrections, late bars and another source.    *)
(*                                                                          *)
(* A part is chosen at the start and the others stay as they began.         *)
EXTENDS ObservationReplay, SeriesResearch, MarketStructure, UniverseScan, TLC

CONSTANTS Parts, p1, p2, r1, AAA, BBB, IEX, CSV

VARIABLE part

(* Bars of an interval, two snapshots, a file.                              *)
MCRequests ==
    {[kind |-> "bars", size |-> 0, start |-> 0, end |-> 1],
     [kind |-> "snapshots", size |-> 2, start |-> 0, end |-> 0],
     [kind |-> "csv", size |-> 0, start |-> 0, end |-> 0]}
MCOnlyBars == {[kind |-> "bars", size |-> 0, start |-> 0, end |-> 2]}
Store ==
    INSTANCE ObservationReplay
    WITH Processes <- {p1, p2}, Ids <- 1 .. 2, MaxTime <- 1, Requests <- MCRequests,
         Readers <- {r1}, Limits <- {1, 2}
ASSUME StoreAssumption /\ ReplayAssumption /\ Store!StoreAssumption

MCKinds == {"sma", "ema", "rsi", "atr", "high", "low", "return", "volume", "zscore"}
MCPeriod == [k \in MCKinds |-> IF k = "return" THEN 1 ELSE 2]

(* Bars around 100, where stop and target lie at 98 and 104 of an entry     *)
(* at 100, one bar that reaches both, and one of price 0.                   *)
Bar(open, high, low, close, volume) ==
    [open |-> open, high |-> high, low |-> low, close |-> close, volume |-> volume]
MCBars ==
    {Bar(100, 100, 100, 100, 1), Bar(100, 102, 100, 102, 2), Bar(102, 107, 101, 106, 4),
     Bar(100, 101, 97, 98, 1), Bar(98, 106, 94, 95, 3), Bar(0, 0, 0, 0, 0)}
ASSUME SeriesAssumption /\ ResearchAssumption /\ RegimeAssumption

(* Prices 0 to 5: three bars make a swing or a gap, the others break,       *)
(* sweep, test or fill it.                                                  *)
Candle(high, low, close) == [high |-> high, low |-> low, close |-> close]
MCCandles ==
    {Candle(2, 1, 2), Candle(3, 2, 2), Candle(4, 3, 4), Candle(5, 4, 5), Candle(4, 1, 2),
     Candle(3, 0, 3)}
ASSUME StructureAssumption

(* Three bars of one instrument, two of them at two prices and one of       *)
(* another source as well, and a bar of another instrument.                 *)
Observation(instrument, source, at, close) ==
    [instrument |-> instrument, source |-> source, at |-> at, close |-> close]
MCFeed ==
    {Observation(AAA, IEX, at, close) : at \in 2 .. 3, close \in {1, 2}}
        \cup {Observation(AAA, IEX, 1, 1), Observation(AAA, CSV, 3, 2), Observation(BBB, IEX, 2, 1)}
MCInstruments == <<AAA, BBB>>
MCWindows == {[start |-> 1, end |-> 4], [start |-> 2, end |-> 3]}
ASSUME UniverseAssumption

partsVars == <<part, replayVars, seriesVars, structureVars, universeVars>>

PartsInit ==
    /\ part \in Parts
    /\ IF part = "store" THEN Store!ReplayInit ELSE ReplayInit
    /\ SeriesInit /\ StructureInit /\ UniverseInit
PartsNext ==
    \/ part = "store" /\ Store!StoreNext
       /\ UNCHANGED <<part, reader, seriesVars, structureVars, universeVars>>
    \/ part = "replay" /\ ReplayNext
       /\ UNCHANGED <<part, seriesVars, structureVars, universeVars>>
    \/ part = "series" /\ SeriesNext
       /\ UNCHANGED <<part, replayVars, structureVars, universeVars>>
    \/ part = "structure" /\ StructureNext
       /\ UNCHANGED <<part, replayVars, seriesVars, universeVars>>
    \/ part = "universe" /\ UniverseNext
       /\ UNCHANGED <<part, replayVars, seriesVars, structureVars>>
PartsSpec == PartsInit /\ [][PartsNext]_partsVars
=============================================================================
