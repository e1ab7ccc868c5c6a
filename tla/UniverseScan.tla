----------------------------- MODULE UniverseScan -----------------------------
(***************************************************************************)
(* Point-in-time scans of several instruments: the bars of an instrument   *)
(* are materialized from the observations known at a moment                *)
(* (src/app/materialization/), each series is researched (ResearchEngine), *)
(* the universe selects the last setup of each at the moment of the scan   *)
(* (universe/), and the scanner keeps the active ones (scanner/).          *)
(*                                                                         *)
(* Observations arrive, among them corrections, late bars and bars of      *)
(* another source; one scan is taken on the way and must stay what it was. *)
(***************************************************************************)
EXTENDS ResearchEngine, Orders, SequencesExt

CONSTANTS
    Instruments,       \* in canonical order
    Source,            \* the source that is asked for
    Feed,              \* observations: [instrument, source, at, close]
    Windows,           \* requested ranges of bar times [start, end), end excluded
    Moments,           \* moments of a scan
    MaxObservations, MaxScanTime      \* bounds

UniverseAssumption ==
    /\ Instruments \in Seq(Range(Instruments)) /\ IsInjective(Instruments)
    /\ \A o \in Feed : o.instrument \in Range(Instruments) /\ o.at \in Nat /\ o.close \in Nat
    /\ Moments \subseteq Nat
    /\ \A w \in Windows : w.start \in Nat /\ w.end \in Nat /\ w.start < w.end

VARIABLES
    now,
    log,               \* the observations and when they were known, as replayed:
                       \* by that time, and within a time by their random ids
    scan               \* the scan that was taken, or NoScan
universeVars == <<now, log, scan>>
NoScan == [taken |-> FALSE]

-----------------------------------------------------------------------------
(* Bug variant: what is known by a moment is told by the time of the bar.   *)
KnownByBarTime(observations, asOf) == Select(observations, LAMBDA o : o.at <= asOf)

(* What a caller may pass: a later observation is refused as future-known.  *)
KnownObservations(observations, asOf) == Select(observations, LAMBDA o : o.knownAt <= asOf)

Matches(o, instrument, window) ==
    /\ o.instrument = instrument /\ o.source = Source
    /\ window.start <= o.at /\ o.at < window.end

(* Of each bar the version that was learned last, by bar time.              *)
Materialize(observations, instrument, window) ==
    LET candidates == Select(observations, LAMBDA o : Matches(o, instrument, window))
        superseded(i) == \E j \in DOMAIN candidates : j > i /\ candidates[j].at = candidates[i].at
        selected == {candidates[i] : i \in {j \in DOMAIN candidates : ~superseded(j)}}
    IN Sorted(selected, LAMBDA a, b : a.at < b.at)

BarOf(version) == [open |-> version.close, high |-> version.close, low |-> version.close,
                 close |-> version.close, volume |-> 1]

(* The setups of a series, one snapshot for each bar.                       *)
Research(versions) ==
    LET history == [i \in DOMAIN versions |-> BarOf(versions[i])]
        setups == Setups(Evidence(history, Features(history)))
    IN [i \in DOMAIN versions |-> [at |-> versions[i].at, setups |-> setups[i]]]

(* <<>> is NO_ELIGIBLE_HISTORY                                              *)
Selected(snapshots, scanAsOf) ==
    LET eligible == Select(snapshots, LAMBDA s : s.at <= scanAsOf)
    IN IF eligible = <<>> THEN <<>> ELSE <<Last(eligible)>>

(* The scanner: every selected state with its active setups.                *)
ScanResult(instrument, snapshot) ==
    [instrument |-> instrument, at |-> snapshot.at, setups |-> snapshot.setups,
     active |-> {key \in Keys : snapshot.setups[key] = "ACTIVE"}]

Coordinate(observations, knowledgeAsOf, scanAsOf, window) ==
    LET known == KnownObservations(observations, knowledgeAsOf)
        selected(i) == Selected(Research(Materialize(known, Instruments[i], window)), scanAsOf)
        results == UNION {{ScanResult(Instruments[i], s) : s \in Range(selected(i))} :
                             i \in DOMAIN Instruments}
        place(result) == CHOOSE i \in DOMAIN Instruments : Instruments[i] = result.instrument
    IN Sorted(results, LAMBDA a, b : place(a) < place(b))
-----------------------------------------------------------------------------
UniverseInit == now = 0 /\ log = <<>> /\ scan = NoScan

UniverseTick == now < MaxScanTime /\ now' = now + 1 /\ UNCHANGED <<log, scan>>

(* An observation is learned now; its id may put it before others of now.   *)
Observe ==
    /\ Len(log) < MaxObservations
    /\ \E o \in Feed, i \in 1 .. Len(log) + 1 :
        /\ \A j \in i .. Len(log) : log[j].knownAt = now
        /\ log' = InsertAt(log, i, [knownAt |-> now, instrument |-> o.instrument,
                                    source |-> o.source, at |-> o.at, close |-> o.close])
    /\ UNCHANGED <<now, scan>>

(* A scan of any moment, with what was known by now or before.              *)
Take ==
    /\ ~scan.taken
    /\ \E known \in 0 .. now, scanAsOf \in Moments, window \in Windows :
        scan' = [taken |-> TRUE, at |-> now, known |-> known, scanAsOf |-> scanAsOf, window |-> window,
                 results |-> Coordinate(log, known, scanAsOf, window)]
    /\ UNCHANGED <<now, log>>

UniverseNext == UniverseTick \/ Observe \/ Take
UniverseSpec == UniverseInit /\ [][UniverseNext]_universeVars
-----------------------------------------------------------------------------
(* A scan has at most one result for each instrument, in canonical order,   *)
(* of a bar that is not after the scan.                                     *)
UniverseTypeOK ==
    /\ now \in 0 .. MaxScanTime /\ Len(log) <= MaxObservations
    /\ \A i \in DOMAIN log : log[i].knownAt \in 0 .. now
    /\ \A i, j \in DOMAIN log : i < j => log[i].knownAt <= log[j].knownAt
    /\ scan.taken =>
        /\ IsInjective([i \in DOMAIN scan.results |-> scan.results[i].instrument])
        /\ \A i \in DOMAIN scan.results :
            scan.results[i].at \in scan.window.start .. scan.window.end - 1

(* A scan with the knowledge of a moment that has passed is reproducible:   *)
(* corrections and late bars learned afterwards do not change it.           *)
ScansAreReproducible ==
    scan.taken /\ scan.known < scan.at =>
        Coordinate(log, scan.known, scan.scanAsOf, scan.window) = scan.results

(* A scan of an earlier moment sees what a scan would have seen to which    *)
(* later bars were never told, although the research behind it is of the    *)
(* whole series.                                                            *)
ScansDoNotLookAhead ==
    scan.taken /\ scan.known < scan.at =>
        Coordinate(Select(log, LAMBDA o : o.at <= scan.scanAsOf), scan.known,
                   scan.scanAsOf, scan.window) = scan.results

(* Observations of another source take no part: prices are never blended,   *)
(* not even where the source asked for has no bar.                          *)
SourcesAreNotBlended ==
    scan.taken /\ scan.known < scan.at =>
        Coordinate(Select(log, LAMBDA o : o.source = Source), scan.known,
                   scan.scanAsOf, scan.window) = scan.results

(* An instrument with any bar in the window by the moment of the scan is    *)
(* never left out: its last such bar is the one that is judged.             *)
NobodyIsLeftOut ==
    scan.taken /\ scan.known < scan.at =>
        \A i \in DOMAIN Instruments :
            LET seen == {log[j].at : j \in {k \in DOMAIN log :
                            /\ log[k].knownAt <= scan.known /\ log[k].instrument = Instruments[i]
                            /\ log[k].source = Source /\ log[k].at <= scan.scanAsOf
                            /\ log[k].at \in scan.window.start .. scan.window.end - 1}}
                judged == {scan.results[j].at : j \in {k \in DOMAIN scan.results :
                              scan.results[k].instrument = Instruments[i]}}
            IN judged = {t \in seen : \A u \in seen : u <= t}

(* A scan is what the observations of its source, known by its moment, say  *)
(* of the bars until then, for every instrument and at any later time.      *)
ScansAreSound ==
    /\ ScansAreReproducible /\ ScansDoNotLookAhead
    /\ SourcesAreNotBlended /\ NobodyIsLeftOut
=============================================================================
