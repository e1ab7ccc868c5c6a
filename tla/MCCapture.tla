----------------------------- MODULE MCCapture -----------------------------
(* Cycles: two processes and two cycles that both carry the bar of minute 1.*)
(* Caps: the same with room for two observations on pages of one.           *)
(* Paper: two processes, two evaluations of the same decision, two          *)
(* measurements of its outcome.                                             *)
(* Feed: one call for minutes 1 to 3 on pages of one, while one of its      *)
(* items comes late or changes.                                             *)
(* Facts: two collectors of a fact with a revision, one without any times   *)
(* and one of the same key from another source.                             *)
(*                                                                          *)
(* A part is chosen at the start and the others stay as they began.         *)
EXTENDS CaptureCycle, PaperEvaluation, MarketFeed, FactHistory, TLC

CONSTANTS Parts, c1, c2, e1, e2, d1, k1, k2

VARIABLE part

MCBatch == (c1 :> {0, 1}) @@ (c2 :> {1})
MCScheduledAt == (c1 :> 2) @@ (c2 :> 3)
(* Smaller caps, and no seal is researched that lacks an interval.          *)
Caps ==
    INSTANCE CaptureCycle
    WITH RequireAll <- TRUE, MaxObservations <- 2, PageSize <- 1, MaxPages <- 3,
         Ids <- 1 .. 3, Times <- 2 .. 3
ASSUME CaptureAssumption /\ Caps!CaptureAssumption

MCDecisionOf == (e1 :> d1) @@ (e2 :> d1)
MCCapturedAt == (e1 :> 1) @@ (e2 :> 2)
MCEvaluatedAt == (d1 :> 1)
MCMeasurements ==
    {[decision |-> d1, valuedAt |-> 1, observedAt |-> 2, asOf |-> t] : t \in {2, 3}}
ASSUME PaperAssumption /\ Journal!JournalAssumption

MCPageLimits == ("bars" :> 4) @@ ("news" :> 3)
ASSUME FeedAssumption

Version(source, key, label, subjects, time) ==
    [source |-> source, key |-> key, label |-> label, subjects |-> subjects,
     occurred |-> time, published |-> time]
MCVersions ==
    << Version("A", 1, "x", {"u"}, 0), Version("A", 1, "y", {"u"}, 1),
       Version("A", None, "x", {}, None),
       [Version("B", 1, "x", {"u"}, None) EXCEPT !.published = 0] >>
ASSUME FactAssumption

partsVars == <<part, vars, paperVars, feedVars, factVars>>

PartsInit ==
    /\ part \in Parts
    /\ IF part = "cycles" THEN Init ELSE Caps!Init
    /\ part \notin {"cycles", "caps"} => lastAt = 2
    /\ PaperInit /\ FeedInit /\ FactInit
    /\ part # "feed" => \A t \in FeedTimes : published[t] = 0
PartsNext ==
    \/ part = "cycles" /\ Next /\ UNCHANGED <<part, paperVars, feedVars, factVars>>
    \/ part = "caps" /\ Caps!Next /\ UNCHANGED <<part, paperVars, feedVars, factVars>>
    \/ part = "paper" /\ PaperNext /\ UNCHANGED <<part, vars, feedVars, factVars>>
    \/ part = "feed" /\ FeedNext /\ UNCHANGED <<part, vars, paperVars, factVars>>
    \/ part = "facts" /\ FactNext /\ UNCHANGED <<part, vars, paperVars, feedVars>>
PartsSpec == PartsInit /\ [][PartsNext]_partsVars /\ Fairness /\ FeedFairness

-----------------------------------------------------------------------------
(* Under small caps, too, what is sealed is all that was known; evaluate()  *)
(* and the calls of a provider always come to an end; and what was known at *)
(* a moment that is past does not change.                                   *)
PastsAndCallsSettle ==
    /\ [](part = "caps" => Caps!EvidenceIsSound)
    /\ EvaluationEnds
    /\ FetchEnds
    /\ PastIsFinal
=============================================================================
