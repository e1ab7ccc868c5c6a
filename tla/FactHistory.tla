----------------------------- MODULE FactHistory -----------------------------
(***************************************************************************)
(* Facts that sources revise: collectors receive versions of a fact, their *)
(* batches are appended to the global event store (src/app/intelligence/   *)
(* events/), and a history is what was known at a cutoff.  The catalyst,   *)
(* insider and event engines each make it from the facts known by then, in *)
(* the order they became known.                                            *)
(*                                                                         *)
(* A version's identity follows from what the source says of it, as that   *)
(* of an earthquake does from its id and its last update.                  *)
(***************************************************************************)
EXTENDS Orders, SequencesExt

CONSTANTS
    Versions,          \* identity -> what the source says, see VersionType
    NoKey, NoTime,     \* a version without a key, a time that is not given
    Sources, Labels, Subjects,
    Collectors,
    Bounds,            \* where the window of a request may begin or end
    MaxBatch, MaxTime  \* bounds

(* The label is a category or source type, the subjects are instruments or  *)
(* countries.  "published" is the filing time of an insider transaction,    *)
(* "occurred" its date.                                                     *)
VersionType ==
    [source : Sources, key : Nat \cup {NoKey}, label : Labels, subjects : SUBSET Subjects,
     occurred : Nat \cup {NoTime}, published : Nat \cup {NoTime}]
FactAssumption ==
    /\ Versions \in [DOMAIN Versions -> VersionType] /\ DOMAIN Versions \subseteq Nat
    /\ MaxBatch \in Nat \ {0} /\ MaxTime \in Nat /\ Bounds \subseteq Nat
    /\ NoKey \notin Nat /\ NoTime \notin Nat

VARIABLES
    now,
    events,            \* the table global_events: [at, id]
    collecting         \* the batch a collector has received and not appended
factVars == <<now, events, collecting>>

VersionIds == DOMAIN Versions
Rows == [at : 0 .. MaxTime, id : VersionIds]

(* No identity has two rows.                                                *)
FactTypeOK ==
    /\ now \in 0 .. MaxTime
    /\ events \subseteq Rows /\ \A r, s \in events : r.id = s.id => r = s
    /\ collecting \in [Collectors -> SUBSET Rows]
    /\ \A c \in Collectors : \A r, s \in collecting[c] : r.at = s.at /\ r.at <= now
    /\ \A r \in events : r.at <= now

FactInit ==
    /\ now = 0
    /\ events = {}
    /\ collecting = [c \in Collectors |-> {}]

-----------------------------------------------------------------------------
(* The feed of one source: nothing that happened or changed after the time  *)
(* it is received, no version twice, and everything at that time.           *)
Collect(c) ==
    /\ collecting[c] = {}
    /\ \E ids \in (SUBSET VersionIds) \ {{}} :
        /\ IsFiniteSet(ids) /\ Cardinality(ids) <= MaxBatch
        /\ \A i, j \in ids : Versions[i].source = Versions[j].source
        /\ \A i \in ids : \A t \in {Versions[i].occurred, Versions[i].published} \ {NoTime} : t <= now
        /\ collecting' = [collecting EXCEPT ![c] = [at : {now}, id : ids]]
    /\ UNCHANGED <<now, events>>

(* Bug variant: INSERT OR REPLACE.                                          *)
AppendReplacing(c) ==
    /\ collecting[c] # {}
    /\ events' = {r \in events : \A new \in collecting[c] : new.id # r.id} \cup collecting[c]
    /\ collecting' = [collecting EXCEPT ![c] = {}]
    /\ UNCHANGED now

(* A batch with an identity that is there is rolled back as a whole.        *)
AppendMany(c) ==
    /\ collecting[c] # {}
    /\ events' = IF \E r \in events, new \in collecting[c] : r.id = new.id THEN events
                 ELSE events \cup collecting[c]
    /\ collecting' = [collecting EXCEPT ![c] = {}]
    /\ UNCHANGED now

(* The collector stops, or the database is locked for too long.             *)
Discard(c) ==
    /\ collecting[c] # {}
    /\ collecting' = [collecting EXCEPT ![c] = {}]
    /\ UNCHANGED <<now, events>>

Tick ==
    /\ now < MaxTime
    /\ now' = now + 1
    /\ UNCHANGED <<events, collecting>>

FactNext == Tick \/ \E c \in Collectors : Collect(c) \/ AppendMany(c) \/ Discard(c)
FactSpec == FactInit /\ [][FactNext]_factVars

-----------------------------------------------------------------------------
Fact(row) ==
    LET version == Versions[row.id] IN
    [at |-> row.at, id |-> row.id, source |-> version.source, key |-> version.key,
     label |-> version.label, subjects |-> version.subjects,
     occurred |-> version.occurred, published |-> version.published]

KnowledgeKey(fact) == <<fact.at, fact.id>>
Given(time, fact) == IF time = NoTime THEN <<1, fact.at>> ELSE <<0, time>>
CatalystKey(fact) == Given(fact.published, fact) \o KnowledgeKey(fact)
EventKey(fact) == Given(fact.occurred, fact) \o CatalystKey(fact)

AvailableAt(asOf) ==
    Sorted({Fact(row) : row \in {row \in events : row.at <= asOf}},
           LAMBDA a, b : KeyBefore(KnowledgeKey(a), KnowledgeKey(b)))

(* What the engines ask of the facts they are given.                        *)
InKnowledgeOrder(facts, asOf) ==
    /\ \A i \in 2 .. Len(facts) : KeyBefore(KnowledgeKey(facts[i - 1]), KnowledgeKey(facts[i]))
    /\ \A i, j \in DOMAIN facts : facts[i].id = facts[j].id => i = j
    /\ \A i \in DOMAIN facts : facts[i].at <= asOf

-----------------------------------------------------------------------------
(* A window is a half-open interval of which either end may be left out.    *)
In(time, window) ==
    /\ window.start # NoTime => time # NoTime /\ time >= window.start
    /\ window.end # NoTime => time # NoTime /\ time < window.end
Windows ==
    {w \in [start : Bounds \cup {NoTime}, end : Bounds \cup {NoTime}] :
        w.start # NoTime /\ w.end # NoTime => w.start < w.end}
Always == [start |-> NoTime, end |-> NoTime]

(* A request: of one label or any, of one subject or any.                   *)
Requests(asOf, source) ==
    [asOf : {asOf}, source : {source}, labels : {Labels} \cup {{x} : x \in Labels},
     subjects : {{}} \cup {{x} : x \in Subjects}, occurred : Windows, published : Windows]
Unfiltered(asOf, source) ==
    [asOf |-> asOf, source |-> source, labels |-> Labels, subjects |-> {},
     occurred |-> Always, published |-> Always]

Matches(fact, request) ==
    /\ fact.label \in request.labels /\ request.subjects \subseteq fact.subjects
    /\ In(fact.occurred, request.occurred)
    /\ In(fact.published, request.published)
OfSource(facts, request) == Select(facts, LAMBDA fact : fact.source = request.source)
Matching(facts, request) == Select(facts, LAMBDA fact : Matches(fact, request))

(* The last version of every key, and all that have none.                   *)
Winners(facts) ==
    LET Superseded(i) ==
            facts[i].key # NoKey /\ \E j \in i + 1 .. Len(facts) : facts[j].key = facts[i].key
    IN {facts[i] : i \in {i \in DOMAIN facts : ~Superseded(i)}}

(* Catalysts and events are filtered before the revisions are selected.     *)
Eligible(facts, request) == Matching(OfSource(facts, request), request)
CatalystHistory(facts, request) ==
    Sorted(Winners(Eligible(facts, request)),
           LAMBDA a, b : KeyBefore(CatalystKey(a), CatalystKey(b)))
EventHistory(facts, request) ==
    Sorted(Winners(Eligible(facts, request)),
           LAMBDA a, b : KeyBefore(EventKey(a), EventKey(b)))

(* Bug variant: insider receipts are filtered first, as the others are.     *)
InsiderHistoryFilteredFirst(facts, request) ==
    LET eligible == Eligible(facts, request)
    IN Select(eligible, LAMBDA fact : fact \in Winners(eligible))

(* Insider receipts are filtered afterwards, and stay in knowledge order.   *)
InsiderHistory(facts, request) ==
    LET received == OfSource(facts, request)
    IN Select(received, LAMBDA fact : fact \in Winners(received) /\ Matches(fact, request))

-----------------------------------------------------------------------------
(* The contracts the histories are validated with when they are built.      *)
Selected(facts, request) ==
    /\ \A i \in DOMAIN facts :
        facts[i].source = request.source /\ facts[i].at <= request.asOf /\ Matches(facts[i], request)
    /\ \A i, j \in DOMAIN facts : facts[i].key = facts[j].key /\ facts[i].key # NoKey => i = j
InOrder(facts, Key(_)) == \A i \in 2 .. Len(facts) : KeyBefore(Key(facts[i - 1]), Key(facts[i]))
ValidCatalystHistory(history, facts, request) ==
    /\ Selected(history, request) /\ InOrder(history, CatalystKey)
    /\ Len(history) <= Len(Eligible(facts, request)) /\ Len(Eligible(facts, request)) <= Len(facts)
ValidEventHistory(history, facts, request) ==
    /\ Selected(history, request) /\ InOrder(history, EventKey)
    /\ Len(history) <= Len(Eligible(facts, request)) /\ Len(Eligible(facts, request)) <= Len(facts)
ValidInsiderHistory(history, facts, request) ==
    LET received == OfSource(facts, request)
        winners == Cardinality(Winners(received))
    IN /\ Selected(history, request) /\ InOrder(history, KnowledgeKey)
       /\ Len(history) <= winners /\ winners <= Len(received) /\ Len(received) <= Len(facts)
       /\ received # <<>> => winners > 0
       /\ request = Unfiltered(request.asOf, request.source) => Len(history) = winners

(* The store's rows can be given to every engine, and of the sources that   *)
(* are in it none of them builds a history its contract refuses.  Without   *)
(* filters they agree on what was known.  A filter never makes the insider  *)
(* engine show a version that was superseded by then, and shows no less in  *)
(* the other two.                                                           *)
HistoriesAreSound ==
    \A asOf \in 0 .. MaxTime :
        LET facts == AvailableAt(asOf) IN
        /\ InKnowledgeOrder(facts, asOf)
        /\ \A source \in {Versions[row.id].source : row \in events} :
            LET all == Unfiltered(asOf, source)
                known == ToSet(InsiderHistory(facts, all))
            IN /\ ToSet(CatalystHistory(facts, all)) = known
               /\ \A request \in Requests(asOf, source) :
                    LET catalysts == CatalystHistory(facts, request)
                        global == EventHistory(facts, request)
                        insiders == InsiderHistory(facts, request)
                    IN /\ ValidCatalystHistory(catalysts, facts, request)
                       /\ ValidEventHistory(global, facts, request)
                       /\ ValidInsiderHistory(insiders, facts, request)
                       /\ ToSet(insiders) = {fact \in known : Matches(fact, request)}
                       /\ ToSet(catalysts) = ToSet(global)
                       /\ ToSet(insiders) \subseteq ToSet(catalysts)

(* What was known at a cutoff that is past, and by which no batch is still  *)
(* on its way, is known at it for ever: no later version, conflict or crash *)
(* changes a history that was told.                                         *)
PastIsFinal ==
    [][\A asOf \in 0 .. MaxTime :
        asOf < now /\ (\A c \in Collectors : \A r \in collecting[c] : r.at > asOf)
            => AvailableAt(asOf)' = AvailableAt(asOf)]_factVars
=============================================================================
