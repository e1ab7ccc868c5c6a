------------------------------ MODULE MarketFeed ------------------------------
(***************************************************************************)
(* One call of the Alpaca adapters, get_bars() and get_news()              *)
(* (src/app/data/providers/alpaca/), which read an interval page by page   *)
(* while the provider goes on publishing: bars and articles come late or   *)
(* are corrected between two pages.  Requests may be lost, refused or      *)
(* answered with a token that was seen before.                             *)
(*                                                                         *)
(* The provider is external: an item is the time it belongs to and its     *)
(* version, a token is where its next page begins, a time or a number of   *)
(* items, and it may take the end of an interval to be included.  A later  *)
(* version of an article is an update after the end of the interval.       *)
(***************************************************************************)
EXTENDS Orders

CONSTANTS
    FeedStart, FeedEnd,\* the interval that is asked for, its end excluded
    ItemsPerPage,      \* items on a page, 1000 bars or 50 articles
    PageLimits,        \* pages of a call, 100 for bars and 5 for news
    MaxRecords,        \* bars of one call, 100000
    MaxRequests,       \* requests for one page of bars, 3
    MaxVersion,        \* bound on the versions of an item
    MaxLate            \* bound on the items published or corrected during a call

FeedKinds == {"bars", "news"}
FeedAssumption ==
    /\ {FeedStart, FeedEnd, MaxRecords, MaxVersion, MaxLate} \subseteq Nat
    /\ 0 < FeedStart /\ FeedStart < FeedEnd
    /\ {ItemsPerPage, MaxRequests} \subseteq Nat \ {0}
    /\ PageLimits \in [FeedKinds -> Nat \ {0}]

VARIABLES
    published,         \* the version of each item at the provider, 0 for none
    asked,             \* the same when the call began (history)
    fetch              \* the call

feedVars == <<published, asked, fetch>>

FeedTimes == FeedStart .. FeedEnd
Window == FeedStart .. FeedEnd - 1
NoToken == 0
NoFetch == [pc |-> "idle"]
Servers == [cursor : {"time", "offset"}, inclusive : BOOLEAN]
Items == [at : FeedTimes, version : 1 .. MaxVersion]

(* A page is fetched after others, each with a token of its own.            *)
FeedTypeOK ==
    /\ published \in [FeedTimes -> 0 .. MaxVersion] /\ asked \in [FeedTimes -> 0 .. MaxVersion]
    /\ \A t \in FeedTimes : asked[t] <= published[t]
    /\ fetch.pc \in {"idle", "request", "returned", "failed"}
    /\ fetch.pc \in {"request", "returned"} =>
        /\ fetch.kind \in FeedKinds
        /\ fetch.items \in Seq(Items) /\ Len(fetch.items) <= ItemsPerPage * PageLimits[fetch.kind]
    /\ fetch.pc = "request" =>
        /\ fetch.server \in Servers
        /\ fetch.page \in 1 .. PageLimits[fetch.kind] /\ fetch.attempt \in 1 .. MaxRequests
        /\ fetch.seen \subseteq Nat \ {NoToken}
        /\ fetch.token = NoToken \/ fetch.token \in fetch.seen

FeedInit ==
    /\ published \in [FeedTimes -> 0 .. 1]
    /\ asked = published
    /\ fetch = NoFetch

-----------------------------------------------------------------------------
(* The provider.                                                            *)
Listed(server) == {t \in FeedTimes : published[t] > 0 /\ (t < FeedEnd \/ server.inclusive)}

Passed(server, token, t) ==
    IF server.cursor = "time" THEN t <= token
    ELSE Cardinality({u \in Listed(server) : u < t}) < token

Remaining(server, token) ==
    Sorted({t \in Listed(server) : ~Passed(server, token, t)}, LAMBDA t, u : t < u)

Page(server, token) ==
    LET remaining == Remaining(server, token)
    IN [n \in {n \in DOMAIN remaining : n <= ItemsPerPage} |->
            [at |-> remaining[n], version |-> published[remaining[n]]]]

NextToken(server, token) ==
    LET remaining == Remaining(server, token)
    IN IF Len(remaining) <= ItemsPerPage THEN NoToken
       ELSE IF server.cursor = "time" THEN remaining[ItemsPerPage] ELSE token + ItemsPerPage

(* What was there before the call is there at first; after it nothing is    *)
(* read.                                                                    *)
Publish(t) ==
    /\ fetch.pc = "request"
    /\ published[t] < MaxVersion
    /\ Cardinality({u \in FeedTimes \ {t} : published[u] # asked[u]}) < MaxLate
    /\ published' = [published EXCEPT ![t] = @ + 1]
    /\ UNCHANGED <<asked, fetch>>

-----------------------------------------------------------------------------
InRange(items) == \A i \in DOMAIN items : items[i].at \in Window
Unrepeated(items) == \A i, j \in DOMAIN items : items[i].at = items[j].at => i = j
Ascending(items) == \A i \in 2 .. Len(items) : items[i - 1].at < items[i].at

(* Bug variant: bars are compared with the interval only.                   *)
AcceptsInRange(kind, items) == InRange(items)

(* What is refused as a whole.  Bars are looked at when the last page is    *)
(* there, articles one by one, which has the same outcome.                  *)
Accepts(kind, items) ==
    /\ InRange(items)
    /\ IF kind = "bars" THEN Ascending(items)
       ELSE Unrepeated(items) /\ \A i \in DOMAIN items : items[i].version = 1

Fail == fetch' = [pc |-> "failed"]

Begin ==
    /\ fetch = NoFetch
    /\ \E kind \in FeedKinds, server \in Servers :
        fetch' = [pc |-> "request", kind |-> kind, server |-> server, page |-> 1, attempt |-> 1,
                  token |-> NoToken, seen |-> {}, items |-> <<>>]
    /\ UNCHANGED <<published, asked>>

(* One turn of the loop over pages, after a page and its next token.        *)
Continue(items, token) ==
    IF fetch.kind = "bars" /\ Len(items) > MaxRecords THEN Fail
    ELSE IF fetch.kind = "news" /\ ~Accepts("news", items) THEN Fail
    ELSE IF token = NoToken
    THEN IF Accepts(fetch.kind, items)
         THEN fetch' = [pc |-> "returned", kind |-> fetch.kind, items |-> items]
         ELSE Fail
    ELSE IF token \in fetch.seen \/ fetch.page = PageLimits[fetch.kind] THEN Fail
    ELSE fetch' = [fetch EXCEPT !.page = @ + 1, !.attempt = 1, !.token = token,
                                !.seen = @ \cup {token}, !.items = items]

(* The answer holds the token it should, or one it gave before.             *)
Answer ==
    /\ fetch.pc = "request"
    /\ \E token \in {NextToken(fetch.server, fetch.token)} \cup fetch.seen :
        Continue(fetch.items \o Page(fetch.server, fetch.token), token)
    /\ UNCHANGED <<published, asked>>

(* A gateway error, or no answer in time: bars are asked for again.         *)
Unanswered ==
    /\ fetch.pc = "request"
    /\ IF fetch.kind = "bars" /\ fetch.attempt < MaxRequests
       THEN fetch' = [fetch EXCEPT !.attempt = @ + 1]
       ELSE Fail
    /\ UNCHANGED <<published, asked>>

(* Any other status or transport error, a malformed or an oversized answer. *)
Refuse ==
    /\ fetch.pc = "request"
    /\ Fail
    /\ UNCHANGED <<published, asked>>

FeedStep == Answer \/ Unanswered \/ Refuse
FeedNext == Begin \/ FeedStep \/ \E t \in FeedTimes : Publish(t)

(* Every request ends: the client gives up on it after a while.             *)
FeedFairness == WF_feedVars(FeedStep)
FeedSpec == FeedInit /\ [][FeedNext]_feedVars /\ FeedFairness

-----------------------------------------------------------------------------
(* What is returned is the interval, all of it and nothing else: whatever   *)
(* was there when the call began is there once, no item is older than it    *)
(* was then, or newer than it is now, and bars are in order.  No retry,     *)
(* late item or unlucky token makes a call return a part of it.             *)
FetchIsExact ==
    fetch.pc = "returned" =>
        /\ Unrepeated(fetch.items)
        /\ fetch.kind = "bars" => Ascending(fetch.items)
        /\ {t \in Window : asked[t] > 0} \subseteq {fetch.items[i].at : i \in DOMAIN fetch.items}
        /\ \A i \in DOMAIN fetch.items :
            LET item == fetch.items[i] IN
            item.at \in Window /\ item.version \in asked[item.at] .. published[item.at]

(* A call ends, whatever the provider answers.                              *)
FetchEnds == fetch.pc = "request" ~> fetch.pc \in {"returned", "failed"}
=============================================================================
