---------------------------- MODULE AlertOutbox ----------------------------
(***************************************************************************)
(* The durable alert outbox and its delivery coordinator                   *)
(* (src/app/alerts/outbox.py).  Several dispatchers, each with its own     *)
(* SQLite connection, call dispatch(): a claim transaction, the transport  *)
(* call outside of any transaction, and a finish transaction.  A           *)
(* dispatcher may die, or lose its database, between any two of them.      *)
(*                                                                         *)
(* An alert key stands for the digest of (decision, destination); the      *)
(* stored payload adds the expiry, so two envelopes of one key differ      *)
(* exactly when their expiries do.  Rejected calls (ValueError) change     *)
(* nothing and are left out: their conditions are conjuncts of Accepts.    *)
(***************************************************************************)
EXTENDS Naturals, Sequences

CONSTANTS
    Workers,      \* concurrent dispatchers
    Keys,         \* alert keys
    Times,        \* instants a caller may pass as attempted_at or expires_at
    EvalAt,       \* EvalAt[k]: evaluation_at of the decision of key k
    Allowed,      \* keys whose destination is on the coordinator's allowlist
    MaxAttempt    \* bound on the attempts of one key

ASSUME TimesAssumption == Times \subseteq Nat
ASSUME EvalAssumption == EvalAt \in [Keys -> Nat]

VARIABLES
    outbox,       \* table alert_outbox: one row per key
    events,       \* table alert_events, split by key, in sequence order
    call,         \* each dispatcher's dispatch() in progress, if any
    received      \* how often the outside world got the alert of a key

durable == <<outbox, events>>
outboxVars == <<outbox, events, call, received>>

-----------------------------------------------------------------------------
Outcomes == {"DELIVERED", "DEFINITELY_NOT_SENT", "UNCERTAIN"}
Statuses == Outcomes \cup {"STARTED", "EXPIRED"}

NoRow == [expires |-> 0, status |-> "ABSENT", attempt |-> 0, at |-> 0]
Rows == [expires : Nat, status : Statuses \cup {"ABSENT"}, attempt : Nat, at : Nat]

DeliveryEvents == [attempt : Nat, status : Statuses, at : Nat]

(* A dispatch() in progress stands before its send or before its finish();  *)
(* status is the outcome it is about to persist.  What dispatch() returns   *)
(* is always the row as it then is, so an idle dispatcher keeps nothing.    *)
Idle == [pc |-> "idle"]
Claims == [pc : {"send", "finish"}, key : Keys, attempt : Nat, at : Nat,
           status : Statuses]

(* Types: a row per key, its history, and at most one dispatch() underway   *)
(* per dispatcher.                                                          *)
TypeOK ==
    /\ outbox \in [Keys -> Rows]
    /\ events \in [Keys -> Seq(DeliveryEvents)]
    /\ call \in [Workers -> {Idle} \cup Claims]
    /\ received \in [Keys -> Nat]

Init ==
    /\ outbox = [k \in Keys |-> NoRow]
    /\ events = [k \in Keys |-> <<>>]
    /\ call = [w \in Workers |-> Idle]
    /\ received = [k \in Keys |-> 0]

-----------------------------------------------------------------------------
Present(k) == outbox[k].status # "ABSENT"

(* Bug variant: a payload that may change.                                  *)
AcceptsOtherPayload(k, expires, at) ==
    /\ k \in Allowed /\ expires >= EvalAt[k] /\ at >= EvalAt[k]
    /\ Present(k) => at >= outbox[k].at

(* AlertEnvelope.only_alert, the allowlist test of dispatch() and the       *)
(* checks of claim() that raise: payload conflict, time moving backwards.   *)
Accepts(k, expires, at) ==
    /\ k \in Allowed
    /\ expires >= EvalAt[k]
    /\ at >= EvalAt[k]
    /\ Present(k) => /\ outbox[k].expires = expires
                     /\ at >= outbox[k].at

(* Bug variants: keys that may be claimed again without proof that nothing  *)
(* was sent.                                                                *)
ReclaimStarted(k, retry) ==
    ~Present(k) \/ outbox[k].status = "STARTED" \/ (outbox[k].status = "DEFINITELY_NOT_SENT" /\ retry)
RetryUncertain(k, retry) ==
    ~Present(k) \/ (outbox[k].status \in {"DEFINITELY_NOT_SENT", "UNCERTAIN"} /\ retry)

(* A key may be claimed when it is new, or when its transport proved that   *)
(* nothing was sent and the caller asked for a retry.                       *)
Claimable(k, retry) ==
    \/ ~Present(k)
    \/ outbox[k].status = "DEFINITELY_NOT_SENT" /\ retry

(* Bug variant: every attempt is numbered one.                              *)
WriteClaimUnnumbered(k, expires, at, status) ==
    /\ outbox' = [outbox EXCEPT ![k] =
            [expires |-> expires, status |-> status, attempt |-> 1, at |-> at]]
    /\ events' = [events EXCEPT ![k] = Append(@, [attempt |-> 1, status |-> status, at |-> at])]

(* The write of claim(): row and event in one transaction.                  *)
WriteClaim(k, expires, at, status) ==
    LET attempt == outbox[k].attempt + 1 IN
    /\ outbox' = [outbox EXCEPT ![k] =
            [expires |-> expires, status |-> status, attempt |-> attempt, at |-> at]]
    /\ events' = [events EXCEPT ![k] =
            Append(@, [attempt |-> attempt, status |-> status, at |-> at])]

-----------------------------------------------------------------------------
(* claim() inserts or renews the row and dispatch() goes on to the send.    *)
ClaimToSend(w, k, expires, at, retry) ==
    /\ call[w].pc = "idle"
    /\ Accepts(k, expires, at)
    /\ Claimable(k, retry)
    /\ outbox[k].attempt < MaxAttempt
    /\ at <= expires
    /\ WriteClaim(k, expires, at, "STARTED")
    /\ call' = [call EXCEPT ![w] =
            [pc |-> "send", key |-> k, attempt |-> outbox[k].attempt + 1, at |-> at,
             status |-> "STARTED"]]
    /\ UNCHANGED received

(* claim() finds the envelope expired: dispatch() returns without a send.   *)
ClaimExpired(w, k, expires, at, retry) ==
    /\ call[w].pc = "idle"
    /\ Accepts(k, expires, at)
    /\ Claimable(k, retry)
    /\ outbox[k].attempt < MaxAttempt
    /\ at > expires
    /\ WriteClaim(k, expires, at, "EXPIRED")
    /\ UNCHANGED <<call, received>>

(* claim() finds a row it may not renew: dispatch() returns the prior row.  *)
ReturnPrior(w, k, expires, at, retry) ==
    /\ call[w].pc = "idle"
    /\ Accepts(k, expires, at)
    /\ ~Claimable(k, retry)
    /\ UNCHANGED outboxVars

(* Bug variant: an exception taken for a proof that nothing was sent.       *)
SendTrustsException(w) ==
    /\ call[w].pc = "send"
    /\ \E got \in {0, 1} :
        /\ received' = [received EXCEPT ![call[w].key] = @ + got]
        /\ call' = [call EXCEPT ![w].pc = "finish", ![w].status = "DEFINITELY_NOT_SENT"]
    /\ UNCHANGED durable

(* The transport call, outside any transaction.  A transport that answers   *)
(* DELIVERED has delivered, one that answers DEFINITELY_NOT_SENT has not    *)
(* (the contract of TransportOutcome); an exception or a malformed receipt  *)
(* proves neither and becomes UNCERTAIN.                                    *)
Send(w) ==
    /\ call[w].pc = "send"
    /\ \E outcome \in Outcomes, got \in {0, 1} :
        /\ outcome = "DELIVERED" => got = 1
        /\ outcome = "DEFINITELY_NOT_SENT" => got = 0
        /\ received' = [received EXCEPT ![call[w].key] = @ + got]
        /\ call' = [call EXCEPT ![w].pc = "finish", ![w].status = outcome]
    /\ UNCHANGED durable

(* The WHERE clause of the UPDATE in finish().                              *)
ClaimIsCurrent(w) ==
    LET row == outbox[call[w].key] IN
    /\ row.status = "STARTED"
    /\ row.attempt = call[w].attempt
    /\ row.at = call[w].at

(* finish(): persist the outcome of the claim and append its event.         *)
Finish(w) ==
    /\ call[w].pc = "finish"
    /\ ClaimIsCurrent(w)
    /\ LET k == call[w].key IN
        /\ outbox' = [outbox EXCEPT ![k].status = call[w].status]
        /\ events' = [events EXCEPT ![k] = Append(@,
                [attempt |-> call[w].attempt, status |-> call[w].status,
                 at |-> call[w].at])]
        /\ call' = [call EXCEPT ![w] = Idle]
    /\ UNCHANGED received

(* The dispatcher dies, its database fails, or finish() refuses a claim     *)
(* that is no longer current (ClaimStaysCurrent: it never has to): nothing  *)
(* is undone, the row stays STARTED.  During the send the alert may already *)
(* be out.                                                                  *)
Abandon(w) ==
    /\ call[w].pc # "idle"
    /\ \/ UNCHANGED received
       \/ /\ call[w].pc = "send"
          /\ received' = [received EXCEPT ![call[w].key] = @ + 1]
    /\ call' = [call EXCEPT ![w] = Idle]
    /\ UNCHANGED durable

Dispatch(w) ==
    \E k \in Keys, expires \in Times, at \in Times, retry \in BOOLEAN :
        \/ ClaimToSend(w, k, expires, at, retry)
        \/ ClaimExpired(w, k, expires, at, retry)
        \/ ReturnPrior(w, k, expires, at, retry)

Next == \E w \in Workers : Dispatch(w) \/ Send(w) \/ Finish(w) \/ Abandon(w)

Spec == Init /\ [][Next]_outboxVars

-----------------------------------------------------------------------------
(* Nobody outside gets the same alert twice, whatever crashes, retries and  *)
(* concurrent dispatchers there are: only a proven non-delivery is retried. *)
AtMostOnce == \A k \in Keys : received[k] <= 1

(* What the outbox says of an alert is what happened to it: DELIVERED only  *)
(* if it arrived, DEFINITELY_NOT_SENT and EXPIRED only if it did not.       *)
RowIsTruthful ==
    \A k \in Keys :
        /\ outbox[k].status = "DELIVERED" => received[k] = 1
        /\ outbox[k].status \in {"ABSENT", "DEFINITELY_NOT_SENT", "EXPIRED"}
                => received[k] = 0

(* The optimistic UPDATE of finish() never misses: while a dispatcher holds *)
(* a claim nobody renews or resolves it, so at most one holds each key.     *)
ClaimStaysCurrent ==
    /\ \A w \in Workers : call[w].pc # "idle" => ClaimIsCurrent(w)
    /\ \A v, w \in Workers :
        (v # w /\ call[v].pc # "idle" /\ call[w].pc # "idle")
            => call[v].key # call[w].key

(* What a dispatcher is about to persist is true as well: before its send   *)
(* nothing has arrived, and after it the verdict it carries is honest.      *)
ClaimIsTruthful ==
    \A w \in Workers : call[w].pc # "idle" =>
        /\ call[w].pc = "send" => received[call[w].key] = 0
        /\ call[w].pc = "finish" =>
            /\ call[w].status \in Outcomes
            /\ received[call[w].key] \in {0, 1}
            /\ call[w].status = "DELIVERED" => received[call[w].key] = 1
            /\ call[w].status = "DEFINITELY_NOT_SENT" => received[call[w].key] = 0

(* The append-only history explains the row: attempts are numbered without  *)
(* gaps, each has one opening event and at most one outcome, every attempt  *)
(* but the last was proved unsent, times never go back, the last is the row.*)
HistoryExplainsRow ==
    \A k \in Keys :
        LET h == events[k] IN
        /\ Present(k) <=> h # <<>>
        /\ Present(k) => /\ h[Len(h)].status = outbox[k].status
                         /\ h[Len(h)].attempt = outbox[k].attempt
                         /\ h[Len(h)].at = outbox[k].at
                         /\ h[1].attempt = 1
        /\ \A i \in 1 .. Len(h) - 1 :
            \/ /\ h[i].status = "STARTED"
               /\ h[i + 1].status \in Outcomes
               /\ h[i + 1].attempt = h[i].attempt
               /\ h[i + 1].at = h[i].at
            \/ /\ h[i].status = "DEFINITELY_NOT_SENT"
               /\ h[i + 1].status \in {"STARTED", "EXPIRED"}
               /\ h[i + 1].attempt = h[i].attempt + 1
               /\ h[i + 1].at >= h[i].at

(* What is stored of an alert is true, current and complete.                *)
OutboxTellsTheTruth == RowIsTruthful /\ ClaimStaysCurrent /\ HistoryExplainsRow

(* A dispatcher is at work on the key.                                      *)
Held(k) == \E w \in Workers : call[w].pc # "idle" /\ call[w].key = k

(* A resolved alert is never reopened and its payload is immutable: the     *)
(* only row that changes its outcome is a proven non-delivery.  A claim     *)
(* whose dispatcher is gone belongs to this too: there is no operation that *)
(* reconciles it, and none that would risk sending it again.                *)
ResolvedForGood ==
    [][\A k \in Keys :
        /\ \/ outbox[k].status \in {"DELIVERED", "UNCERTAIN", "EXPIRED"}
           \/ outbox[k].status = "STARTED" /\ ~Held(k)
                => outbox'[k] = outbox[k]
        /\ Present(k) => outbox'[k].expires = outbox[k].expires]_outboxVars

-----------------------------------------------------------------------------
(* What the outbox promises its caller, as seen by AtMostOnceAlert: rows    *)
(* that may still be claimed are open, a claim is pending, and the rest is  *)
(* settled.                                                                 *)
Phase(k) ==
    CASE outbox[k].status \in {"ABSENT", "DEFINITELY_NOT_SENT"} -> "open"
      [] outbox[k].status = "STARTED" -> "pending"
      [] outbox[k].status = "DELIVERED" -> "delivered"
      [] outbox[k].status = "UNCERTAIN" -> "unknown"
      [] outbox[k].status = "EXPIRED" -> "expired"

Promise == INSTANCE AtMostOnceAlert
    WITH Alerts <- Keys, phase <- [k \in Keys |-> Phase(k)]

(* Every behaviour of the outbox is one of the abstract alert: a dispatcher *)
(* that crashes, retries or races another never does what it may not do.    *)
ImplementsPromise == Promise!Spec
=============================================================================
