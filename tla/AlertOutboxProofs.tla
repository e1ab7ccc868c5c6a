------------------------ MODULE AlertOutboxProofs ------------------------
(***************************************************************************)
(* Proofs about the alert outbox, for any set of dispatchers, alerts and   *)
(* instants and any number of attempts.  The inductive invariant says what *)
(* a claim in progress knows: it owns its row, nothing has arrived before  *)
(* its send, and after it the verdict it carries is the truth.             *)
(***************************************************************************)
EXTENDS AlertOutbox, TLAPS

IInv == TypeOK /\ AtMostOnce /\ RowIsTruthful /\ ClaimStaysCurrent /\ ClaimIsTruthful

-----------------------------------------------------------------------------
(* A dispatcher that is not idle holds a claim of the right type.           *)
LEMMA BusyHoldsClaim ==
    ASSUME TypeOK, NEW w \in Workers, call[w].pc # "idle"
    PROVE  /\ call[w] \in Claims
           /\ call[w].key \in Keys
           /\ call[w].pc \in {"send", "finish"}
BY DEF TypeOK, Idle, Claims

(* The first state and every step have the types.                           *)
LEMMA TypeSteps ==
    /\ Init => TypeOK
    /\ TypeOK /\ [Next]_outboxVars => TypeOK'
<1>1. Init => TypeOK
  <2> SUFFICES ASSUME Init PROVE TypeOK
    OBVIOUS
  <2>1. NoRow \in Rows
    BY DEF NoRow, Rows
  <2>2. QED
    BY <2>1 DEF Init, TypeOK
<1>2. TypeOK /\ [Next]_outboxVars => TypeOK'
  <2> SUFFICES ASSUME TypeOK, [Next]_outboxVars PROVE TypeOK'
    OBVIOUS
  <2>w. ASSUME NEW w \in Workers, NEW k \in Keys, NEW expires \in Times,
               NEW at \in Times, NEW s \in {"STARTED", "EXPIRED"},
               WriteClaim(k, expires, at, s)
        PROVE  /\ outbox' \in [Keys -> Rows]
               /\ events' \in [Keys -> Seq(DeliveryEvents)]
               /\ outbox[k].attempt + 1 \in Nat
    <3>1. outbox[k].attempt + 1 \in Nat /\ expires \in Nat /\ at \in Nat
      BY TimesAssumption DEF TypeOK, Rows
    <3>2. [expires |-> expires, status |-> s, attempt |-> outbox[k].attempt + 1,
           at |-> at] \in Rows
      BY <3>1 DEF Rows, Statuses
    <3>3. [attempt |-> outbox[k].attempt + 1, status |-> s, at |-> at]
            \in DeliveryEvents
      BY <3>1 DEF DeliveryEvents, Statuses
    <3>4. QED
      BY <2>w, <3>1, <3>2, <3>3 DEF WriteClaim, TypeOK
  <2>1. ASSUME NEW w \in Workers, NEW k \in Keys, NEW expires \in Times,
               NEW at \in Times, NEW retry \in BOOLEAN,
               ClaimToSend(w, k, expires, at, retry)
        PROVE  TypeOK'
    <3>1. WriteClaim(k, expires, at, "STARTED")
      BY <2>1 DEF ClaimToSend
    <3>2. [pc |-> "send", key |-> k, attempt |-> outbox[k].attempt + 1,
           at |-> at, status |-> "STARTED"] \in Claims
      BY <3>1, <2>w, TimesAssumption DEF Claims, Statuses
    <3>3. call' \in [Workers -> {Idle} \cup Claims] /\ received' = received
      BY <2>1, <3>2 DEF ClaimToSend, TypeOK
    <3>4. QED
      BY <2>w, <3>1, <3>3 DEF TypeOK
  <2>2. ASSUME NEW w \in Workers, NEW k \in Keys, NEW expires \in Times,
               NEW at \in Times, NEW retry \in BOOLEAN,
               ClaimExpired(w, k, expires, at, retry)
        PROVE  TypeOK'
    BY <2>2, <2>w DEF ClaimExpired, TypeOK
  <2>3. ASSUME NEW w \in Workers, Send(w) PROVE TypeOK'
    <3>1. PICK outcome \in Outcomes, got \in {0, 1} :
            /\ received' = [received EXCEPT ![call[w].key] = @ + got]
            /\ call' = [call EXCEPT ![w].pc = "finish", ![w].status = outcome]
      BY <2>3 DEF Send
    <3>2. call[w] \in Claims /\ call[w].key \in Keys
      BY <2>3, BusyHoldsClaim DEF Send
    <3>3. [call[w] EXCEPT !.pc = "finish", !.status = outcome] \in Claims
      BY <3>2 DEF Claims, Statuses
    <3>4. call' \in [Workers -> {Idle} \cup Claims]
      BY <3>1, <3>3 DEF TypeOK
    <3>5. received' \in [Keys -> Nat]
      BY <3>1, <3>2 DEF TypeOK
    <3>6. QED
      BY <2>3, <3>4, <3>5 DEF Send, durable, TypeOK
  <2>4. ASSUME NEW w \in Workers, Finish(w) PROVE TypeOK'
    <3>1. call[w] \in Claims /\ call[w].key \in Keys
      BY <2>4, BusyHoldsClaim DEF Finish
    <3>2. [outbox[call[w].key] EXCEPT !.status = call[w].status] \in Rows
      BY ZenonT(40), <3>1 DEF TypeOK, Rows, Claims
    <3>3. [attempt |-> call[w].attempt, status |-> call[w].status, at |-> call[w].at]
            \in DeliveryEvents
      BY <3>1 DEF DeliveryEvents, Claims
    <3>4. QED
      BY <2>4, <3>1, <3>2, <3>3 DEF Finish, TypeOK
  <2>5. ASSUME NEW w \in Workers, Abandon(w) PROVE TypeOK'
    <3>1. call[w].key \in Keys
      BY <2>5, BusyHoldsClaim DEF Abandon
    <3>2. QED
      BY <2>5, <3>1 DEF Abandon, durable, TypeOK
  <2>6. CASE UNCHANGED outboxVars
    BY <2>6 DEF outboxVars, TypeOK
  <2>7. QED
    BY <2>1, <2>2, <2>3, <2>4, <2>5, <2>6 DEF Next, Dispatch, ReturnPrior
<1>3. QED
  BY <1>1, <1>2

(* Type correctness: every table and every call in progress keeps its type. *)
THEOREM TypeCorrect == Spec => []TypeOK
BY TypeSteps, PTL DEF Spec

-----------------------------------------------------------------------------
(* A key that may be claimed is in nobody's hands and has never arrived.    *)
LEMMA ClaimableIsFree ==
    ASSUME IInv, NEW k \in Keys, NEW retry \in BOOLEAN, Claimable(k, retry)
    PROVE  /\ received[k] = 0
           /\ \A v \in Workers : call[v].pc # "idle" => call[v].key # k
BY DEF IInv, RowIsTruthful, ClaimStaysCurrent, ClaimIsCurrent, Claimable, Present

(* The claim transaction keeps the invariant, whether it goes on to a send. *)
LEMMA ClaimToSendKeeps ==
    ASSUME IInv, TypeOK', NEW w \in Workers, NEW k \in Keys, NEW expires \in Times,
           NEW at \in Times, NEW retry \in BOOLEAN,
           ClaimToSend(w, k, expires, at, retry)
    PROVE  IInv'
<1>1. /\ received[k] = 0
      /\ \A v \in Workers : call[v].pc # "idle" => call[v].key # k
  BY ClaimableIsFree DEF ClaimToSend
<1>2. /\ received' = received
      /\ call[w].pc = "idle"
      /\ \A v \in Workers \ {w} : call'[v] = call[v]
      /\ call'[w] = [pc |-> "send", key |-> k, attempt |-> outbox[k].attempt + 1,
                     at |-> at, status |-> "STARTED"]
  BY DEF ClaimToSend, IInv, TypeOK
<1>3. /\ \A j \in Keys \ {k} : outbox'[j] = outbox[j]
      /\ outbox'[k] = [expires |-> expires, status |-> "STARTED",
                       attempt |-> outbox[k].attempt + 1, at |-> at]
  BY DEF ClaimToSend, WriteClaim, IInv, TypeOK
<1>4. AtMostOnce'
  BY <1>2 DEF IInv, AtMostOnce
<1>5. RowIsTruthful'
  BY <1>2, <1>3 DEF IInv, RowIsTruthful
<1>6. \A v \in Workers : call'[v].pc # "idle" => ClaimIsCurrent(v)'
  <2> SUFFICES ASSUME NEW v \in Workers, call'[v].pc # "idle"
               PROVE  ClaimIsCurrent(v)'
    OBVIOUS
  <2>1. CASE v = w
    BY <2>1, <1>2, <1>3 DEF ClaimIsCurrent
  <2>2. CASE v # w
    <3>1. call[v].pc # "idle" /\ call[v].key \in Keys \ {k}
      BY <2>2, <1>1, <1>2, BusyHoldsClaim DEF IInv
    <3>2. QED
      BY <2>2, <3>1, <1>2, <1>3 DEF IInv, ClaimStaysCurrent, ClaimIsCurrent
  <2>3. QED
    BY <2>1, <2>2
<1>7. ClaimStaysCurrent'
  BY <1>1, <1>2, <1>6 DEF IInv, ClaimStaysCurrent
<1>8. ClaimIsTruthful'
  BY <1>1, <1>2 DEF IInv, ClaimIsTruthful
<1>9. QED
  BY <1>4, <1>5, <1>7, <1>8 DEF IInv

(* ... or finds the alert expired.                                          *)
LEMMA ClaimExpiredKeeps ==
    ASSUME IInv, TypeOK', NEW w \in Workers, NEW k \in Keys, NEW expires \in Times,
           NEW at \in Times, NEW retry \in BOOLEAN,
           ClaimExpired(w, k, expires, at, retry)
    PROVE  IInv'
<1>1. /\ received[k] = 0
      /\ \A v \in Workers : call[v].pc # "idle" => call[v].key # k
  BY ClaimableIsFree DEF ClaimExpired
<1>2. received' = received /\ call' = call
  BY DEF ClaimExpired
<1>3. /\ \A j \in Keys \ {k} : outbox'[j] = outbox[j]
      /\ outbox'[k].status = "EXPIRED"
  BY DEF ClaimExpired, WriteClaim, IInv, TypeOK
<1>4. AtMostOnce' /\ ClaimIsTruthful'
  BY <1>2 DEF IInv, AtMostOnce, ClaimIsTruthful
<1>5. RowIsTruthful'
  BY <1>1, <1>2, <1>3 DEF IInv, RowIsTruthful
<1>6. ASSUME NEW v \in Workers, call[v].pc # "idle" PROVE ClaimIsCurrent(v)'
  <2>1. call[v].key \in Keys \ {k}
    BY <1>1, <1>6, BusyHoldsClaim DEF IInv
  <2>2. QED
    BY <2>1, <1>2, <1>3, <1>6 DEF IInv, ClaimStaysCurrent, ClaimIsCurrent
<1>7. ClaimStaysCurrent'
  BY <1>2, <1>6 DEF IInv, ClaimStaysCurrent
<1>8. QED
  BY <1>4, <1>5, <1>7 DEF IInv

(* The send keeps it: whoever sends is the first to make the alert arrive.  *)
LEMMA SendKeeps ==
    ASSUME IInv, TypeOK', NEW w \in Workers, Send(w)
    PROVE  IInv'
<1> DEFINE k == call[w].key
<1>1. PICK outcome \in Outcomes, got \in {0, 1} :
        /\ outcome = "DELIVERED" => got = 1
        /\ outcome = "DEFINITELY_NOT_SENT" => got = 0
        /\ received' = [received EXCEPT ![k] = @ + got]
        /\ call' = [call EXCEPT ![w].pc = "finish", ![w].status = outcome]
  BY DEF Send
<1>2. /\ k \in Keys /\ call[w] \in Claims /\ call[w].pc = "send"
      /\ received[k] = 0 /\ outbox[k].status = "STARTED"
  BY BusyHoldsClaim DEF Send, IInv, ClaimIsTruthful, ClaimStaysCurrent, ClaimIsCurrent
<1>3. /\ received'[k] = got
      /\ \A j \in Keys \ {k} : received'[j] = received[j]
      /\ outbox' = outbox
  BY <1>1, <1>2 DEF Send, durable, IInv, TypeOK
<1>4. /\ \A v \in Workers \ {w} : call'[v] = call[v]
      /\ call'[w] = [call[w] EXCEPT !.pc = "finish", !.status = outcome]
  BY <1>1 DEF IInv, TypeOK
<1>5. /\ call'[w].pc = "finish" /\ call'[w].status = outcome /\ call'[w].key = k
      /\ call'[w].attempt = call[w].attempt /\ call'[w].at = call[w].at
  BY <1>2, <1>4 DEF Claims
<1>6. AtMostOnce'
  BY <1>3 DEF IInv, AtMostOnce
<1>7. RowIsTruthful'
  BY <1>2, <1>3 DEF IInv, RowIsTruthful
<1>8. ClaimStaysCurrent'
  <2>1. \A v \in Workers : call'[v].pc # "idle" <=> call[v].pc # "idle"
    BY <1>2, <1>4, <1>5
  <2>2. \A v \in Workers : call'[v].key = call[v].key
    BY <1>4, <1>5
  <2>3. \A v \in Workers : ClaimIsCurrent(v) => ClaimIsCurrent(v)'
    BY ZenonT(40), <1>3, <1>4, <1>5 DEF ClaimIsCurrent
  <2>4. QED
    BY <2>1, <2>2, <2>3 DEF IInv, ClaimStaysCurrent
<1>9. ASSUME NEW v \in Workers \ {w}, call[v].pc # "idle"
      PROVE  call[v].key \in Keys \ {k}
  BY <1>2, <1>9, BusyHoldsClaim DEF IInv, ClaimStaysCurrent
<1>10. ClaimIsTruthful'
  <2> SUFFICES ASSUME NEW v \in Workers, call'[v].pc # "idle"
               PROVE  ClaimIsTruthful!(v)'
    BY DEF ClaimIsTruthful
  <2>1. CASE v = w
    BY <2>1, <1>1, <1>3, <1>5
  <2>2. CASE v # w
    <3>1. call'[v] = call[v] /\ received'[call[v].key] = received[call[v].key]
      BY <2>2, <1>3, <1>4, <1>9
    <3>2. QED
      BY <2>2, <3>1 DEF IInv, ClaimIsTruthful
  <2>3. QED
    BY <2>1, <2>2
<1>11. QED
  BY <1>6, <1>7, <1>8, <1>10 DEF IInv

(* Persisting the verdict keeps it: the verdict was already the truth.      *)
LEMMA FinishKeeps ==
    ASSUME IInv, TypeOK', NEW w \in Workers, Finish(w)
    PROVE  IInv'
<1> DEFINE k == call[w].key
<1>1. /\ k \in Keys /\ call[w].pc = "finish" /\ call[w].status \in Outcomes
      /\ call[w].status = "DELIVERED" => received[k] = 1
      /\ call[w].status = "DEFINITELY_NOT_SENT" => received[k] = 0
  BY BusyHoldsClaim DEF Finish, IInv, ClaimIsTruthful
<1>2. /\ received' = received
      /\ \A v \in Workers \ {w} : call'[v] = call[v]
      /\ call'[w] = Idle
  BY DEF Finish, IInv, TypeOK
<1>3. /\ \A j \in Keys \ {k} : outbox'[j] = outbox[j]
      /\ outbox'[k].status = call[w].status
  BY <1>1 DEF Finish, IInv, TypeOK, Rows
<1>4. AtMostOnce'
  BY <1>2 DEF IInv, AtMostOnce
<1>5. RowIsTruthful'
  BY <1>1, <1>2, <1>3 DEF IInv, RowIsTruthful, Outcomes
<1>6. ASSUME NEW v \in Workers \ {w}, call[v].pc # "idle"
      PROVE  call[v].key \in Keys \ {k}
  BY <1>1, <1>6, BusyHoldsClaim DEF IInv, ClaimStaysCurrent
<1>7. ClaimStaysCurrent'
  BY <1>2, <1>3, <1>6 DEF IInv, ClaimStaysCurrent, ClaimIsCurrent, Idle
<1>8. ClaimIsTruthful'
  BY <1>2 DEF IInv, ClaimIsTruthful, Idle
<1>9. QED
  BY <1>4, <1>5, <1>7, <1>8 DEF IInv

(* So does losing a dispatcher, at whichever point of its call.             *)
LEMMA AbandonKeeps ==
    ASSUME IInv, TypeOK', NEW w \in Workers, Abandon(w)
    PROVE  IInv'
<1> DEFINE k == call[w].key
<1>1. k \in Keys /\ outbox[k].status = "STARTED"
  BY BusyHoldsClaim DEF Abandon, IInv, ClaimStaysCurrent, ClaimIsCurrent
<1>2. /\ outbox' = outbox
      /\ \A v \in Workers \ {w} : call'[v] = call[v]
      /\ call'[w] = Idle
  BY DEF Abandon, durable, IInv, TypeOK
<1>3. /\ \A j \in Keys \ {k} : received'[j] = received[j]
      /\ received'[k] <= 1
  BY <1>1 DEF Abandon, IInv, TypeOK, AtMostOnce, ClaimIsTruthful
<1>4. AtMostOnce'
  BY <1>3 DEF IInv, AtMostOnce
<1>5. RowIsTruthful'
  BY <1>1, <1>2, <1>3 DEF IInv, RowIsTruthful
<1>6. ASSUME NEW v \in Workers \ {w}, call[v].pc # "idle"
      PROVE  call[v].key \in Keys \ {k}
  BY <1>1, <1>6, BusyHoldsClaim DEF IInv, ClaimStaysCurrent, Abandon
<1>7. ClaimStaysCurrent'
  BY <1>2, <1>6 DEF IInv, ClaimStaysCurrent, ClaimIsCurrent, Idle
<1>8. ClaimIsTruthful'
  BY <1>2, <1>3, <1>6 DEF IInv, ClaimIsTruthful, Idle
<1>9. QED
  BY <1>4, <1>5, <1>7, <1>8 DEF IInv

(* The first state and every step satisfy the inductive invariant.          *)
LEMMA InvSteps ==
    /\ Init => IInv
    /\ IInv /\ [Next]_outboxVars => IInv'
<1>1. Init => IInv
  BY DEF Init, IInv, AtMostOnce, RowIsTruthful, ClaimStaysCurrent, ClaimIsTruthful,
         Idle, NoRow, TypeOK, Rows
<1>2. IInv /\ [Next]_outboxVars => IInv'
  <2> SUFFICES ASSUME TypeOK', IInv, [Next]_outboxVars PROVE IInv'
    BY TypeSteps DEF IInv
  <2>1. CASE UNCHANGED outboxVars
    BY <2>1 DEF outboxVars, IInv, TypeOK, AtMostOnce, RowIsTruthful,
                ClaimStaysCurrent, ClaimIsCurrent, ClaimIsTruthful
  <2>2. QED
    BY <2>1, ClaimToSendKeeps, ClaimExpiredKeeps, SendKeeps, FinishKeeps, AbandonKeeps
       DEF Next, Dispatch, ReturnPrior
<1>3. QED
  BY <1>1, <1>2

(* The inductive invariant holds in every reachable state.                  *)
THEOREM OutboxInvariant == Spec => []IInv
BY InvSteps, PTL DEF Spec

(* At most once: no interleaving of dispatchers, retries and crashes makes  *)
(* dispatch() hand the same alert to the outside world twice.               *)
THEOREM DeliveredAtMostOnce == Spec => []AtMostOnce
<1>1. IInv => AtMostOnce
  BY DEF IInv
<1>2. QED
  BY <1>1, OutboxInvariant, PTL

(* What the outbox table says of an alert is what happened to it            *)
(* (alerts/outbox.py, claim and finish).                                    *)
THEOREM RowsAreTruthful == Spec => []RowIsTruthful
<1>1. IInv => RowIsTruthful
  BY DEF IInv
<1>2. QED
  BY <1>1, OutboxInvariant, PTL

(* The optimistic update of finish() finds the claim it was made for, and   *)
(* no two dispatchers hold a claim on one alert (alerts/outbox.py, finish). *)
THEOREM ClaimsStayCurrent == Spec => []ClaimStaysCurrent
<1>1. IInv => ClaimStaysCurrent
  BY DEF IInv
<1>2. QED
  BY <1>1, OutboxInvariant, PTL

-----------------------------------------------------------------------------
(* The refinement: the phase of an alert is a function of its row alone.    *)
phaseOf == [k \in Keys |-> Phase(k)]

(* A step of the outbox that renews a claimable row begins or expires the   *)
(* abstract alert.                                                          *)
LEMMA ClaimRefines ==
    ASSUME IInv, NEW k \in Keys, NEW retry \in BOOLEAN, Claimable(k, retry),
           NEW s \in {"STARTED", "EXPIRED"},
           NEW expires \in Times, NEW at \in Times,
           WriteClaim(k, expires, at, s), received' = received
    PROVE  Promise!Begin(k) \/ Promise!Expire(k)
<1>1. Phase(k) = "open"
  BY DEF Claimable, Present, Phase
<1>2. /\ \A j \in Keys \ {k} : outbox'[j] = outbox[j]
      /\ outbox'[k].status = s
  BY DEF WriteClaim, IInv, TypeOK
<1>3. \A j \in Keys \ {k} : Phase(j)' = Phase(j)
  BY <1>2 DEF Phase
<1>4. CASE s = "STARTED"
  <2>1. Phase(k)' = "pending"
    BY <1>2, <1>4 DEF Phase
  <2>2. QED
    BY <1>1, <1>3, <2>1 DEF Promise!Begin
<1>5. CASE s = "EXPIRED"
  <2>1. Phase(k)' = "expired"
    BY <1>2, <1>5 DEF Phase
  <2>2. QED
    BY <1>1, <1>3, <2>1 DEF Promise!Expire
<1>6. QED
  BY <1>4, <1>5

(* The outbox implements the promise of AtMostOnceAlert: every step of a    *)
(* dispatcher begins, expires, delivers or honestly settles one alert, or   *)
(* leaves them all as they were.                                            *)
THEOREM OutboxKeepsPromise == Spec => ImplementsPromise
<1>1. Init => Promise!Init
  BY DEF Init, NoRow, Phase, Promise!Init
<1>2. IInv /\ [Next]_outboxVars => [Promise!Next]_(Promise!promiseVars)
  <2> SUFFICES ASSUME IInv, [Next]_outboxVars
               PROVE  Promise!Next \/ UNCHANGED Promise!promiseVars
    OBVIOUS
  <2>s. ASSUME outbox' = outbox, received' = received
        PROVE  UNCHANGED Promise!promiseVars
    BY <2>s DEF Phase, Promise!promiseVars
  <2>1. ASSUME NEW w \in Workers, NEW k \in Keys, NEW expires \in Times,
               NEW at \in Times, NEW retry \in BOOLEAN,
               \/ ClaimToSend(w, k, expires, at, retry)
               \/ ClaimExpired(w, k, expires, at, retry)
        PROVE  Promise!Next
    BY <2>1, ClaimRefines DEF ClaimToSend, ClaimExpired, Promise!Next
  <2>2. ASSUME NEW w \in Workers, call[w].pc # "idle"
        PROVE  call[w].key \in Keys /\ Phase(call[w].key) = "pending"
    BY <2>2, BusyHoldsClaim
       DEF IInv, ClaimStaysCurrent, ClaimIsCurrent, Phase
  <2>3. ASSUME NEW w \in Workers, call[w].pc = "send", outbox' = outbox,
               \/ received' = received
               \/ received' = [received EXCEPT ![call[w].key] = @ + 1]
        PROVE  Promise!Next \/ UNCHANGED Promise!promiseVars
    <3>1. CASE received' = received
      BY <2>3, <2>s, <3>1
    <3>2. CASE received' = [received EXCEPT ![call[w].key] = @ + 1]
      <4>1. received[call[w].key] = 0
        BY <2>3 DEF IInv, ClaimIsTruthful
      <4>2. phaseOf' = phaseOf
        BY <2>3 DEF phaseOf, Phase
      <4>3. Promise!Arrive(call[w].key)
        BY <2>2, <2>3, <3>2, <4>1, <4>2 DEF phaseOf, Promise!Arrive
      <4>4. QED
        BY <2>2, <2>3, <4>3 DEF Promise!Next
    <3>3. QED
      BY <2>3, <3>1, <3>2
  <2>4. ASSUME NEW w \in Workers, Send(w)
        PROVE  Promise!Next \/ UNCHANGED Promise!promiseVars
    <3>1. /\ call[w].pc = "send" /\ outbox' = outbox
          /\ received' = [received EXCEPT ![call[w].key] = @ + 0] \/
             received' = [received EXCEPT ![call[w].key] = @ + 1]
      BY <2>4 DEF Send, durable
    <3>2. CASE received' = [received EXCEPT ![call[w].key] = @ + 0]
      <4>1. received' = received
        BY <3>2, <3>1, <2>2 DEF IInv, TypeOK
      <4>2. QED
        BY <3>1, <4>1, <2>s
    <3>3. QED
      BY <2>3, <3>1, <3>2
  <2>5. ASSUME NEW w \in Workers, Finish(w) PROVE Promise!Next
    <3>k. PICK k \in Keys : k = call[w].key
      BY <2>5, <2>2 DEF Finish
    <3>1. /\ k \in Keys /\ Phase(k) = "pending" /\ call[w].status \in Outcomes
          /\ call[w].status = "DELIVERED" => received[k] = 1
          /\ call[w].status = "DEFINITELY_NOT_SENT" => received[k] = 0
      BY <3>k, <2>5, <2>2 DEF Finish, IInv, ClaimIsTruthful
    <3>2. /\ \A j \in Keys \ {k} : outbox'[j] = outbox[j]
          /\ outbox'[k].status = call[w].status
          /\ received' = received
      BY <3>k, <2>5, <3>1 DEF Finish, IInv, TypeOK, Rows
    <3>3. \A j \in Keys \ {k} : Phase(j)' = Phase(j)
      BY <3>2 DEF Phase
    <3>4. /\ call[w].status = "DELIVERED" => Phase(k)' = "delivered"
          /\ call[w].status = "DEFINITELY_NOT_SENT" => Phase(k)' = "open"
          /\ call[w].status = "UNCERTAIN" => Phase(k)' = "unknown"
      BY <3>2 DEF Phase
    <3>5. Promise!Settle(k)
      BY <3>1, <3>2, <3>3, <3>4 DEF Outcomes, Promise!Settle
    <3>6. QED
      BY <3>1, <3>5 DEF Promise!Next
  <2>6. ASSUME NEW w \in Workers, Abandon(w)
        PROVE  Promise!Next \/ UNCHANGED Promise!promiseVars
    BY <2>6, <2>3, <2>s DEF Abandon, durable
  <2>7. CASE UNCHANGED outboxVars
    BY <2>7, <2>s DEF outboxVars
  <2>8. QED
    BY <2>1, <2>4, <2>5, <2>6, <2>7 DEF Next, Dispatch, ReturnPrior
<1>3. QED
  BY <1>1, <1>2, OutboxInvariant, PTL DEF Spec, ImplementsPromise, Promise!Spec

-----------------------------------------------------------------------------
(* The tables change only by a claim transaction or by a finish.            *)
LEMMA StepsOnTables ==
    ASSUME [Next]_outboxVars
    PROVE  \/ \E j \in Keys, expires \in Times, at \in Times, retry \in BOOLEAN,
                 s \in {"STARTED", "EXPIRED"} :
                Accepts(j, expires, at) /\ Claimable(j, retry)
                    /\ WriteClaim(j, expires, at, s)
           \/ \E w \in Workers : Finish(w)
           \/ outbox' = outbox /\ events' = events
<1>1. ASSUME NEW w \in Workers, Dispatch(w)
      PROVE  \/ \E j \in Keys, expires \in Times, at \in Times, retry \in BOOLEAN,
                   s \in {"STARTED", "EXPIRED"} :
                  Accepts(j, expires, at) /\ Claimable(j, retry)
                      /\ WriteClaim(j, expires, at, s)
             \/ outbox' = outbox /\ events' = events
  BY <1>1 DEF Dispatch, ClaimToSend, ClaimExpired, ReturnPrior, outboxVars
<1>2. ASSUME NEW w \in Workers, Send(w) \/ Abandon(w)
      PROVE  outbox' = outbox /\ events' = events
  BY <1>2 DEF Send, Abandon, durable
<1>3. CASE UNCHANGED outboxVars
  BY <1>3 DEF outboxVars
<1>4. QED
  BY <1>1, <1>2, <1>3 DEF Next

(* The key a busy dispatcher finishes is the only row its step changes.     *)
LEMMA FinishChangesOwnRow ==
    ASSUME IInv, NEW w \in Workers, Finish(w), NEW k \in Keys
    PROVE  IF k = call[w].key
             THEN /\ outbox[k].status = "STARTED" /\ Held(k)
                  /\ outbox'[k] = [outbox[k] EXCEPT !.status = call[w].status]
             ELSE outbox'[k] = outbox[k]
BY BusyHoldsClaim
   DEF Finish, IInv, TypeOK, ClaimStaysCurrent, ClaimIsCurrent, Held

(* A resolved or orphaned alert is never touched again, payload included.   *)
THEOREM ResolvedStaysResolved == Spec => ResolvedForGood
<1> DEFINE Kept(k) ==
        /\ \/ outbox[k].status \in {"DELIVERED", "UNCERTAIN", "EXPIRED"}
           \/ outbox[k].status = "STARTED" /\ ~Held(k)
              => outbox'[k] = outbox[k]
        /\ Present(k) => outbox'[k].expires = outbox[k].expires
<1>1. IInv /\ [Next]_outboxVars => [\A k \in Keys : Kept(k)]_outboxVars
  <2> SUFFICES ASSUME IInv, Next, NEW k \in Keys PROVE Kept(k)
    BY DEF outboxVars
  <2>1. ASSUME NEW j \in Keys, NEW expires \in Times, NEW at \in Times,
               NEW retry \in BOOLEAN, NEW s \in {"STARTED", "EXPIRED"},
               Accepts(j, expires, at), Claimable(j, retry),
               WriteClaim(j, expires, at, s)
        PROVE  Kept(k)
    <3>1. CASE j = k
      <4>1. ~Present(k) \/ outbox[k].status = "DEFINITELY_NOT_SENT"
        BY <2>1, <3>1 DEF Claimable
      <4>2. Present(k) => outbox'[k].expires = outbox[k].expires
        BY <2>1, <3>1 DEF Accepts, WriteClaim, IInv, TypeOK
      <4>3. QED
        BY <4>1, <4>2 DEF Present
    <3>2. CASE j # k
      BY <2>1, <3>2 DEF WriteClaim, IInv, TypeOK
    <3>3. QED
      BY <3>1, <3>2
  <2>2. ASSUME NEW w \in Workers, Finish(w) PROVE Kept(k)
    <3>1. CASE k = call[w].key
      <4>1. outbox[k].status = "STARTED" /\ Held(k)
            /\ outbox'[k] = [outbox[k] EXCEPT !.status = call[w].status]
        BY <2>2, <3>1, FinishChangesOwnRow
      <4>2. outbox'[k].expires = outbox[k].expires
        BY <4>1 DEF IInv, TypeOK, Rows
      <4>3. QED
        BY <4>1, <4>2
    <3>2. CASE k # call[w].key
      BY <2>2, <3>2, FinishChangesOwnRow
    <3>3. QED
      BY <3>1, <3>2
  <2>3. ASSUME outbox' = outbox PROVE Kept(k)
    BY <2>3
  <2>4. QED
    BY <2>1, <2>2, <2>3, StepsOnTables
<1>2. QED
  BY <1>1, OutboxInvariant, PTL DEF Spec, ResolvedForGood

-----------------------------------------------------------------------------
(* One link of the history: an opening followed by its own outcome, or a    *)
(* proven non-delivery followed by the opening of the next attempt.         *)
Linked(e, f) ==
    \/ /\ e.status = "STARTED" /\ f.status \in Outcomes
       /\ f.attempt = e.attempt /\ f.at = e.at
    \/ /\ e.status = "DEFINITELY_NOT_SENT" /\ f.status \in {"STARTED", "EXPIRED"}
       /\ f.attempt = e.attempt + 1 /\ f.at >= e.at

KeyHistory(k) ==
    LET h == events[k] IN
    /\ Present(k) <=> h # <<>>
    /\ Present(k) => /\ h[Len(h)].status = outbox[k].status
                     /\ h[Len(h)].attempt = outbox[k].attempt
                     /\ h[Len(h)].at = outbox[k].at
                     /\ h[1].attempt = 1
    /\ ~Present(k) => outbox[k].attempt = 0
    /\ \A i \in 1 .. Len(h) - 1 : Linked(h[i], h[i + 1])

(* Appending an event that is linked to the last one, and writing the same  *)
(* to the row, keeps the history of a key.                                  *)
LEMMA HistoryGrows ==
    ASSUME NEW k \in Keys, TypeOK, TypeOK', KeyHistory(k),
           NEW e \in DeliveryEvents, events'[k] = Append(events[k], e),
           outbox'[k].status = e.status, outbox'[k].attempt = e.attempt,
           outbox'[k].at = e.at,
           Present(k) => Linked(events[k][Len(events[k])], e),
           ~Present(k) => e.attempt = 1
    PROVE  KeyHistory(k)'
<1> DEFINE h == events[k]
<1>1. /\ h \in Seq(DeliveryEvents) /\ Len(h) \in Nat
      /\ Append(h, e) # <<>> /\ Len(Append(h, e)) = Len(h) + 1
      /\ Append(h, e)[Len(h) + 1] = e
      /\ \A i \in 1 .. Len(h) : Append(h, e)[i] = h[i]
      /\ h = <<>> <=> Len(h) = 0
  BY DEF TypeOK
<1>2. Present(k)'
  BY DEF Present, DeliveryEvents, Statuses, Outcomes
<1>3. \A i \in 1 .. Len(h) : Linked(Append(h, e)[i], Append(h, e)[i + 1])
  <2> SUFFICES ASSUME NEW i \in 1 .. Len(h)
               PROVE  Linked(Append(h, e)[i], Append(h, e)[i + 1])
    OBVIOUS
  <2>1. CASE i = Len(h)
    BY <1>1, <2>1 DEF KeyHistory
  <2>2. CASE i # Len(h)
    <3>1. i \in 1 .. Len(h) - 1 /\ i + 1 \in 1 .. Len(h)
      BY <1>1, <2>2
    <3>2. QED
      BY <1>1, <3>1 DEF KeyHistory
  <2>3. QED
    BY <2>1, <2>2
<1>4. Append(h, e)[1].attempt = 1
  BY <1>1 DEF KeyHistory
<1>5. QED
  BY <1>1, <1>2, <1>3, <1>4 DEF KeyHistory

(* The append-only history explains every row: attempts are numbered        *)
(* without gaps, only a proven non-delivery is followed by another attempt, *)
(* and the last event is the row.                                           *)
THEOREM HistoryIsComplete == Spec => []HistoryExplainsRow
<1> DEFINE HInv == \A k \in Keys : KeyHistory(k)
<1>1. Init => HInv
  BY DEF Init, NoRow, KeyHistory, Present
<1>2. IInv /\ TypeOK' /\ HInv /\ [Next]_outboxVars => HInv'
  <2> SUFFICES ASSUME IInv, TypeOK', HInv, [Next]_outboxVars, NEW k \in Keys
               PROVE  KeyHistory(k)'
    OBVIOUS
  <2>0. TypeOK /\ KeyHistory(k) /\ events[k] \in Seq(DeliveryEvents)
    BY DEF IInv, TypeOK
  <2>1. ASSUME NEW j \in Keys, NEW expires \in Times, NEW at \in Times,
               NEW retry \in BOOLEAN, NEW s \in {"STARTED", "EXPIRED"},
               Accepts(j, expires, at), Claimable(j, retry),
               WriteClaim(j, expires, at, s)
        PROVE  KeyHistory(k)'
    <3>1. CASE j = k
      <4> DEFINE e == [attempt |-> outbox[k].attempt + 1, status |-> s, at |-> at]
      <4>0. outbox[k].attempt \in Nat /\ at \in Nat
        BY <2>0, TimesAssumption DEF TypeOK, Rows
      <4>1. /\ outbox[k].attempt \in Nat /\ at \in Nat
            /\ e \in DeliveryEvents
        BY <4>0 DEF DeliveryEvents, Statuses
      <4>2. /\ events'[k] = Append(events[k], e)
            /\ outbox'[k].status = s /\ outbox'[k].at = at
            /\ outbox'[k].attempt = outbox[k].attempt + 1
        BY <2>1, <3>1 DEF WriteClaim, IInv, TypeOK
      <4>3. Present(k) => Linked(events[k][Len(events[k])], e)
        BY <2>0, <2>1, <3>1 DEF Claimable, Accepts, KeyHistory, Linked
      <4>4. ~Present(k) => e.attempt = 1
        BY <2>0, <4>1 DEF KeyHistory
      <4>5. QED
        BY <2>0, <4>1, <4>2, <4>3, <4>4, HistoryGrows
    <3>2. CASE j # k
      BY <2>0, <2>1, <3>2 DEF WriteClaim, TypeOK, KeyHistory, Present
    <3>3. QED
      BY <3>1, <3>2
  <2>2. ASSUME NEW w \in Workers, Finish(w) PROVE KeyHistory(k)'
    <3>1. CASE k = call[w].key
      <4> DEFINE e == [attempt |-> call[w].attempt, status |-> call[w].status,
                       at |-> call[w].at]
      <4>1. e \in DeliveryEvents
        BY <2>0, <2>2, BusyHoldsClaim DEF Finish, Claims, DeliveryEvents
      <4>2. /\ events'[k] = Append(events[k], e)
            /\ outbox'[k] = [outbox[k] EXCEPT !.status = call[w].status]
        BY <2>0, <2>2, <3>1 DEF Finish, TypeOK
      <4>3. /\ outbox[k].status = "STARTED" /\ outbox[k].attempt = e.attempt
            /\ outbox[k].at = e.at /\ e.status \in Outcomes
        BY <2>2, <3>1 DEF Finish, IInv, ClaimIsTruthful, ClaimIsCurrent
      <4>4. /\ outbox'[k].status = e.status /\ outbox'[k].attempt = e.attempt
            /\ outbox'[k].at = e.at
        BY <2>0, <4>2, <4>3 DEF TypeOK, Rows
      <4>5. Present(k) /\ Linked(events[k][Len(events[k])], e)
        BY <2>0, <4>3 DEF Present, KeyHistory, Linked
      <4>6. QED
        BY <2>0, <4>1, <4>2, <4>4, <4>5, HistoryGrows
    <3>2. CASE k # call[w].key
      BY <2>0, <2>2, <3>2, FinishChangesOwnRow
         DEF Finish, TypeOK, KeyHistory, Present
    <3>3. QED
      BY <3>1, <3>2
  <2>3. ASSUME outbox' = outbox, events' = events PROVE KeyHistory(k)'
    BY <2>0, <2>3 DEF KeyHistory, Present
  <2>4. QED
    BY <2>1, <2>2, <2>3, StepsOnTables
<1>3. HInv => HistoryExplainsRow
  BY DEF KeyHistory, Linked, HistoryExplainsRow
<1>4. QED
  BY <1>1, <1>2, <1>3, TypeCorrect, OutboxInvariant, PTL DEF Spec

(* A row says what happened to its alert, with a history that explains it,  *)
(* and whoever holds a claim on it holds the current one.                   *)
THEOREM OutboxIsTrue == Spec => []OutboxTellsTheTruth
BY RowsAreTruthful, ClaimsStayCurrent, HistoryIsComplete, PTL DEF OutboxTellsTheTruth
=============================================================================
