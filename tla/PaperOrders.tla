----------------------------- MODULE PaperOrders -----------------------------
(***************************************************************************)
(* Explicitly approved paper orders (src/app/dashboard/live.py): one-time  *)
(* approvals in memory, the paper-orders.db journal, and the broker.  The  *)
(* dashboard's server answers every HTTP request on a thread of its own    *)
(* and takes no lock, so placing, refreshing and cancelling interleave at  *)
(* every await and between every two transactions.                         *)
(*                                                                         *)
(* The broker (Alpaca Paper Trading) is external: it takes or refuses an   *)
(* order, answers or does not, may take an order after the client has      *)
(* given up waiting, and then moves it through its statuses on its own.    *)
(***************************************************************************)
EXTENDS Naturals, Sequences, SequencesExt

CONSTANTS
    Threads,        \* HTTP requests being served at the same time
    Orders,         \* orders of eligible plans, each with its client_order_id
    ApprovalCap,    \* approvals kept in memory (50)
    HistoryLimit,   \* journal rows the history shows (50)
    SyncLimit       \* known orders one refresh asks about (10)

ASSUME LimitsAssumption ==
    /\ ApprovalCap \in Nat \ {0}
    /\ HistoryLimit \in Nat /\ SyncLimit \in Nat

VARIABLES
    fresh,          \* orders no plan has produced yet
    approved,       \* _approved_plans: a dict, in insertion order
    journal,        \* table paper_orders: status, and whether the provider id is set
    created,        \* the rows of paper_orders by created_at
    broker,         \* the order at the broker
    posted,         \* history: how often an order was sent to the broker
    task            \* the request each thread is serving

vars == <<fresh, approved, journal, created, broker, posted, task>>

Working == {"NEW", "PARTIALLY_FILLED"}
Final == {"FILLED", "CANCELED", "EXPIRED", "REJECTED"}
(* IN_FLIGHT: sent, given up on, and not yet at the broker.                 *)
BrokerStatuses == Working \cup Final \cup {"NONE", "IN_FLIGHT"}

LocalStatuses == {"PENDING", "ACCEPTED", "REJECTED_OR_UNKNOWN", "CANCEL_REQUESTED"}
(* Of the statuses cancel_paper_order() calls active, those modelled here.  *)
Active == {"ACCEPTED"} \cup Working
NoRow == [status |-> "ABSENT", known |-> FALSE]
Rows == [status : LocalStatuses \cup Working \cup Final \cup {"ABSENT"}, known : BOOLEAN]
Present(o) == journal[o] # NoRow

Idle == [pc |-> "idle"]
Tasks ==
    [pc : {"post", "cancel", "mark"}, order : Orders]
    \cup [pc : {"record"}, order : Orders, receipt : BOOLEAN]
    \cup [pc : {"ask"}, left : Seq(Orders)]
    \cup [pc : {"update"}, left : Seq(Orders), status : Working \cup Final]

(* Types, and never more approvals in memory than the cap.                  *)
TypeOK ==
    /\ fresh \subseteq Orders
    /\ approved \in Seq(Orders) /\ Len(approved) <= ApprovalCap
    /\ journal \in [Orders -> Rows]
    /\ created \in Seq(Orders)
    /\ broker \in [Orders -> BrokerStatuses]
    /\ posted \in [Orders -> Nat]
    /\ task \in [Threads -> {Idle} \cup Tasks]

Init ==
    /\ fresh = Orders
    /\ approved = <<>>
    /\ journal = [o \in Orders |-> NoRow]
    /\ created = <<>>
    /\ broker = [o \in Orders |-> "NONE"]
    /\ posted = [o \in Orders |-> 0]
    /\ task = [t \in Threads |-> Idle]

Become(t, value) == task' = [task EXCEPT ![t] = value]

-----------------------------------------------------------------------------
(* paper_plan() finds the plan eligible: the approval is stored, and the    *)
(* oldest ones beyond the cap are dropped.                                  *)
Approve(o) ==
    /\ o \in fresh
    /\ fresh' = fresh \ {o}
    /\ approved' = LET all == Append(approved, o)
                   IN IF Len(all) > ApprovalCap THEN Tail(all) ELSE all
    /\ UNCHANGED <<journal, created, broker, posted, task>>

(* Bug variant: the approval is read and not consumed.                      *)
PlaceKeepsApproval(t, o) ==
    /\ task[t] = Idle
    /\ o \in ToSet(approved)
    /\ journal' = [journal EXCEPT ![o] = [status |-> "PENDING", known |-> FALSE]]
    /\ created' = IF Present(o) THEN created ELSE Append(created, o)
    /\ Become(t, [pc |-> "post", order |-> o])
    /\ UNCHANGED <<fresh, approved, broker, posted>>

(* place_paper_order() up to the PENDING row.  The approval is consumed     *)
(* first: if the journal cannot be written it is lost and nothing is sent.  *)
Place(t, o) ==
    /\ task[t] = Idle
    /\ \E i \in 1 .. Len(approved) :
        /\ approved[i] = o
        /\ approved' = RemoveAt(approved, i)
    /\ \/ /\ journal' = [journal EXCEPT ![o] = [status |-> "PENDING", known |-> FALSE]]
          /\ created' = Append(created, o)
          /\ Become(t, [pc |-> "post", order |-> o])
       \/ UNCHANGED <<journal, created, task>>
    /\ UNCHANGED <<fresh, broker, posted>>

(* The POST, if the credentials allow one at all.  A receipt proves that    *)
(* the broker took the order; an error (refusal, timeout, malformed answer) *)
(* proves nothing about it.                                                 *)
Post(t) ==
    LET o == task[t].order IN
    /\ task[t].pc = "post"
    /\ \E sent \in {0, 1}, outcome \in {"NEW", "NONE", "IN_FLIGHT"}, receipt \in BOOLEAN :
        /\ sent = 0 => outcome = "NONE"
        /\ receipt => outcome = "NEW"
        /\ posted' = [posted EXCEPT ![o] = @ + sent]
        /\ broker' = [broker EXCEPT ![o] = outcome]
        /\ Become(t, [pc |-> "record", order |-> o, receipt |-> receipt])
    /\ UNCHANGED <<fresh, approved, journal, created>>

(* Bug variant: an answer that never came is recorded like a receipt.       *)
RecordAccepted(t) ==
    LET o == task[t].order IN
    /\ task[t].pc = "record"
    /\ journal' = [journal EXCEPT ![o] = [status |-> "ACCEPTED", known |-> TRUE]]
    /\ Become(t, Idle)
    /\ UNCHANGED <<fresh, approved, created, broker, posted>>

(* The outcome over the PENDING row.                                        *)
RecordOutcome(t) ==
    LET o == task[t].order IN
    /\ task[t].pc = "record"
    /\ journal' = [journal EXCEPT ![o] =
            IF task[t].receipt THEN [status |-> "ACCEPTED", known |-> TRUE]
            ELSE [status |-> "REJECTED_OR_UNKNOWN", known |-> FALSE]]
    /\ Become(t, Idle)
    /\ UNCHANGED <<fresh, approved, created, broker, posted>>

-----------------------------------------------------------------------------
(* paper_order_history(): the most recent rows, newest first.               *)
History ==
    LET newest == Reverse(created)
    IN SubSeq(newest, 1, IF Len(newest) < HistoryLimit THEN Len(newest) ELSE HistoryLimit)

SyncTargets ==
    LET known == SelectSeq(History, LAMBDA o : journal[o].known)
    IN SubSeq(known, 1, IF Len(known) < SyncLimit THEN Len(known) ELSE SyncLimit)

SyncBegin(t) ==
    /\ task[t] = Idle
    /\ SyncTargets # <<>>
    /\ Become(t, [pc |-> "ask", left |-> SyncTargets])
    /\ UNCHANGED <<fresh, approved, journal, created, broker, posted>>

(* The GET names the provider id of the row; the status as the broker has   *)
(* it now is written by a later step.                                       *)
SyncAsk(t) ==
    /\ task[t].pc = "ask"
    /\ journal[Head(task[t].left)].known
    /\ Become(t, [pc |-> "update", left |-> task[t].left,
                  status |-> broker[Head(task[t].left)]])
    /\ UNCHANGED <<fresh, approved, journal, created, broker, posted>>

SyncUpdate(t) ==
    LET left == task[t].left IN
    /\ task[t].pc = "update"
    /\ journal[Head(left)].known
    /\ journal' = [journal EXCEPT ![Head(left)] = [status |-> task[t].status, known |-> @.known]]
    /\ Become(t, IF Len(left) = 1 THEN Idle ELSE [pc |-> "ask", left |-> Tail(left)])
    /\ UNCHANGED <<fresh, approved, created, broker, posted>>

-----------------------------------------------------------------------------
(* Bug variant: any row can be cancelled.                                   *)
CancelAny(t, o) ==
    /\ task[t] = Idle /\ Present(o)
    /\ Become(t, [pc |-> "cancel", order |-> o])
    /\ UNCHANGED <<fresh, approved, journal, created, broker, posted>>

CancelBegin(t, o) ==
    /\ task[t] = Idle
    /\ journal[o].known /\ journal[o].status \in Active
    /\ Become(t, [pc |-> "cancel", order |-> o])
    /\ UNCHANGED <<fresh, approved, journal, created, broker, posted>>

(* The DELETE: the broker takes the request for an order it is working on;  *)
(* the cancellation itself is one of the broker's later steps.              *)
CancelAsk(t) ==
    /\ task[t].pc = "cancel"
    /\ broker[task[t].order] \in Working
    /\ Become(t, [pc |-> "mark", order |-> task[t].order])
    /\ UNCHANGED <<fresh, approved, journal, created, broker, posted>>

CancelMark(t) ==
    /\ task[t].pc = "mark"
    /\ journal' = [journal EXCEPT ![task[t].order] = [status |-> "CANCEL_REQUESTED", known |-> @.known]]
    /\ Become(t, Idle)
    /\ UNCHANGED <<fresh, approved, created, broker, posted>>

-----------------------------------------------------------------------------
(* A request ends early: the credentials cannot be read, the broker answers *)
(* a GET or DELETE with an error, or the journal cannot be written after    *)
(* the broker was asked.  An error of the POST itself is recorded           *)
(* (RecordOutcome), not dropped.                                            *)
GiveUp(t) ==
    /\ task[t] # Idle
    /\ Become(t, Idle)
    /\ UNCHANGED <<fresh, approved, journal, created, broker, posted>>

(* The dashboard process dies: requests and approvals are gone.  A POST may *)
(* be on its way.                                                           *)
Crash ==
    /\ task' = [t \in Threads |-> Idle]
    /\ approved' = <<>>
    /\ \E sent \in SUBSET {task[t].order : t \in {u \in Threads : task[u].pc = "post"}} :
        /\ broker' = [o \in Orders |-> IF o \in sent THEN "IN_FLIGHT" ELSE broker[o]]
        /\ posted' = [o \in Orders |-> IF o \in sent THEN posted[o] + 1 ELSE posted[o]]
    /\ UNCHANGED <<fresh, journal, created>>

(* The broker, on its own.                                                  *)
BrokerStep(o) ==
    /\ \E status \in BrokerStatuses :
        /\ \/ broker[o] = "IN_FLIGHT" /\ status \in {"NEW", "NONE"}
           \/ broker[o] = "NEW" /\ status \in {"PARTIALLY_FILLED"} \cup Final
           \/ broker[o] = "PARTIALLY_FILLED" /\ status \in Final \ {"REJECTED"}
        /\ broker' = [broker EXCEPT ![o] = status]
    /\ UNCHANGED <<fresh, approved, journal, created, posted, task>>

Serve(t) ==
    \/ \E o \in Orders : Place(t, o) \/ CancelBegin(t, o)
    \/ Post(t) \/ RecordOutcome(t)
    \/ SyncBegin(t) \/ SyncAsk(t) \/ SyncUpdate(t)
    \/ CancelAsk(t) \/ CancelMark(t)
    \/ GiveUp(t)

Next ==
    \/ \E t \in Threads : Serve(t)
    \/ \E o \in Orders : Approve(o) \/ BrokerStep(o)
    \/ Crash

Spec == Init /\ [][Next]_vars

-----------------------------------------------------------------------------
(* One approval is one order at most: whatever is clicked twice, crashes or *)
(* is retried, an order leaves for the broker once, and never without its   *)
(* row in the journal.                                                      *)
SentOnceAndJournalled ==
    \A o \in Orders :
        /\ posted[o] <= 1
        /\ (posted[o] > 0 \/ broker[o] # "NONE") => Present(o)

(* The journal never runs ahead of the broker, in whatever order refreshes, *)
(* cancellations and receipts are written: a provider id names a real order,*)
(* a final status is the broker's own, a partial fill has happened.         *)
JournalNeverAhead ==
    \A o \in Orders :
        /\ journal[o].known => broker[o] \in Working \cup Final
        /\ journal[o].status \in Final => broker[o] = journal[o].status
        /\ journal[o].status = "PARTIALLY_FILLED" => broker[o] \notin {"NEW", "REJECTED"}

(* A request is placing the order.                                          *)
Placing(o) == \E t \in Threads : task[t].pc \in {"post", "record"} /\ task[t].order = o

(* An order without a receipt stays so: once no request is placing it, no   *)
(* refresh and no cancellation ever reaches it, though it may be working.   *)
UnansweredForGood ==
    [][\A o \in Orders :
        (Present(o) /\ ~journal[o].known /\ ~Placing(o)) => journal'[o] = journal[o]]_vars

(* The statuses next_action calls "Not active".                             *)
NotActive == {"CANCELED", "EXPIRED", "REJECTED", "REJECTED_OR_UNKNOWN"}

(* An order whose next_action says "Not active" is not working.             *)
NotActiveIsTrue ==
    \A o \in Orders : journal[o].status \in NotActive => broker[o] \notin Working
=============================================================================
