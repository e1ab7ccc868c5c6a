------------------------------ MODULE Accounts ------------------------------
(***************************************************************************)
(* Accounts, subscriptions and promo codes of the local dashboard          *)
(* (src/app/dashboard/auth.py), in one SQLite file, with every HTTP        *)
(* request on a thread and a connection of its own.  Python's sqlite3      *)
(* opens a transaction at the first INSERT or UPDATE, so what a method     *)
(* SELECTs before that is read by itself; everything from the first write  *)
(* on is one transaction.                                                  *)
(*                                                                         *)
(* Names and prices of plans, the discount of a code and the status of a   *)
(* subscription decide nothing here and are left out; so are the sessions: *)
(* who may call is a guard.                                                *)
(***************************************************************************)
EXTENDS Naturals, FiniteSets

CONSTANTS
    Requests,      \* requests being served at the same time
    Users,         \* email addresses
    Codes,         \* promo codes
    Offers,        \* Offers[c]: what the admin may save under a code
    Ends,          \* end dates the admin may assign
    Null,          \* SQL NULL: no limit, no expiry, no end
    MaxNow         \* bound on the clock

OfferShape ==
    [max : (Nat \ {0}) \cup {Null}, days : Nat, expires : Nat \cup {Null}, active : BOOLEAN]

ASSUME NullAssumption == Null \notin Nat \cup OfferShape
ASSUME UsersAssumption == IsFiniteSet(Users)
ASSUME RequestsAssumption == IsFiniteSet(Requests)
ASSUME OffersAssumption ==
    /\ Offers \in [Codes -> SUBSET OfferShape]
    /\ Ends \subseteq Nat \cup {Null}

VARIABLES
    role,          \* table users: the role of an account, or NONE
    ends,          \* table subscriptions: ends_at of each account
    promo,         \* table promo_codes: the saved offer and redemption_count
    redeemed,      \* table promo_redemptions
    now,           \* the wall clock
    task           \* the request each thread is serving

vars == <<role, ends, promo, redeemed, now, task>>

NoPromo == [offer |-> Null, count |-> 0]
Promos(c) == [offer : Offers[c] \cup {Null}, count : Nat]

Idle == [pc |-> "idle"]
Creations == [pc : {"create"}, user : Users]
Redemptions(c) == [pc : {"redeem"}, user : Users, code : {c}, read : Promos(c), at : Nat]

(* Types, and no end date or redemption without an account.                *)
TypeOK ==
    /\ role \in [Users -> {"NONE", "USER", "MASTER_ADMIN"}]
    /\ ends \in [Users -> Nat \cup {Null}]
    /\ \A c \in Codes : promo[c] \in Promos(c)
    /\ redeemed \subseteq Codes \X Users
    /\ \A u \in Users : role[u] = "NONE" =>
        ends[u] = Null /\ \A c \in Codes : <<c, u>> \notin redeemed
    /\ now \in Nat
    /\ \A t \in Requests :
        \/ task[t] \in {Idle} \cup Creations
        \/ \E c \in Codes : task[t] \in Redemptions(c)

Init ==
    /\ role = [u \in Users |-> "NONE"]
    /\ ends = [u \in Users |-> Null]
    /\ promo = [c \in Codes |-> NoPromo]
    /\ redeemed = {}
    /\ now = 0
    /\ task = [t \in Requests |-> Idle]

Become(t, value) == task' = [task EXCEPT ![t] = value]
NoAccounts == \A u \in Users : role[u] = "NONE"
SignedInAdmin == \E u \in Users : role[u] = "MASTER_ADMIN"

CreateAccount(u, as) ==
    /\ role[u] = "NONE"
    /\ role' = [role EXCEPT ![u] = as]

-----------------------------------------------------------------------------
(* bootstrap_admin(): the test, the hashing of the password, the inserts.   *)
BootstrapCheck(t, u) ==
    /\ task[t] = Idle
    /\ NoAccounts
    /\ Become(t, [pc |-> "create", user |-> u])
    /\ UNCHANGED <<role, ends, promo, redeemed, now>>

BootstrapInsert(t) ==
    /\ task[t].pc = "create"
    /\ CreateAccount(task[t].user, "MASTER_ADMIN")
    /\ Become(t, Idle)
    /\ UNCHANGED <<ends, promo, redeemed, now>>

CreateUser(u) ==
    /\ SignedInAdmin
    /\ CreateAccount(u, "USER")
    /\ UNCHANGED <<ends, promo, redeemed, now, task>>

(* Bug variant: saving a code anew forgets its redemptions.                 *)
SavePromoAfresh(c, offer) ==
    /\ SignedInAdmin
    /\ promo' = [promo EXCEPT ![c] = [offer |-> offer, count |-> 0]]
    /\ UNCHANGED <<role, ends, redeemed, now, task>>

(* save_promo(): an upsert that keeps the count.                            *)
SavePromo(c, offer) ==
    /\ SignedInAdmin
    /\ promo' = [promo EXCEPT ![c] = [offer |-> offer, count |-> @.count]]
    /\ UNCHANGED <<role, ends, redeemed, now, task>>

(* assign_subscription(): whatever the admin says, for a known account.     *)
Assign(u, end) ==
    /\ SignedInAdmin
    /\ role[u] # "NONE"
    /\ ends' = [ends EXCEPT ![u] = end]
    /\ UNCHANGED <<role, promo, redeemed, now, task>>

-----------------------------------------------------------------------------
(* Bug variant: the limit is not looked at.                                 *)
RedeemableWithoutLimit(row) ==
    /\ row.offer # Null /\ row.offer.active
    /\ row.offer.expires # Null => row.offer.expires > now

(* The tests redeem() makes of the row it has read.                         *)
Redeemable(row) ==
    /\ row.offer # Null /\ row.offer.active
    /\ row.offer.expires # Null => row.offer.expires > now
    /\ row.offer.max # Null => row.count < row.offer.max

(* redeem() by a signed-in account, up to its first write.                  *)
RedeemRead(t, u, c) ==
    /\ task[t] = Idle
    /\ role[u] # "NONE"
    /\ Redeemable(promo[c])
    /\ Become(t, [pc |-> "redeem", user |-> u, code |-> c, read |-> promo[c], at |-> now])
    /\ UNCHANGED <<role, ends, promo, redeemed, now>>

(* The end of a subscription with a bonus: it starts at the current end, or *)
(* when the request came if there is no later one.                          *)
Extended(u, at, days) ==
    IF ends[u] # Null /\ ends[u] > at THEN ends[u] + days ELSE at + days

(* The transaction of redeem(): the redemption (once per account), the      *)
(* bonus of the row read before, and the count of the row as it is now.     *)
RedeemWrite(t) ==
    LET k == task[t] IN
    /\ k.pc = "redeem"
    /\ <<k.code, k.user>> \notin redeemed
    /\ redeemed' = redeemed \cup {<<k.code, k.user>>}
    /\ ends' = IF k.read.offer.days = 0 THEN ends
               ELSE [ends EXCEPT ![k.user] = Extended(k.user, k.at, k.read.offer.days)]
    /\ promo' = [promo EXCEPT ![k.code] = [offer |-> @.offer, count |-> @.count + 1]]
    /\ Become(t, Idle)
    /\ UNCHANGED <<role, now>>

(* A request ends without effect: the account or redemption is already      *)
(* there, the database stays busy for five seconds, the process dies.       *)
Fail(t) ==
    /\ task[t] # Idle
    /\ Become(t, Idle)
    /\ UNCHANGED <<role, ends, promo, redeemed, now>>

Tick ==
    /\ now < MaxNow
    /\ now' = now + 1
    /\ UNCHANGED <<role, ends, promo, redeemed, task>>

Serve(t) ==
    \/ \E u \in Users : BootstrapCheck(t, u)
    \/ BootstrapInsert(t)
    \/ \E u \in Users, c \in Codes : RedeemRead(t, u, c)
    \/ RedeemWrite(t)
    \/ Fail(t)

Administer ==
    \/ \E u \in Users : CreateUser(u)
    \/ \E c \in Codes : \E offer \in Offers[c] : SavePromo(c, offer)
    \/ \E u \in Users, end \in Ends : Assign(u, end)

Next == (\E t \in Requests : Serve(t)) \/ Administer \/ Tick

Spec == Init /\ [][Next]_vars

-----------------------------------------------------------------------------
Limited(c) == promo[c].offer # Null /\ promo[c].offer.max # Null
RedeemersOf(c) == {u \in Users : <<c, u>> \in redeemed}

(* However requests and edits of a code interleave, its count is the number *)
(* of accounts that used it.                                                *)
CountIsRedemptions == \A c \in Codes : promo[c].count = Cardinality(RedeemersOf(c))

(* A code whose limit stays as it is can be used beyond it only by requests *)
(* that were underway together.                                             *)
OvershootIsBounded ==
    \A c \in Codes :
        Limited(c) => promo[c].count < promo[c].offer.max + Cardinality(Requests)

(* The redemptions of a code are bounded by its redemption limit.           *)
LimitIsKept ==
    \A c \in Codes : Limited(c) => promo[c].count <= promo[c].offer.max
=============================================================================
