----------------------------- MODULE DeskProofs -----------------------------
(***************************************************************************)
(* Proofs about the risk gate and the head of desk, the paper orders of    *)
(* the dashboard and the planner that approves them, for any instruments,  *)
(* symbols, amounts, prices, accounts, limits, requests and orders.        *)
(*                                                                         *)
(* Sums: Total folds over CHOOSE, so that it takes the elements in some    *)
(* fixed order; a sum over a finite domain is unique and may take any      *)
(* element out first, so changing one value changes the total by as much.  *)
(*                                                                         *)
(* Gate: a held position may be traded at its own mark only, so a filled   *)
(* proposal moves its value between the cash and one position.  The        *)
(* equity stays, two orders leave what the two in one would leave, and a   *)
(* larger purchase leaves no more cash and no less exposure.               *)
(*                                                                         *)
(* Desk: verdicts and decisions are kept with their requests and are the   *)
(* answers to them, and an alert is a decision that nothing blocks.        *)
(*                                                                         *)
(* Orders: one approval is one order at most, whatever the broker answers  *)
(* and whenever the dashboard dies.  An order that is still fresh or       *)
(* approved has no row and was never sent; its approval is the only one    *)
(* and is removed in the step that writes its row; so only one request     *)
(* ever stands before its POST, and when it does, nothing was sent yet.    *)
(* And the journal never runs ahead of the broker: an order at the broker  *)
(* stays there and a final status is final, so what a request learned of   *)
(* an order before an await is still good when it is written.              *)
(*                                                                         *)
(* Plans: what is sized from the synced account passes the gate, and       *)
(* plans that come one at a time leave the cash to be kept.  The size is   *)
(* the least of six quotients and each bounds what the gate computes of    *)
(* its own; an approval or an order that is alone leaves the floor behind  *)
(* when it fills.                                                          *)
(***************************************************************************)
EXTENDS PaperOrders, PaperPlan, RiskReview, OrderProofs

(* What Total folds: a sum over every subset of the domain.                 *)
Pick(s) == CHOOSE x \in s : TRUE
IsSum(f, g) ==
    g = [s \in SUBSET DOMAIN f |-> IF s = {} THEN 0 ELSE f[Pick(s)] + g[s \ {Pick(s)}]]

LEMMA TotalUnfolds == ASSUME NEW f PROVE Total(f) = (CHOOSE g : IsSum(f, g))[DOMAIN f]
  BY DEF Total, FoldFunction, FoldFunctionOnSet, MapThenFoldSet, IsSum, Pick

LEMMA Picked == ASSUME NEW s, s # {} PROVE Pick(s) \in s
  BY DEF Pick

(* A finite domain has such a sum, built up from the small subsets.         *)
LEMMA SumExists == ASSUME NEW f, IsFiniteSet(DOMAIN f) PROVE \E g : IsSum(f, g)
  <1> DEFINE D == DOMAIN f
             Partial(g, n) ==
                /\ g = [s \in SUBSET D |-> g[s]]
                /\ \A s \in SUBSET D : Cardinality(s) <= n =>
                    g[s] = IF s = {} THEN 0 ELSE f[Pick(s)] + g[s \ {Pick(s)}]
             S == {n \in Nat : \E g : Partial(g, n)}
  <1>1. \A s \in SUBSET D : /\ IsFiniteSet(s) /\ Cardinality(s) \in Nat
                            /\ Cardinality(s) <= Cardinality(D)
                            /\ Cardinality(s) = 0 <=> s = {}
    BY FS_Subset, FS_CardinalityType, FS_EmptySet
  <1>2. \A s \in SUBSET D : s # {} =>
            s \ {Pick(s)} \in SUBSET D /\ Cardinality(s \ {Pick(s)}) = Cardinality(s) - 1
    BY <1>1, Picked, FS_RemoveElement
  <1> HIDE DEF D
  <1>3. 0 \in S
    <2>1. Partial([s \in SUBSET D |-> 0], 0)
      BY <1>1
    <2>. QED BY <2>1
  <1>4. \A n \in Nat : n \in S => n + 1 \in S
    <2> SUFFICES ASSUME NEW n \in Nat, n \in S PROVE n + 1 \in S
      OBVIOUS
    <2>. PICK g : Partial(g, n)
      OBVIOUS
    <2> DEFINE h == [s \in SUBSET D |-> IF Cardinality(s) <= n THEN g[s]
                                        ELSE f[Pick(s)] + g[s \ {Pick(s)}]]
    <2>1. /\ \A s \in SUBSET D : Cardinality(s) <= n => h[s] = g[s]
          /\ \A s \in SUBSET D : ~(Cardinality(s) <= n) =>
                h[s] = f[Pick(s)] + g[s \ {Pick(s)}]
          /\ h = [s \in SUBSET D |-> h[s]]
      OBVIOUS
    <2> HIDE DEF h
    <2>2. \A s \in SUBSET D : Cardinality(s) <= n + 1 =>
            h[s] = IF s = {} THEN 0 ELSE f[Pick(s)] + h[s \ {Pick(s)}]
      <3> SUFFICES ASSUME NEW s \in SUBSET D, Cardinality(s) <= n + 1
                   PROVE  h[s] = IF s = {} THEN 0 ELSE f[Pick(s)] + h[s \ {Pick(s)}]
        OBVIOUS
      <3>1. CASE s = {}
        <4>1. Cardinality(s) <= n
          BY <1>1, <3>1
        <4>. QED BY <2>1, <3>1, <4>1
      <3>2. CASE s # {}
        <4>1. /\ s \ {Pick(s)} \in SUBSET D /\ Cardinality(s \ {Pick(s)}) = Cardinality(s) - 1
              /\ Cardinality(s) \in Nat
          BY <1>1, <1>2, <3>2
        <4>2. Cardinality(s \ {Pick(s)}) <= n
          BY <4>1
        <4>3. h[s \ {Pick(s)}] = g[s \ {Pick(s)}]
          BY <2>1, <4>1, <4>2
        <4>4. CASE Cardinality(s) <= n
          BY <2>1, <3>2, <4>3, <4>4
        <4>5. CASE ~(Cardinality(s) <= n)
          BY <2>1, <3>2, <4>3, <4>5
        <4>. QED BY <4>4, <4>5
      <3>. QED BY <3>1, <3>2
    <2>3. Partial(h, n + 1)
      BY <2>1, <2>2
    <2>4. \E k : Partial(k, n + 1)
      BY <2>3
    <2>. HIDE DEF Partial
    <2>. QED BY <2>4
  <1>5. Cardinality(D) \in S
    <2>1. Nat \subseteq S
      <3> HIDE DEF S
      <3>. QED BY <1>3, <1>4, NatSetInduction
    <2>2. Cardinality(D) \in Nat
      BY <1>1
    <2>. QED BY <2>1, <2>2
  <1>6. PICK g : Partial(g, Cardinality(D))
    BY <1>5
  <1>7. \A s \in SUBSET D : g[s] = IF s = {} THEN 0 ELSE f[Pick(s)] + g[s \ {Pick(s)}]
    BY <1>1, <1>6
  <1>8. g = [s \in SUBSET D |-> IF s = {} THEN 0 ELSE f[Pick(s)] + g[s \ {Pick(s)}]]
    BY <1>6, <1>7
  <1>. QED BY <1>8 DEF IsSum, D

(* The values of a sum over the subsets of D.                               *)
Sums(f, g, D) ==
    \A s \in SUBSET D : g[s] = IF s = {} THEN 0 ELSE f[Pick(s)] + g[s \ {Pick(s)}]

(* Total is the last value of a sum.                                        *)
LEMMA TotalIsSum ==
    ASSUME NEW f, IsFiniteSet(DOMAIN f)
    PROVE  \E g : /\ Total(f) = g[DOMAIN f]
                  /\ Sums(f, g, DOMAIN f)
  <1> DEFINE g == CHOOSE h : IsSum(f, h)
  <1>1. IsSum(f, g)
    BY SumExists
  <1>2. Total(f) = g[DOMAIN f]
    BY TotalUnfolds
  <1> HIDE DEF g
  <1>3. Sums(f, g, DOMAIN f)
    BY <1>1 DEF IsSum, Sums
  <1>. QED BY <1>2, <1>3

LEMMA TotalOfNothing == ASSUME NEW f, DOMAIN f = {} PROVE Total(f) = 0
  BY TotalIsSum, FS_EmptySet DEF Sums

LEMMA TotalOfOne == ASSUME NEW f, NEW x, DOMAIN f = {x}, f[x] \in Int PROVE Total(f) = f[x]
  <1>1. IsFiniteSet({x})
    BY FS_Singleton
  <1>2. Pick({x}) = x /\ {x} # {} /\ {x} \ {x} = {} /\ {} \in SUBSET {x} /\ {x} \in SUBSET {x}
    BY Picked
  <1>3. PICK g : /\ Total(f) = g[DOMAIN f]
                 /\ Sums(f, g, DOMAIN f)
    BY <1>1, TotalIsSum
  <1>4. g[{}] = 0 /\ g[{x}] = f[x] + g[{}]
    BY <1>2, <1>3 DEF Sums
  <1>. QED BY <1>3, <1>4

LEMMA TotalIsNat ==
    ASSUME NEW f, IsFiniteSet(DOMAIN f), \A x \in DOMAIN f : f[x] \in Nat
    PROVE  Total(f) \in Nat
  <1> DEFINE D == DOMAIN f
  <1>1. PICK g : /\ Total(f) = g[D]
                 /\ Sums(f, g, D)
    BY TotalIsSum
  <1> DEFINE S == {n \in Nat : \A s \in SUBSET D : Cardinality(s) = n => g[s] \in Nat}
  <1>2. \A s \in SUBSET D : Cardinality(s) \in Nat /\ (Cardinality(s) = 0 <=> s = {})
    BY FS_Subset, FS_CardinalityType, FS_EmptySet
  <1>3. \A s \in SUBSET D : s # {} =>
            /\ s \ {Pick(s)} \in SUBSET D /\ Cardinality(s \ {Pick(s)}) = Cardinality(s) - 1
            /\ f[Pick(s)] \in Nat
    BY Picked, FS_Subset, FS_RemoveElement
  <1> HIDE DEF D
  <1>4. 0 \in S
    BY <1>1, <1>2 DEF Sums
  <1>5. \A n \in Nat : n \in S => n + 1 \in S
    <2> SUFFICES ASSUME NEW n \in Nat, n \in S, NEW s \in SUBSET D, Cardinality(s) = n + 1
                 PROVE  g[s] \in Nat
      OBVIOUS
    <2>1. s # {}
      BY <1>2
    <2>2. s \ {Pick(s)} \in SUBSET D /\ f[Pick(s)] \in Nat
          /\ Cardinality(s \ {Pick(s)}) = Cardinality(s) - 1
      BY <1>3, <2>1
    <2>3. g[s \ {Pick(s)}] \in Nat
      <3>1. Cardinality(s \ {Pick(s)}) = n
        BY <2>2
      <3>. QED BY <2>2, <3>1
    <2>4. g[s] = f[Pick(s)] + g[s \ {Pick(s)}]
      BY <1>1, <2>1 DEF Sums
    <2>. QED BY <2>2, <2>3, <2>4
  <1>6. Cardinality(D) \in S
    <2>1. Nat \subseteq S
      <3> HIDE DEF S
      <3>. QED BY <1>4, <1>5, NatSetInduction
    <2>. QED BY <1>2, <2>1
  <1>. QED BY <1>1, <1>6

(* The order of a sum does not matter.                                      *)
LEMMA SumsAreInt ==
    ASSUME NEW D, IsFiniteSet(D), NEW f, \A x \in D : f[x] \in Int, NEW g,
           Sums(f, g, D)
    PROVE  \A s \in SUBSET D : g[s] \in Int
  <1> DEFINE S == {n \in Nat : \A s \in SUBSET D : Cardinality(s) = n => g[s] \in Int}
  <1>1. \A s \in SUBSET D : Cardinality(s) \in Nat /\ (Cardinality(s) = 0 <=> s = {})
    BY FS_Subset, FS_CardinalityType, FS_EmptySet
  <1>2. \A s \in SUBSET D : s # {} =>
            /\ s \ {Pick(s)} \in SUBSET D /\ Cardinality(s \ {Pick(s)}) = Cardinality(s) - 1
            /\ f[Pick(s)] \in Int
    BY Picked, FS_Subset, FS_RemoveElement
  <1>3. 0 \in S
    <2>1. g[{}] = 0
      BY DEF Sums
    <2>2. \A s \in SUBSET D : Cardinality(s) = 0 => s = {}
      BY <1>1
    <2>. QED BY <2>1, <2>2
  <1>4. \A n \in Nat : n \in S => n + 1 \in S
    <2> SUFFICES ASSUME NEW n \in Nat, n \in S, NEW s \in SUBSET D, Cardinality(s) = n + 1
                 PROVE  g[s] \in Int
      OBVIOUS
    <2>1. s # {}
      BY <1>1
    <2>2. s \ {Pick(s)} \in SUBSET D /\ f[Pick(s)] \in Int
          /\ Cardinality(s \ {Pick(s)}) = Cardinality(s) - 1
      BY <1>2, <2>1
    <2>3. g[s \ {Pick(s)}] \in Int
      <3>1. Cardinality(s \ {Pick(s)}) = n
        BY <2>2
      <3>. QED BY <2>2, <3>1
    <2>4. g[s] = f[Pick(s)] + g[s \ {Pick(s)}]
      BY <2>1 DEF Sums
    <2>. QED BY <2>2, <2>3, <2>4
  <1>5. Nat \subseteq S
    <2> HIDE DEF S
    <2>. QED BY <1>3, <1>4, NatSetInduction
  <1>. QED BY <1>1, <1>5

TakesOut(f, g, s) == \A x \in s : g[s] = f[x] + g[s \ {x}]

LEMMA AnyOrder ==
    ASSUME NEW D, IsFiniteSet(D), NEW f, \A x \in D : f[x] \in Int, NEW g,
           Sums(f, g, D)
    PROVE  \A s \in SUBSET D : TakesOut(f, g, s)
  <1> DEFINE S == {n \in Nat : \A s \in SUBSET D : Cardinality(s) = n => TakesOut(f, g, s)}
  <1>1. \A s \in SUBSET D : Cardinality(s) \in Nat /\ (Cardinality(s) = 0 <=> s = {})
    BY FS_Subset, FS_CardinalityType, FS_EmptySet
  <1>2. \A s \in SUBSET D : \A x \in s :
            s \ {x} \in SUBSET D /\ Cardinality(s \ {x}) = Cardinality(s) - 1
    BY FS_Subset, FS_RemoveElement
  <1>3. \A s \in SUBSET D : g[s] \in Int
    BY SumsAreInt
  <1>4. 0 \in S
    <2>1. \A s \in SUBSET D : s = {} => TakesOut(f, g, s)
      BY DEF TakesOut
    <2>. QED BY <1>1, <2>1
  <1>5. \A n \in Nat : n \in S => n + 1 \in S
    <2> SUFFICES ASSUME NEW n \in Nat, n \in S, NEW s \in SUBSET D, Cardinality(s) = n + 1
                 PROVE  TakesOut(f, g, s)
      OBVIOUS
    <2>1. s # {}
      BY <1>1
    <2> DEFINE p == Pick(s)
    <2>2. p \in s
      BY <2>1, Picked
    <2>3. g[s] = f[p] + g[s \ {p}]
      BY <2>1 DEF Sums
    <2> HIDE DEF p
    <2>4. \A t \in SUBSET D : Cardinality(t) = n => TakesOut(f, g, t)
      OBVIOUS
    <2>5. \A x \in s : /\ s \ {x} \in SUBSET D /\ Cardinality(s \ {x}) = n
                       /\ f[x] \in Int
      BY <1>2
    <2>6. ASSUME NEW x \in s PROVE g[s] = f[x] + g[s \ {x}]
      <3>1. CASE x = p
        BY <2>3, <3>1
      <3>2. CASE x # p
        <4>1. x \in s \ {p} /\ p \in s \ {x}
          BY <2>2, <3>2
        <4>2. g[s \ {p}] = f[x] + g[(s \ {p}) \ {x}]
          BY <2>2, <2>4, <2>5, <4>1 DEF TakesOut
        <4>3. g[s \ {x}] = f[p] + g[(s \ {x}) \ {p}]
          BY <2>4, <2>5, <4>1 DEF TakesOut
        <4>4. (s \ {p}) \ {x} = (s \ {x}) \ {p} /\ (s \ {x}) \ {p} \in SUBSET D
          OBVIOUS
        <4> DEFINE u == g[(s \ {x}) \ {p}]
        <4>5. u \in Int
          BY <1>3, <4>4
        <4>6. f[p] \in Int /\ f[x] \in Int
          BY <2>2, <2>5
        <4>. HIDE DEF u
        <4>7. g[s] = f[p] + (f[x] + u) /\ g[s \ {x}] = f[p] + u
          BY <2>3, <4>2, <4>3, <4>4 DEF u
        <4>. QED BY <4>5, <4>6, <4>7
      <3>. QED BY <3>1, <3>2
    <2>. QED BY <2>6 DEF TakesOut
  <1>6. Nat \subseteq S
    <2> HIDE DEF S
    <2>. QED BY <1>4, <1>5, NatSetInduction
  <1>. QED BY <1>1, <1>6

(* Two functions that agree on a set have the same sum over it.             *)
LEMMA SameSums ==
    ASSUME NEW D, IsFiniteSet(D), NEW f, NEW g, NEW h, NEW k,
           \A x \in D : f[x] = h[x],
           Sums(f, g, D),
           Sums(h, k, D)
    PROVE  g[D] = k[D]
  <1> DEFINE S == {n \in Nat : \A s \in SUBSET D : Cardinality(s) = n => g[s] = k[s]}
  <1>1. \A s \in SUBSET D : Cardinality(s) \in Nat /\ (Cardinality(s) = 0 <=> s = {})
    BY FS_Subset, FS_CardinalityType, FS_EmptySet
  <1>2. \A s \in SUBSET D : s # {} =>
            /\ s \ {Pick(s)} \in SUBSET D /\ Cardinality(s \ {Pick(s)}) = Cardinality(s) - 1
            /\ f[Pick(s)] = h[Pick(s)]
    BY Picked, FS_Subset, FS_RemoveElement
  <1>3. 0 \in S
    BY <1>1 DEF Sums
  <1>4. \A n \in Nat : n \in S => n + 1 \in S
    <2> SUFFICES ASSUME NEW n \in Nat, n \in S, NEW s \in SUBSET D, Cardinality(s) = n + 1
                 PROVE  g[s] = k[s]
      OBVIOUS
    <2>1. s # {}
      BY <1>1
    <2>2. /\ s \ {Pick(s)} \in SUBSET D /\ Cardinality(s \ {Pick(s)}) = n
          /\ f[Pick(s)] = h[Pick(s)]
      BY <1>2, <2>1
    <2>3. g[s \ {Pick(s)}] = k[s \ {Pick(s)}]
      BY <2>2
    <2>. QED BY <2>1, <2>2, <2>3 DEF Sums
  <1>5. Nat \subseteq S
    <2> HIDE DEF S
    <2>. QED BY <1>3, <1>4, NatSetInduction
  <1>. QED BY <1>1, <1>5

(* A sum with one summand replaced or added.                                *)
LEMMA TotalUpdated ==
    ASSUME NEW f, NEW h, NEW x, IsFiniteSet(DOMAIN f), DOMAIN h = DOMAIN f \cup {x},
           \A y \in DOMAIN f : f[y] \in Int, h[x] \in Int,
           \A y \in DOMAIN f : y # x => h[y] = f[y]
    PROVE  /\ Total(f) \in Int /\ Total(h) \in Int
           /\ Total(h) = Total(f) + h[x] - (IF x \in DOMAIN f THEN f[x] ELSE 0)
  <1> DEFINE D == DOMAIN f
             E == DOMAIN h
             R == D \ {x}
  <1>1. IsFiniteSet(E) /\ IsFiniteSet(R) /\ R \subseteq D /\ R = E \ {x} /\ x \in E
    BY FS_AddElement, FS_Subset
  <1>2. PICK g : /\ Total(f) = g[D]
                 /\ Sums(f, g, D)
    BY TotalIsSum
  <1>3. PICK k : /\ Total(h) = k[E]
                 /\ Sums(h, k, E)
    BY <1>1, TotalIsSum
  <1>4. \A y \in E : h[y] \in Int
    OBVIOUS
  <1>5. \A y \in R : f[y] = h[y]
    OBVIOUS
  <1>6. IsFiniteSet(D) /\ \A y \in D : f[y] \in Int
    OBVIOUS
  <1>. HIDE DEF D, E
  <1>7. g[R] = k[R]
    <2>1. \A s \in SUBSET R : s \in SUBSET D /\ s \in SUBSET E
      BY <1>1
    <2>. HIDE DEF R
    <2>2. Sums(f, g, R)
      BY <1>2, <2>1 DEF Sums
    <2>3. Sums(h, k, R)
      BY <1>3, <2>1 DEF Sums
    <2>. QED BY <1>1, <1>5, <2>2, <2>3, SameSums
  <1>8. \A s \in SUBSET D : g[s] \in Int
    BY <1>2, <1>6, SumsAreInt
  <1>9. \A s \in SUBSET E : k[s] \in Int
    BY <1>1, <1>3, <1>4, SumsAreInt
  <1>10. Total(f) \in Int /\ Total(h) \in Int /\ g[R] \in Int
    BY <1>1, <1>2, <1>3, <1>8, <1>9
  <1>11. Total(h) = h[x] + k[R]
    <2>1. TakesOut(h, k, E)
      <3>1. \A s \in SUBSET E : TakesOut(h, k, s)
        BY <1>1, <1>3, <1>4, AnyOrder
      <3>. QED BY <3>1
    <2>. QED BY <1>1, <1>3, <2>1 DEF TakesOut
  <1>12. CASE x \in D
    <2>1. TakesOut(f, g, D)
      <3>1. \A s \in SUBSET D : TakesOut(f, g, s)
        BY <1>2, <1>6, AnyOrder
      <3>. QED BY <3>1
    <2>2. Total(f) = f[x] + g[R] /\ f[x] \in Int
      BY <1>2, <1>6, <1>12, <2>1 DEF TakesOut
    <2>3. Total(h) = h[x] + g[R]
      BY <1>7, <1>11
    <2>4. Total(h) = Total(f) + h[x] - f[x]
      BY <1>10, <2>2, <2>3
    <2>. QED BY <1>10, <1>12, <2>4 DEF D
  <1>13. CASE x \notin D
    <2>1. R = D
      BY <1>13
    <2>2. Total(f) = g[R] /\ Total(h) = h[x] + g[R]
      BY <1>2, <1>7, <1>11, <2>1
    <2>3. Total(h) = Total(f) + h[x] - 0
      BY <1>10, <2>2
    <2>. QED BY <1>10, <1>13, <2>3 DEF D
  <1>. QED BY <1>12, <1>13

-----------------------------------------------------------------------------
(* The gate.                                                                *)

AccountOK(a) ==
    /\ a = [id |-> a.id, currency |-> a.currency, effective |-> a.effective,
            observed |-> a.observed, cash |-> a.cash, pending |-> a.pending,
            positions |-> a.positions]
    /\ a.cash \in Int /\ IsFiniteSet(DOMAIN a.positions)
    /\ a.positions = [i \in DOMAIN a.positions |->
            [quantity |-> a.positions[i].quantity, mark |-> a.positions[i].mark]]
    /\ \A i \in DOMAIN a.positions :
        /\ a.positions[i].quantity \in Int
        /\ a.positions[i].mark # None => a.positions[i].mark.price \in Int

ProposalOK(p) ==
    /\ p = [account |-> p.account, currency |-> p.currency, instrument |-> p.instrument,
            quantity |-> p.quantity, effective |-> p.effective, observed |-> p.observed,
            mark |-> p.mark]
    /\ p.quantity \in Int /\ p.mark.price \in Int /\ p.mark # None

PolicyOK(policy) ==
    {policy.maxQuantity, policy.maxNotional, policy.maxGross, policy.maxInstrument,
     policy.minCash} \subseteq Int

(* A request of the gate, field by field.                                   *)
RequestOK(r) ==
    /\ r = [account |-> r.account, context |-> r.context, proposal |-> r.proposal,
            policy |-> r.policy, asOf |-> r.asOf, at |-> r.at]
    /\ AccountOK(r.account) /\ ProposalOK(r.proposal) /\ PolicyOK(r.policy)

(* Without a missing prerequisite every position held has a mark, the       *)
(* traded one the mark of the proposal, which is positive.                  *)
LEMMA NothingMissed ==
    ASSUME NEW r, Prerequisites(r) = {}
    PROVE  /\ \A i \in DOMAIN r.account.positions : ~Unmarked(r.account.positions[i])
           /\ ~Repriced(r) /\ ~(r.proposal.mark.price <= 0)
  <1>1. Portfolio(r.account).complete
    BY DEF Prerequisites
  <1>2. ~Repriced(r)
    BY DEF Prerequisites
  <1>3. ~(r.proposal.mark.price <= 0)
    BY DEF Prerequisites
  <1>. QED BY <1>1, <1>2, <1>3 DEF Portfolio

(* What the account holds of the instrument of a proposal.                  *)
HeldOf(r) ==
    IF r.proposal.instrument \in DOMAIN r.account.positions
    THEN r.account.positions[r.proposal.instrument].quantity ELSE 0

(* The account [positions, cash] after q more of x at the mark m.           *)
IsProjection(p, positions, cash, x, m, held, q) ==
    /\ p.positions = [i \in DOMAIN positions \cup {x} |-> IF i # x THEN positions[i]
                        ELSE [quantity |-> held + q, mark |-> m]]
    /\ p.cash = cash - q * m.price
    /\ p.notional = Magnitude(q * m.price)
    /\ p.gross = Gross(p.positions)

(* What Project computes, in the words above.                               *)
LEMMA Projections ==
    ASSUME NEW r
    PROVE  IsProjection(Project(r), r.account.positions, r.account.cash,
                        r.proposal.instrument, r.proposal.mark, HeldOf(r), r.proposal.quantity)
  BY DEF Project, HeldOf, IsProjection

(* A position is worth its quantity at its mark, also when there is none.   *)
LEMMA Worths ==
    ASSUME NEW q \in Int, NEW mark, mark.price \in Int
    PROVE  /\ MarketValue([quantity |-> q, mark |-> mark]) = q * mark.price
           /\ q * mark.price \in Int
  <1> DEFINE v == mark.price
  <1>1. v \in Int
    OBVIOUS
  <1>2. MarketValue([quantity |-> q, mark |-> mark]) = IF q = 0 THEN 0 ELSE q * v
    BY DEF MarketValue
  <1> HIDE DEF v
  <1>3. (q = 0 => q * v = 0) /\ q * v \in Int
    BY <1>1
  <1>4. MarketValue([quantity |-> q, mark |-> mark]) = q * v /\ q * v \in Int
    BY <1>2, <1>3
  <1>. QED BY <1>4 DEF v

(* The positions before (f) and after (h) a proposal, at their market       *)
(* values: that of x goes from held to held + q at the price v.             *)
Traded(f, h, x, v, held, q) ==
    /\ IsFiniteSet(DOMAIN f) /\ DOMAIN h = DOMAIN f \cup {x} /\ v \in Int
    /\ \A y \in DOMAIN f : f[y] \in Int
    /\ \A y \in DOMAIN f : y # x => h[y] = f[y]
    /\ held \in Int /\ q \in Int
    /\ h[x] = (held + q) * v
    /\ (IF x \in DOMAIN f THEN f[x] ELSE 0) = held * v

(* A projection changes the value of the traded position only.              *)
LEMMA ValuesOfProjection ==
    ASSUME NEW r, RequestOK(r), Prerequisites(r) = {}
    PROVE  Traded(Values(r.account.positions), Values(Project(r).positions),
                  r.proposal.instrument, r.proposal.mark.price, HeldOf(r), r.proposal.quantity)
  <1> DEFINE f == Values(r.account.positions)
             h == Values(Project(r).positions)
             x == r.proposal.instrument
             v == r.proposal.mark.price
  <1> DEFINE pos == r.account.positions
             m == r.proposal.mark
             q == r.proposal.quantity
             new == Project(r).positions
  <1>1. /\ AccountOK(r.account) /\ m.price \in Int /\ m # None /\ q \in Int /\ v = m.price
    BY DEF RequestOK, ProposalOK
  <1>2. /\ IsFiniteSet(DOMAIN pos)
        /\ \A i \in DOMAIN pos : pos[i].quantity \in Int
        /\ \A i \in DOMAIN pos : pos[i].mark # None => pos[i].mark.price \in Int
    BY <1>1 DEF AccountOK
  <1>3. \A i \in DOMAIN pos : ~Unmarked(pos[i])
    BY NothingMissed
  <1>4. new = [i \in DOMAIN pos \cup {x} |-> IF i # x THEN pos[i]
                ELSE [quantity |-> HeldOf(r) + q, mark |-> m]]
    BY Projections DEF IsProjection
  <1>5. ~Repriced(r)
    BY NothingMissed
  <1>6. HeldOf(r) = IF x \in DOMAIN pos THEN pos[x].quantity ELSE 0
    BY DEF HeldOf
  <1>7. x \in DOMAIN pos /\ pos[x].quantity # 0 /\ pos[x].mark # None => pos[x].mark = m
    BY <1>5 DEF Repriced
  <1>8. f = [i \in DOMAIN pos |-> MarketValue(pos[i])] /\ h = [i \in DOMAIN new |-> MarketValue(new[i])]
    BY DEF Values
  <1>. HIDE DEF pos, m, q, new, f, h, x, v
  <1>9. HeldOf(r) \in Int
    BY <1>2, <1>6
  <1>10. DOMAIN f = DOMAIN pos /\ DOMAIN h = DOMAIN pos \cup {x}
    BY <1>4, <1>8
  <1>11. ASSUME NEW y \in DOMAIN pos PROVE f[y] \in Int
    <2>1. f[y] = MarketValue(pos[y]) /\ pos[y].quantity \in Int
      BY <1>2, <1>8
    <2>2. CASE pos[y].quantity = 0
      BY <2>1, <2>2 DEF MarketValue
    <2>3. CASE pos[y].quantity # 0
      <3>1. pos[y].mark.price \in Int
        BY <1>2, <1>3, <2>3 DEF Unmarked
      <3>2. pos[y].quantity * pos[y].mark.price \in Int
        BY <2>1, <3>1
      <3>. QED BY <2>1, <2>3, <3>2 DEF MarketValue
    <2>. QED BY <2>2, <2>3
  <1>12. \A y \in DOMAIN pos : y # x => h[y] = f[y]
    BY <1>4, <1>8
  <1>13. h[x] = (HeldOf(r) + q) * v
    <2>1. new[x] = [quantity |-> HeldOf(r) + q, mark |-> m] /\ h[x] = MarketValue(new[x])
      BY <1>4, <1>8
    <2>2. HeldOf(r) + q \in Int
      BY <1>1, <1>9
    <2>. QED BY <1>1, <2>1, <2>2, Worths
  <1>14. (IF x \in DOMAIN pos THEN f[x] ELSE 0) = HeldOf(r) * v
    <2>1. CASE x \notin DOMAIN pos
      BY <1>1, <1>6, <2>1
    <2>2. CASE x \in DOMAIN pos
      <3>1. f[x] = MarketValue(pos[x]) /\ HeldOf(r) = pos[x].quantity
        BY <1>6, <1>8, <2>2
      <3>2. CASE pos[x].quantity = 0
        BY <1>1, <2>2, <3>1, <3>2 DEF MarketValue
      <3>3. CASE pos[x].quantity # 0
        <4>1. pos[x].mark = m
          BY <1>3, <1>7, <2>2, <3>3 DEF Unmarked
        <4>. QED BY <1>1, <2>2, <3>1, <3>3, <4>1 DEF MarketValue
      <3>. QED BY <3>2, <3>3
    <2>. QED BY <2>1, <2>2
  <1>15. Traded(f, h, x, v, HeldOf(r), q)
    BY <1>1, <1>2, <1>9, <1>10, <1>11, <1>12, <1>13, <1>14 DEF Traded
  <1>. QED BY <1>15 DEF f, h, x, v, q

(* A projection moves money between cash and the position: what the         *)
(* position gains at its mark is what the cash pays.                        *)
LEMMA EquityStays ==
    ASSUME NEW r, RequestOK(r), Prerequisites(r) = {}
    PROVE  Project(r).cash + Total(Values(Project(r).positions)) = Portfolio(r.account).equity
  <1>1. PICK f : f = Values(r.account.positions)
    OBVIOUS
  <1>2. PICK h : h = Values(Project(r).positions)
    OBVIOUS
  <1>3. PICK x : x = r.proposal.instrument
    OBVIOUS
  <1>4. PICK v : v = r.proposal.mark.price
    OBVIOUS
  <1>5. PICK q, held : q = r.proposal.quantity /\ held = HeldOf(r)
    OBVIOUS
  <1>6. Traded(f, h, x, v, held, q)
    BY <1>1, <1>2, <1>3, <1>4, <1>5, ValuesOfProjection
  <1>7. (held + q) * v = held * v + q * v /\ (held + q) * v \in Int /\ held * v \in Int /\ q * v \in Int
    BY <1>6 DEF Traded
  <1>8. /\ Total(f) \in Int
        /\ Total(h) = Total(f) + h[x] - (IF x \in DOMAIN f THEN f[x] ELSE 0)
    BY <1>6, <1>7, TotalUpdated DEF Traded
  <1>9. Total(h) = Total(f) + q * v
    BY <1>6, <1>7, <1>8 DEF Traded
  <1>10. r.account.cash \in Int
    BY DEF RequestOK, AccountOK
  <1>11. Project(r).cash = r.account.cash - q * v
    BY <1>4, <1>5, Projections DEF IsProjection
  <1>12. Portfolio(r.account).equity = r.account.cash + Total(f)
    BY <1>1, NothingMissed DEF Portfolio
  <1>13. r.account.cash - q * v + Total(h) = r.account.cash + Total(f)
    BY <1>7, <1>8, <1>9, <1>10
  <1>. QED BY <1>2, <1>11, <1>12, <1>13

-----------------------------------------------------------------------------
(* The prerequisites do not look at the size of a proposal.                 *)
SameButSize(r, t) ==
    /\ r.account = t.account /\ r.context = t.context /\ r.policy = t.policy
    /\ r.asOf = t.asOf /\ r.at = t.at
    /\ r.proposal.account = t.proposal.account /\ r.proposal.currency = t.proposal.currency
    /\ r.proposal.instrument = t.proposal.instrument
    /\ r.proposal.effective = t.proposal.effective /\ r.proposal.observed = t.proposal.observed
    /\ r.proposal.mark = t.proposal.mark

LEMMA SizeIsNoPrerequisite ==
    ASSUME NEW r, NEW t, SameButSize(r, t) PROVE Prerequisites(r) = Prerequisites(t)
  <1>1. Repriced(r) <=> Repriced(t)
    BY DEF SameButSize, Repriced
  <1>. QED BY <1>1 DEF SameButSize, Prerequisites

(* The limits that are per order, and those of the account it leaves.       *)
OrderLimits(r, p) ==
    (IF Magnitude(r.proposal.quantity) > r.policy.maxQuantity THEN {"QUANTITY_LIMIT"} ELSE {})
    \cup (IF p.notional > r.policy.maxNotional THEN {"PROPOSAL_NOTIONAL_LIMIT"} ELSE {})

AccountLimits(policy, positions, cash, gross) ==
    LET exposure == [i \in DOMAIN positions |-> Magnitude(MarketValue(positions[i]))] IN
    UNION {
        IF cash < policy.minCash THEN {"CASH_FLOOR"} ELSE {},
        IF gross > policy.maxGross THEN {"GROSS_EXPOSURE_LIMIT"} ELSE {},
        IF \E i \in DOMAIN exposure : exposure[i] > policy.maxInstrument
        THEN {"INSTRUMENT_EXPOSURE_LIMIT"} ELSE {},
        IF gross > 0 /\ \E i \in DOMAIN exposure :
                    exposure[i] * policy.maxShare.of > policy.maxShare.part * gross
        THEN {"CONCENTRATION_LIMIT"} ELSE {},
        IF ~policy.allowShort /\ \E i \in DOMAIN positions : positions[i].quantity < 0
        THEN {"SHORT_POSITION_DISALLOWED"} ELSE {}}

(* Every limit is of one of the two kinds.                                  *)
LEMMA LimitsSplit ==
    ASSUME NEW r, NEW p
    PROVE  Limits(r, p) = OrderLimits(r, p)
                \cup AccountLimits(r.policy, p.positions, p.cash, p.gross)
  BY DEF Limits, OrderLimits, AccountLimits

(* The verdict and its projection, by whether a prerequisite is missing.    *)
LEMMA Evaluated ==
    ASSUME NEW r
    PROVE  /\ Prerequisites(r) = {} =>
                /\ Evaluate(r).reasons = Limits(r, Project(r))
                /\ Evaluate(r).status = "PASS_CHECKS" <=> Limits(r, Project(r)) = {}
                /\ Evaluate(r).projection = Project(r)
           /\ Prerequisites(r) # {} =>
                /\ Evaluate(r).status = "VETO" /\ Evaluate(r).projection = None
           /\ Evaluate(r).request = r
           /\ Evaluate(r).status \in {"PASS_CHECKS", "VETO"}
  BY DEF Evaluate

-----------------------------------------------------------------------------
(* An order after another one, and the two in one.                          *)
Then(r, change) == [Projected(r) EXCEPT !.proposal.quantity = change]
Both(r, change) == [r EXCEPT !.proposal.quantity = @ + change]

(* One of them changed, r being a request.                                  *)
LEMMA Resized ==
    ASSUME NEW r, RequestOK(r), NEW n, NEW t, t = [r EXCEPT !.proposal.quantity = n]
    PROVE  SameButSize(r, t) /\ t.proposal.quantity = n
  BY DEF RequestOK, ProposalOK, SameButSize

(* The second request is put to the account that the first would leave.     *)
LEMMA Secondly ==
    ASSUME NEW r, RequestOK(r), NEW n
    PROVE  /\ Then(r, n).account.positions = Project(r).positions
           /\ Then(r, n).account.cash = Project(r).cash
           /\ Then(r, n).policy = r.policy
           /\ Then(r, n).proposal.instrument = r.proposal.instrument
           /\ Then(r, n).proposal.mark = r.proposal.mark
           /\ Then(r, n).proposal.quantity = n
  BY DEF RequestOK, AccountOK, ProposalOK, Then, Projected

(* The two in one order leave the account the two orders leave, so they     *)
(* break no limit of the account.                                           *)
LEMMA TwoInOne ==
    ASSUME NEW r, RequestOK(r), NEW n \in Int, Evaluate(r).status = "PASS_CHECKS",
           Evaluate(Then(r, n)).status = "PASS_CHECKS"
    PROVE  Evaluate(Both(r, n)).reasons \subseteq {"QUANTITY_LIMIT", "PROPOSAL_NOTIONAL_LIMIT"}
  <1> DEFINE s == Then(r, n)
             b == Both(r, n)
             x == r.proposal.instrument
             v == r.proposal.mark.price
             q == r.proposal.quantity
             D == DOMAIN r.account.positions
  <1>1. Prerequisites(r) = {}
    BY Evaluated
  <1>2. SameButSize(r, b) /\ b.proposal.quantity = q + n
    <2>1. b = [r EXCEPT !.proposal.quantity = q + n]
      BY DEF Both
    <2>. HIDE DEF b
    <2>. QED BY <2>1, Resized
  <1>3. Prerequisites(b) = {}
    BY <1>1, <1>2, SizeIsNoPrerequisite
  <1>4. /\ s.account.positions = Project(r).positions /\ s.account.cash = Project(r).cash
        /\ s.policy = r.policy /\ s.proposal.instrument = x
        /\ s.proposal.mark = r.proposal.mark /\ s.proposal.quantity = n
    BY Secondly
  <1>5. /\ b.account = r.account /\ b.policy = r.policy /\ b.proposal.instrument = x
        /\ b.proposal.mark = r.proposal.mark
    BY <1>2 DEF SameButSize
  <1>6. Traded(Values(r.account.positions), Values(Project(r).positions), x, v, HeldOf(r), q)
    BY <1>1, ValuesOfProjection
  <1>7. HeldOf(r) \in Int /\ q \in Int /\ v \in Int /\ r.account.cash \in Int
    BY <1>6 DEF Traded, RequestOK, AccountOK
  <1>8. Prerequisites(s) = {} /\ Limits(s, Project(s)) = {}
    BY Evaluated
  <1> DEFINE old == r.account.positions
             m == r.proposal.mark
             mid == Project(r).positions
  <1>9. /\ mid = [i \in D \cup {x} |-> IF i # x THEN old[i]
                    ELSE [quantity |-> HeldOf(r) + q, mark |-> m]]
        /\ Project(r).cash = r.account.cash - q * v
    BY Projections DEF IsProjection
  <1>10. HeldOf(s) = HeldOf(r) + q /\ HeldOf(b) = HeldOf(r)
    <2>1. HeldOf(s) = mid[x].quantity
      BY <1>4, <1>9 DEF HeldOf
    <2>2. mid[x] = [quantity |-> HeldOf(r) + q, mark |-> m]
      BY <1>9
    <2>3. HeldOf(b) = HeldOf(r)
      BY <1>5 DEF HeldOf
    <2>. QED BY <2>1, <2>2, <2>3
  <1>11. /\ Project(s).positions = [i \in DOMAIN mid \cup {x} |-> IF i # x THEN mid[i]
                    ELSE [quantity |-> HeldOf(s) + n, mark |-> m]]
         /\ Project(s).cash = (r.account.cash - q * v) - n * v
         /\ Project(s).gross = Gross(Project(s).positions)
    <2>1. IsProjection(Project(s), mid, Project(r).cash, x, m, HeldOf(s), n)
      BY <1>4, Projections
    <2>. HIDE DEF s, mid, m, x, q
    <2>. QED BY <1>9, <2>1 DEF IsProjection, v, m
  <1>12. /\ Project(b).positions = [i \in D \cup {x} |-> IF i # x THEN old[i]
                    ELSE [quantity |-> HeldOf(b) + (q + n), mark |-> m]]
         /\ Project(b).cash = r.account.cash - (q + n) * v
         /\ Project(b).gross = Gross(Project(b).positions)
    <2>1. IsProjection(Project(b), old, r.account.cash, x, m, HeldOf(b), q + n)
      BY <1>2, <1>5, Projections
    <2>. HIDE DEF b, old, m, x, q, D
    <2>. QED BY <2>1 DEF IsProjection, v, m, old, D
  <1> HIDE DEF s, b, x, v, q, D, old, m, mid
  <1>13. Project(s).positions = Project(b).positions
    <2>1. (HeldOf(r) + q) + n = HeldOf(r) + (q + n)
      BY <1>7
    <2>2. DOMAIN mid \cup {x} = D \cup {x}
      BY <1>9
    <2>3. \A i \in D \cup {x} : i # x => mid[i] = old[i]
      BY <1>9
    <2>. QED BY <1>10, <1>11, <1>12, <2>1, <2>2, <2>3
  <1>14. Project(s).cash = Project(b).cash
    <2>1. (r.account.cash - q * v) - n * v = r.account.cash - (q + n) * v
      BY <1>7
    <2>. QED BY <1>11, <1>12, <2>1
  <1>15. AccountLimits(b.policy, Project(b).positions, Project(b).cash, Project(b).gross) = {}
    <2>1. Project(s).gross = Project(b).gross
      BY <1>11, <1>12, <1>13
    <2>2. AccountLimits(s.policy, Project(s).positions, Project(s).cash, Project(s).gross) = {}
      BY <1>8, LimitsSplit
    <2>. QED BY <1>4, <1>5, <1>13, <1>14, <2>1, <2>2
  <1>16. Evaluate(b).reasons = OrderLimits(b, Project(b))
    <2>1. Evaluate(b).reasons = Limits(b, Project(b))
      BY <1>3, Evaluated
    <2> DEFINE more == AccountLimits(b.policy, Project(b).positions, Project(b).cash,
                                     Project(b).gross)
    <2>2. Limits(b, Project(b)) = OrderLimits(b, Project(b)) \cup more
      BY LimitsSplit
    <2>. HIDE DEF more
    <2>3. more = {}
      BY <1>15 DEF more
    <2>. QED BY <2>1, <2>2, <2>3
  <1>. QED BY <1>16 DEF OrderLimits, b

-----------------------------------------------------------------------------
(* A larger purchase.                                                       *)

(* At a positive price more is worth more.                                  *)
LEMMA LargerAmounts ==
    ASSUME NEW held \in Nat, NEW q \in Nat \ {0}, NEW n \in Nat \ {0}, q < n, NEW v \in Nat \ {0}
    PROVE  /\ (held + q) * v \in Nat /\ (held + n) * v \in Nat
           /\ (held + q) * v <= (held + n) * v
           /\ q * v \in Nat /\ n * v \in Nat /\ q * v <= n * v
  <1>1. \A a, b \in Nat : a <= b => a * v <= b * v /\ a * v \in Nat /\ b * v \in Nat
    OBVIOUS
  <1>2. held + q <= held + n /\ held + q \in Nat /\ held + n \in Nat
    OBVIOUS
  <1>. QED BY <1>1, <1>2

(* Where one exposure grows, so does the sum, and no exposure shrinks.      *)
LEMMA Exposed ==
    ASSUME NEW u, NEW w, NEW x, IsFiniteSet(DOMAIN u), x \in DOMAIN u, DOMAIN w = DOMAIN u,
           \A i \in DOMAIN u : u[i] \in Int, w[x] \in Int, u[x] <= w[x],
           \A i \in DOMAIN u : i # x => w[i] = u[i]
    PROVE  /\ Total(u) \in Int /\ Total(w) \in Int /\ Total(u) <= Total(w)
           /\ \A i \in DOMAIN u : w[i] \in Int /\ u[i] <= w[i]
  <1>1. DOMAIN w = DOMAIN u \cup {x}
    OBVIOUS
  <1>2. /\ Total(u) \in Int /\ Total(w) \in Int
        /\ Total(w) = Total(u) + w[x] - (IF x \in DOMAIN u THEN u[x] ELSE 0)
    BY <1>1, TotalUpdated
  <1>3. Total(w) = Total(u) + w[x] - u[x] /\ u[x] \in Int
    BY <1>2
  <1>4. Total(u) <= Total(w)
    BY <1>2, <1>3
  <1>5. ASSUME NEW i \in DOMAIN u PROVE w[i] \in Int /\ u[i] <= w[i]
    BY <1>5
  <1>. QED BY <1>2, <1>4, <1>5

(* A request of another size is a request.                                  *)
LEMMA ResizedIsOK ==
    ASSUME NEW r, RequestOK(r), NEW n \in Int
    PROVE  RequestOK([r EXCEPT !.proposal.quantity = n])
  BY DEF RequestOK, ProposalOK

(* A larger purchase breaks every limit of a smaller one, but for the       *)
(* concentration: its quantity, notional and exposures are larger, its cash *)
(* is less, and a purchase leaves nothing short that was not.               *)
LEMMA LargerBuy ==
    ASSUME NEW r, RequestOK(r), Prerequisites(r) = {}, NEW n \in Int,
           r.proposal.quantity > 0, n > r.proposal.quantity,
           \A i \in DOMAIN r.account.positions : r.account.positions[i].quantity >= 0
    PROVE  Limits(r, Project(r)) \ {"CONCENTRATION_LIMIT"}
                \subseteq Evaluate([r EXCEPT !.proposal.quantity = n]).reasons
  <1> DEFINE t == [r EXCEPT !.proposal.quantity = n]
             x == r.proposal.instrument
             m == r.proposal.mark
             v == m.price
             q == r.proposal.quantity
             old == r.account.positions
             D == DOMAIN old
             policy == r.policy
             here == Project(r)
             there == Project(t)
             u == [i \in DOMAIN here.positions |-> Magnitude(MarketValue(here.positions[i]))]
             w == [i \in DOMAIN there.positions |-> Magnitude(MarketValue(there.positions[i]))]
             held == HeldOf(r)
  <1>1. SameButSize(r, t) /\ t.proposal.quantity = n /\ RequestOK(t)
    BY Resized, ResizedIsOK
  <1>2. Prerequisites(t) = {}
    BY <1>1, SizeIsNoPrerequisite
  <1>3. /\ t.account = r.account /\ t.policy = policy /\ t.proposal.instrument = x
        /\ t.proposal.mark = m
    BY <1>1 DEF SameButSize
  <1>4. HeldOf(t) = held
    BY <1>3 DEF HeldOf
  <1>5. Traded(Values(old), Values(here.positions), x, v, held, q)
    BY ValuesOfProjection
  <1>6. Traded(Values(old), Values(there.positions), x, v, held, n)
    <2>1. Traded(Values(t.account.positions), Values(there.positions),
                 t.proposal.instrument, t.proposal.mark.price, HeldOf(t), t.proposal.quantity)
      BY <1>1, <1>2, ValuesOfProjection
    <2>. HIDE DEF t, there, m, x, held
    <2>. QED BY <1>1, <1>3, <1>4, <2>1
  <1>7. IsProjection(here, old, r.account.cash, x, m, held, q)
    BY Projections
  <1>8. IsProjection(there, old, r.account.cash, x, m, held, n)
    <2>1. IsProjection(there, t.account.positions, t.account.cash,
                       t.proposal.instrument, t.proposal.mark, HeldOf(t), t.proposal.quantity)
      BY Projections
    <2>. HIDE DEF t, there, m, x, held
    <2>. QED BY <1>1, <1>3, <1>4, <2>1
  <1>9. /\ r.account.cash \in Int /\ q \in Nat \ {0} /\ n \in Nat \ {0} /\ q < n
        /\ held \in Nat /\ v \in Nat \ {0}
    <2>1. r.account.cash \in Int /\ q \in Int /\ v \in Int /\ ~(v <= 0)
      BY NothingMissed DEF RequestOK, AccountOK, ProposalOK
    <2>2. held \in Nat
      <3>1. held \in Int
        BY <1>5 DEF Traded
      <3>2. held >= 0
        BY DEF HeldOf
      <3>. QED BY <3>1, <3>2
    <2>. HIDE DEF held, v, q
    <2>3. q > 0 /\ n > q
      BY DEF q
    <2>. QED BY <2>1, <2>2, <2>3
  <1>10. /\ policy.maxQuantity \in Int /\ policy.maxNotional \in Int /\ policy.maxGross \in Int
         /\ policy.maxInstrument \in Int /\ policy.minCash \in Int
    BY DEF RequestOK, PolicyOK
  <1>11. /\ here.cash = r.account.cash - q * v /\ there.cash = r.account.cash - n * v
         /\ here.notional = Magnitude(q * v) /\ there.notional = Magnitude(n * v)
         /\ here.gross = Total(u) /\ there.gross = Total(w)
    BY <1>7, <1>8 DEF IsProjection, Gross
  <1>12. \A i \in D : old[i].quantity >= 0
    OBVIOUS
  <1>13. \A i \in DOMAIN here.positions : ~(here.positions[i].quantity < 0)
    <2>. HIDE DEF here, x, m, v, q, old, held
    <2>1. ASSUME NEW i \in D PROVE ~(old[i].quantity < 0)
      <3>1. old[i].quantity \in Int
        BY DEF RequestOK, AccountOK, old
      <3>. QED BY <1>12, <3>1
    <2>2. ~(held + q < 0)
      BY <1>9
    <2>. QED BY <1>7, <2>1, <2>2 DEF IsProjection
  <1>. HIDE DEF t, x, m, v, q, old, policy, here, there, held
  <1>14. /\ (held + q) * v \in Nat /\ (held + n) * v \in Nat
         /\ (held + q) * v <= (held + n) * v
         /\ q * v \in Nat /\ n * v \in Nat /\ q * v <= n * v
    BY <1>9, LargerAmounts
  <1>15. /\ DOMAIN here.positions = D \cup {x} /\ DOMAIN there.positions = D \cup {x}
         /\ \A i \in D : i # x => here.positions[i] = there.positions[i]
    BY <1>7, <1>8 DEF IsProjection
  <1>16. /\ IsFiniteSet(D \cup {x})
         /\ \A i \in D \cup {x} : MarketValue(here.positions[i]) \in Int
         /\ MarketValue(here.positions[x]) = (held + q) * v
         /\ MarketValue(there.positions[x]) = (held + n) * v
    <2> DEFINE f == Values(old)
               h == Values(here.positions)
               k == Values(there.positions)
    <2>1. DOMAIN f = D
      BY DEF Values
    <2>2. /\ DOMAIN h = D \cup {x} /\ \A i \in D \cup {x} : h[i] = MarketValue(here.positions[i])
          /\ k[x] = MarketValue(there.positions[x])
      BY <1>15 DEF Values
    <2>. HIDE DEF f, h, k, D
    <2>3. IsFiniteSet(D \cup {x})
      BY <1>5, <2>1, FS_AddElement DEF Traded, f
    <2>4. Traded(f, h, x, v, held, q) /\ Traded(f, k, x, v, held, n)
      BY <1>5, <1>6 DEF f, h, k
    <2>5. h[x] = (held + q) * v /\ k[x] = (held + n) * v
      BY <2>4 DEF Traded
    <2>6. \A i \in D \cup {x} : h[i] \in Int
      BY <1>14, <2>1, <2>4, <2>5 DEF Traded
    <2>. QED BY <2>2, <2>3, <2>5, <2>6
  <1>17. /\ DOMAIN u = D \cup {x} /\ DOMAIN w = D \cup {x}
         /\ \A i \in D \cup {x} : u[i] \in Int
         /\ u[x] = (held + q) * v /\ w[x] = (held + n) * v
         /\ \A i \in D \cup {x} : i # x => w[i] = u[i]
    <2>1. \A i \in D \cup {x} : u[i] = Magnitude(MarketValue(here.positions[i]))
      BY <1>15
    <2>2. \A i \in D \cup {x} : w[i] = Magnitude(MarketValue(there.positions[i]))
      BY <1>15
    <2>3. \A z \in Int : Magnitude(z) \in Int
      BY DEF Magnitude
    <2>4. \A z \in Nat : Magnitude(z) = z
      BY DEF Magnitude
    <2>5. DOMAIN u = D \cup {x} /\ DOMAIN w = D \cup {x}
      BY <1>15
    <2>. HIDE DEF u, w
    <2>6. \A i \in D \cup {x} : u[i] \in Int
      BY <1>16, <2>1, <2>3
    <2>7. u[x] = (held + q) * v /\ w[x] = (held + n) * v
      BY <1>14, <1>16, <2>1, <2>2, <2>4
    <2>8. \A i \in D \cup {x} : i # x => w[i] = u[i]
      BY <1>15, <2>1, <2>2
    <2>. QED BY <2>5, <2>6, <2>7, <2>8
  <1>. HIDE DEF u, w
  <1>18. /\ Total(u) \in Int /\ Total(w) \in Int /\ Total(u) <= Total(w)
         /\ \A i \in D \cup {x} : w[i] \in Int /\ u[i] <= w[i]
    BY <1>14, <1>16, <1>17, Exposed
  <1>19. Magnitude(q) > policy.maxQuantity => Magnitude(n) > policy.maxQuantity
    BY <1>9, <1>10 DEF Magnitude
  <1>20. here.notional > policy.maxNotional => there.notional > policy.maxNotional
    BY <1>10, <1>11, <1>14 DEF Magnitude
  <1>21. here.cash < policy.minCash => there.cash < policy.minCash
    BY <1>9, <1>10, <1>11, <1>14
  <1>22. here.gross > policy.maxGross => there.gross > policy.maxGross
    BY <1>10, <1>11, <1>18
  <1>23. (\E i \in DOMAIN u : u[i] > policy.maxInstrument)
            => \E i \in DOMAIN w : w[i] > policy.maxInstrument
    BY <1>10, <1>17, <1>18
  <1>24. OrderLimits(r, here) \subseteq OrderLimits(t, there)
    BY <1>1, <1>3, <1>19, <1>20 DEF OrderLimits, q, policy
  <1>25. AccountLimits(policy, here.positions, here.cash, here.gross) \ {"CONCENTRATION_LIMIT"}
            \subseteq AccountLimits(policy, there.positions, there.cash, there.gross)
    BY <1>13, <1>21, <1>22, <1>23 DEF AccountLimits, u, w
  <1>26. Evaluate(t).reasons = Limits(t, there)
    BY <1>2, Evaluated DEF there
  <1>27. /\ Limits(r, here) = OrderLimits(r, here)
                \cup AccountLimits(policy, here.positions, here.cash, here.gross)
         /\ Limits(t, there) = OrderLimits(t, there)
                \cup AccountLimits(policy, there.positions, there.cash, there.gross)
    BY <1>3, LimitsSplit DEF policy
  <1>28. Limits(r, here) \ {"CONCENTRATION_LIMIT"} \subseteq Evaluate(t).reasons
    BY <1>24, <1>25, <1>26, <1>27
  <1>. QED BY <1>28 DEF here, t

-----------------------------------------------------------------------------
(* The head of desk.                                                        *)

(* The same request but for the facts.                                      *)
SameButFacts(d, e) ==
    /\ e.proposal = d.proposal /\ e.risk = d.risk /\ e.setup = d.setup /\ e.trend = d.trend
    /\ e.policy = d.policy /\ e.asOf = d.asOf /\ e.at = d.at

(* What nothing blocks, nothing blocks without its facts.                   *)
LEMMA FactsOnlyBlock ==
    ASSUME NEW d, NEW e, SameButFacts(d, e), e.facts = {}, Blockers(d) = {}
    PROVE  Blockers(e) = {}
  BY DEF SameButFacts, Blockers, OtherMoment

(* What nothing blocks has a verdict of its own moment and proposal.        *)
LEMMA Cleared ==
    ASSUME NEW d, Blockers(d) = {}
    PROVE  /\ d.risk # None /\ d.risk.status # "VETO" /\ d.risk.request.proposal = d.proposal
           /\ d.risk.request.asOf = d.asOf /\ d.risk.request.at = d.at
  BY DEF Blockers, OtherMoment

(* Facts never raise a disposition.                                         *)
LEMMA ComposedWithout ==
    ASSUME NEW d, NEW e, SameButFacts(d, e), e.facts = {}
    PROVE  Rank(Compose(d).disposition) <= Rank(Compose(e).disposition)
  <1>1. \A c : Compose(c).disposition \in {"QUIET", "WATCHLIST", "ALERT"}
    BY DEF Compose
  <1>2. \A c : Rank(Compose(c).disposition) \in 0 .. 2
    BY <1>1 DEF Rank
  <1>3. CASE Blockers(d) # {}
    <2>1. Compose(d).disposition = "QUIET"
      BY <1>3 DEF Compose
    <2>2. Rank("QUIET") = 0
      BY DEF Rank
    <2>3. Rank(Compose(e).disposition) \in 0 .. 2
      BY <1>2
    <2>4. Rank(Compose(d).disposition) = 0
      BY <2>1, <2>2
    <2>. QED BY <2>3, <2>4
  <1>4. CASE Blockers(d) = {}
    <2>1. Blockers(e) = {}
      BY <1>4, FactsOnlyBlock
    <2>2. Compose(e) = Compose(d)
      BY <1>4, <2>1 DEF Compose, SameButFacts
    <2>3. Rank(Compose(d).disposition) \in 0 .. 2
      BY <1>2
    <2>. QED BY <2>2, <2>3
  <1>. QED BY <1>3, <1>4

(* Nothing blocks an alert.                                                 *)
LEMMA AlertIsCleared ==
    ASSUME NEW d, Compose(d).disposition = "ALERT" PROVE Blockers(d) = {}
  BY DEF Compose

-----------------------------------------------------------------------------
(* What holds of the case whatever the order of its steps.                  *)
IsVerdict(v) == v = Evaluate(v.request) /\ RequestOK(v.request)

IsDecision(d) ==
    /\ d.request = [proposal |-> d.request.proposal, risk |-> d.request.risk,
                    setup |-> d.request.setup, trend |-> d.request.trend,
                    facts |-> d.request.facts, policy |-> d.request.policy,
                    asOf |-> d.request.asOf, at |-> d.request.at]
    /\ d.result = Compose(d.request)
    /\ d.request.risk # None => IsVerdict(d.request.risk)

(* The inductive invariant.                                                 *)
ReviewInv ==
    /\ ReviewAssumption
    /\ now \in Nat
    /\ quotes \in [Instruments -> [price : Int, valued : Nat, observed : Nat]]
    /\ account # None => AccountOK(account)
    /\ verdict # None => IsVerdict(verdict)
    /\ decision # None => IsDecision(decision)

-----------------------------------------------------------------------------
(* One lemma per step.                                                      *)
LEMMA Marked == ASSUME ReviewInv, NEW p \in MarkPrices
                PROVE  Mark(p) \in [price : Int, valued : Nat, observed : Nat]
  BY DEF ReviewInv, ReviewAssumption, Mark

(* What is observed is an account.                                          *)
LEMMA Held ==
    ASSUME ReviewInv, NEW seen \in Accounts, NEW marked
    PROVE  AccountOK([
            id |-> "paper", currency |-> "USD", effective |-> now, observed |-> now,
            cash |-> seen.cash, pending |-> IF seen.pending THEN {now} ELSE {},
            positions |-> [i \in {j \in Instruments : seen.held[j] # 0} |->
                [quantity |-> seen.held[i],
                 mark |-> IF i \in marked THEN quotes[i] ELSE None]]])
  <1> DEFINE D == {j \in Instruments : seen.held[j] # 0}
             pos == [i \in D |-> [quantity |-> seen.held[i],
                                  mark |-> IF i \in marked THEN quotes[i] ELSE None]]
  <1>1. seen.cash \in Int /\ seen.held \in [Instruments -> Int]
    BY DEF ReviewInv, ReviewAssumption
  <1>2. IsFiniteSet(D)
    BY FS_Subset DEF ReviewInv, ReviewAssumption
  <1>3. \A i \in Instruments : quotes[i].price \in Int
    BY DEF ReviewInv
  <1>4. /\ DOMAIN pos = D
        /\ \A i \in D : /\ pos[i] = [quantity |-> pos[i].quantity, mark |-> pos[i].mark]
                        /\ pos[i].quantity \in Int
                        /\ pos[i].mark # None => pos[i].mark.price \in Int
    BY <1>1, <1>3
  <1>5. pos = [i \in D |-> [quantity |-> pos[i].quantity, mark |-> pos[i].mark]]
    BY <1>4
  <1>. HIDE DEF pos, D
  <1>6. AccountOK([
            id |-> "paper", currency |-> "USD", effective |-> now, observed |-> now,
            cash |-> seen.cash, pending |-> IF seen.pending THEN {now} ELSE {},
            positions |-> pos])
    BY <1>1, <1>2, <1>4, <1>5 DEF AccountOK
  <1>. QED BY <1>6 DEF pos, D

LEMMA InitReviewInv == ReviewAssumption /\ ReviewInit => ReviewInv
  <1> SUFFICES ASSUME ReviewAssumption, ReviewInit PROVE ReviewInv
    OBVIOUS
  <1>1. \A p \in MarkPrices : Mark(p) \in [price : Int, valued : Nat, observed : Nat]
    BY DEF ReviewInit, ReviewAssumption, Mark
  <1>2. quotes \in [Instruments -> [price : Int, valued : Nat, observed : Nat]]
    BY <1>1 DEF ReviewInit
  <1>. QED BY <1>2 DEF ReviewInit, ReviewInv

LEMMA TickKeeps == ReviewInv /\ Tick => ReviewInv'
  BY DEF Tick, ReviewInv, ReviewAssumption

LEMMA QuoteKeeps == ASSUME NEW i \in Instruments PROVE ReviewInv /\ Quote(i) => ReviewInv'
  <1> SUFFICES ASSUME ReviewInv, Quote(i) PROVE ReviewInv'
    OBVIOUS
  <1>1. PICK p \in MarkPrices : quotes' = [quotes EXCEPT ![i] = Mark(p)]
    BY DEF Quote
  <1>2. quotes' \in [Instruments -> [price : Int, valued : Nat, observed : Nat]]
    BY <1>1, Marked DEF ReviewInv
  <1>. QED BY <1>2 DEF Quote, ReviewInv, ReviewAssumption

LEMMA ObserveKeeps == ReviewInv /\ Observe => ReviewInv'
  <1> SUFFICES ASSUME ReviewInv, Observe PROVE ReviewInv'
    OBVIOUS
  <1>1. AccountOK(account')
    BY Held DEF Observe
  <1>. QED BY <1>1 DEF Observe, ReviewInv, ReviewAssumption

(* What is proposed is a proposal.                                          *)
LEMMA ProposedOK ==
    ASSUME ReviewInv, NEW i \in Instruments, NEW change \in Changes
    PROVE  ProposalOK(Proposal(i, change))
  <1>1. quotes[i] \in [price : Int, valued : Nat, observed : Nat] /\ change \in Int
    BY DEF ReviewInv, ReviewAssumption
  <1>2. quotes[i].price \in Int /\ quotes[i] # None
    BY <1>1 DEF None
  <1>. QED BY <1>1, <1>2 DEF ProposalOK, Proposal

LEMMA ReviewKeeps ==
    ASSUME NEW i \in Instruments, NEW change \in Changes
    PROVE  ReviewInv /\ Review(i, change) => ReviewInv'
  <1> SUFFICES ASSUME ReviewInv, Review(i, change) PROVE ReviewInv'
    OBVIOUS
  <1>1. PICK asOf \in {now, now - 1} :
            verdict' = Evaluate([account |-> account,
                        context |-> [asOf |-> account.observed, at |-> account.observed],
                        proposal |-> Proposal(i, change), policy |-> RiskPolicy,
                        asOf |-> asOf, at |-> now])
    BY DEF Review
  <1> DEFINE request == [account |-> account,
                        context |-> [asOf |-> account.observed, at |-> account.observed],
                        proposal |-> Proposal(i, change), policy |-> RiskPolicy,
                        asOf |-> asOf, at |-> now]
  <1>2. PolicyOK(RiskPolicy)
    BY DEF PolicyOK, ReviewInv, ReviewAssumption
  <1>3. ProposalOK(Proposal(i, change)) /\ AccountOK(account)
    BY ProposedOK DEF Review, ReviewInv
  <1>4. RequestOK(request)
    BY <1>2, <1>3 DEF RequestOK
  <1>. HIDE DEF request
  <1>5. verdict' = Evaluate(request)
    BY <1>1 DEF request
  <1>6. IsVerdict(verdict')
    BY <1>4, <1>5, Evaluated DEF IsVerdict
  <1>. QED BY <1>6 DEF Review, ReviewInv, ReviewAssumption

LEMMA ReportsKeep ==
    ASSUME NEW i \in Reported
    PROVE  ReviewInv /\ (ReportSetup(i) \/ ReportTrend(i)) => ReviewInv'
  BY DEF ReportSetup, ReportTrend, ReviewInv, ReviewAssumption

LEMMA DecideKeeps == ReviewInv /\ Decide => ReviewInv'
  <1> SUFFICES ASSUME ReviewInv, Decide PROVE ReviewInv'
    OBVIOUS
  <1>1. PICK proposal, facts :
            decision' = [request |-> Request(proposal, facts),
                         result |-> Compose(Request(proposal, facts))]
    BY DEF Decide
  <1> DEFINE d == Request(proposal, facts)
  <1>2. /\ d = [proposal |-> d.proposal, risk |-> d.risk, setup |-> d.setup,
                trend |-> d.trend, facts |-> d.facts, policy |-> d.policy,
                asOf |-> d.asOf, at |-> d.at]
        /\ d.risk = verdict
    BY DEF Request
  <1>. HIDE DEF d
  <1>3. decision' = [request |-> d, result |-> Compose(d)]
    BY <1>1 DEF d
  <1>4. verdict # None => IsVerdict(verdict)
    BY DEF ReviewInv
  <1>5. IsDecision(decision')
    BY <1>2, <1>3, <1>4 DEF IsDecision
  <1>. QED BY <1>5 DEF Decide, ReviewInv, ReviewAssumption

LEMMA ReviewStepKeeps == ReviewInv /\ [ReviewNext]_reviewVars => ReviewInv'
  <1> SUFFICES ASSUME ReviewInv, [ReviewNext]_reviewVars PROVE ReviewInv'
    OBVIOUS
  <1>1. CASE UNCHANGED reviewVars
    BY <1>1 DEF reviewVars, ReviewInv, ReviewAssumption
  <1>2. CASE ReviewNext
    BY <1>2, TickKeeps, ObserveKeeps, DecideKeeps, QuoteKeeps, ReviewKeeps, ReportsKeep DEF ReviewNext
  <1>. QED BY <1>1, <1>2

-----------------------------------------------------------------------------
(* The properties follow.                                                   *)
LEMMA Conserves == ReviewInv => EquityIsConserved
  <1> SUFFICES ASSUME ReviewInv, Projecting PROVE
        verdict.projection.cash + Total(Values(verdict.projection.positions))
            = Portfolio(verdict.request.account).equity
    BY DEF EquityIsConserved
  <1>1. PICK r : r = verdict.request
    OBVIOUS
  <1>2. verdict = Evaluate(r) /\ RequestOK(r)
    BY <1>1 DEF ReviewInv, Projecting, IsVerdict
  <1>3. Prerequisites(r) = {} /\ verdict.projection = Project(r)
    BY <1>2, Evaluated DEF Projecting
  <1>. QED BY <1>1, <1>2, <1>3, EquityStays

LEMMA NotEvaded == ReviewInv => LimitsCannotBeEvaded
  <1> SUFFICES ASSUME ReviewInv PROVE SplittingEvadesOnlyOrderLimits /\ LargerBuysAreNotSafer
    BY DEF LimitsCannotBeEvaded
  <1>1. PICK r : r = verdict.request
    OBVIOUS
  <1>2. verdict # None => verdict = Evaluate(r) /\ RequestOK(r)
    BY <1>1 DEF ReviewInv, IsVerdict
  <1>3. Changes \subseteq Int
    BY DEF ReviewInv, ReviewAssumption
  <1>4. SplittingEvadesOnlyOrderLimits
    <2> SUFFICES ASSUME Passing, NEW change \in Changes,
                        Evaluate(Then(r, change)).status = "PASS_CHECKS"
                 PROVE  Evaluate(Both(r, change)).reasons
                            \subseteq {"QUANTITY_LIMIT", "PROPOSAL_NOTIONAL_LIMIT"}
      BY <1>1 DEF SplittingEvadesOnlyOrderLimits, Then, Both
    <2>. QED BY <1>2, <1>3, TwoInOne DEF Passing
  <1>5. LargerBuysAreNotSafer
    <2> SUFFICES ASSUME Projecting, r.proposal.quantity > 0,
                        \A i \in DOMAIN r.account.positions :
                            r.account.positions[i].quantity >= 0,
                        NEW more \in Changes, more > r.proposal.quantity
                 PROVE  verdict.reasons \ {"CONCENTRATION_LIMIT"}
                            \subseteq Evaluate([r EXCEPT !.proposal.quantity = more]).reasons
      BY <1>1 DEF LargerBuysAreNotSafer
    <2>1. Prerequisites(r) = {} /\ verdict.reasons = Limits(r, Project(r))
      BY <1>2, Evaluated DEF Projecting
    <2>. QED BY <1>2, <1>3, <2>1, LargerBuy DEF Projecting
  <1>. QED BY <1>4, <1>5

LEMMA Earned == ReviewInv => AlertsAreEarned
  <1> SUFFICES ASSUME ReviewInv PROVE AlertsRestOnAPresentPass /\ FactsNeverPromote
    BY DEF AlertsAreEarned
  <1>1. PICK d : d = decision.request
    OBVIOUS
  <1>2. decision # None =>
            /\ decision.result = Compose(d)
            /\ d = [proposal |-> d.proposal, risk |-> d.risk, setup |-> d.setup,
                    trend |-> d.trend, facts |-> d.facts, policy |-> d.policy,
                    asOf |-> d.asOf, at |-> d.at]
            /\ d.risk # None => IsVerdict(d.risk)
    BY <1>1 DEF ReviewInv, IsDecision
  <1>3. AlertsRestOnAPresentPass
    <2> SUFFICES ASSUME Alerting
                 PROVE  /\ d.risk.request.proposal = d.proposal
                        /\ Evaluate([d.risk.request EXCEPT !.asOf = d.asOf, !.at = d.at]).status
                                = "PASS_CHECKS"
      BY <1>1 DEF AlertsRestOnAPresentPass
    <2>1. Compose(d).disposition = "ALERT"
      BY <1>2 DEF Alerting
    <2>2. /\ d.risk # None /\ d.risk.status # "VETO" /\ d.risk.request.proposal = d.proposal
          /\ d.risk.request.asOf = d.asOf /\ d.risk.request.at = d.at
      BY <2>1, AlertIsCleared, Cleared
    <2>3. IsVerdict(d.risk)
      BY <1>2, <2>2 DEF Alerting
    <2>4. PICK r : r = d.risk.request
      OBVIOUS
    <2>5. r = [account |-> r.account, context |-> r.context, proposal |-> r.proposal,
               policy |-> r.policy, asOf |-> r.asOf, at |-> r.at]
      BY <2>3, <2>4 DEF IsVerdict, RequestOK
    <2>6. [r EXCEPT !.asOf = d.asOf, !.at = d.at] = r
      BY <2>2, <2>4, <2>5
    <2>7. Evaluate(r).status = "PASS_CHECKS"
      BY <2>2, <2>3, <2>4, Evaluated DEF IsVerdict
    <2>. QED BY <2>2, <2>4, <2>6, <2>7
  <1>4. FactsNeverPromote
    <2> SUFFICES ASSUME decision # None
                 PROVE  Rank(decision.result.disposition)
                            <= Rank(Compose([d EXCEPT !.facts = {}]).disposition)
      BY <1>1 DEF FactsNeverPromote
    <2>1. PICK e : e = [d EXCEPT !.facts = {}]
      OBVIOUS
    <2>2. SameButFacts(d, e) /\ e.facts = {}
      BY <1>2, <2>1 DEF SameButFacts
    <2>. QED BY <1>2, <2>1, <2>2, ComposedWithout
  <1>. QED BY <1>3, <1>4

-----------------------------------------------------------------------------
(* The reasons of a verdict and the answers of the head of desk.            *)
LEMMA GateReasons ==
    ASSUME NEW r
    PROVE  /\ Evaluate(r).reasons \subseteq Reasons
           /\ (Evaluate(r).status = "PASS_CHECKS") = (Evaluate(r).reasons = {})
           /\ Evaluate(r).projection = None => Evaluate(r).reasons # {}
  <1>1. Prerequisites(r) \subseteq Reasons
    BY DEF Prerequisites, Reasons
  <1>2. Limits(r, Project(r)) \subseteq Reasons
    BY DEF Limits, Reasons
  <1>3. Project(r) # None
    BY DEF Project, None
  <1>. QED BY <1>1, <1>2, <1>3 DEF Evaluate

LEMMA DeskAnswers ==
    ASSUME NEW d
    PROVE  /\ Compose(d).disposition \in {"QUIET", "WATCHLIST", "ALERT"}
           /\ Compose(d).reasons # {}
  BY DEF Compose

ReviewShapes ==
    /\ now \in Times
    /\ quotes \in [Instruments -> [price : MarkPrices, valued : Times, observed : Times]]
    /\ account # None => account.observed \in Times

LEMMA ShapesStep ==
    ASSUME ReviewInv, ReviewShapes, [ReviewNext]_reviewVars PROVE ReviewShapes'
  <1>1. CASE UNCHANGED reviewVars
    BY <1>1 DEF reviewVars, ReviewShapes
  <1>2. CASE Tick
    <2>1. MaxTime \in Nat
      BY DEF ReviewInv, ReviewAssumption
    <2>. QED BY <1>2, <2>1 DEF Tick, ReviewShapes, Times
  <1>3. ASSUME NEW i \in Instruments, Quote(i) PROVE ReviewShapes'
    <2>1. PICK p \in MarkPrices : quotes' = [quotes EXCEPT ![i] = Mark(p)]
      BY <1>3 DEF Quote
    <2>2. Mark(p) \in [price : MarkPrices, valued : Times, observed : Times]
      BY DEF Mark, ReviewShapes
    <2>. QED BY <1>3, <2>1, <2>2 DEF Quote, ReviewShapes
  <1>4. CASE Observe
    BY <1>4 DEF Observe, ReviewShapes
  <1>5. ASSUME NEW i \in Instruments, NEW c \in Changes, Review(i, c) PROVE ReviewShapes'
    BY <1>5 DEF Review, ReviewShapes
  <1>6. ASSUME NEW i \in Reported, ReportSetup(i) \/ ReportTrend(i) PROVE ReviewShapes'
    BY <1>6 DEF ReportSetup, ReportTrend, ReviewShapes
  <1>7. CASE Decide
    BY <1>7 DEF Decide, ReviewShapes
  <1>. QED BY <1>1, <1>2, <1>3, <1>4, <1>5, <1>6, <1>7 DEF ReviewNext

LEMMA InvIsTyped == ReviewInv /\ ReviewShapes => ReviewTypeOK
  <1> SUFFICES ASSUME ReviewInv, ReviewShapes PROVE ReviewTypeOK
    OBVIOUS
  <1>1. verdict # None => \E r : verdict = Evaluate(r)
    BY DEF ReviewInv, IsVerdict
  <1>2. decision # None => \E d : decision.result = Compose(d)
    BY DEF ReviewInv, IsDecision
  <1>. QED BY <1>1, <1>2, GateReasons, DeskAnswers DEF ReviewTypeOK, ReviewShapes

-----------------------------------------------------------------------------
(* A case keeps its verdict and its decision the answers to their requests. *)
THEOREM ReviewInvariant == ReviewAssumption /\ ReviewSpec => []ReviewInv
  BY InitReviewInv, ReviewStepKeeps, PTL DEF ReviewSpec

(* The values a case keeps have their types, and a verdict passes exactly   *)
(* when it names no reason.                                                 *)
THEOREM ReviewTypeCorrect == ReviewAssumption /\ ReviewSpec => []ReviewTypeOK
  <1>1. ReviewAssumption /\ ReviewInit => ReviewShapes
    BY DEF ReviewAssumption, ReviewInit, ReviewShapes, Times, Mark
  <1>. QED BY <1>1, ShapesStep, InvIsTyped, ReviewInvariant, PTL DEF ReviewSpec

(* A projection makes no money: its cash and positions are worth what the   *)
(* account was worth, for any account, marks and policy.                    *)
THEOREM EquityConserved == ReviewAssumption /\ ReviewSpec => []EquityIsConserved
  BY ReviewInvariant, Conserves, PTL

(* Neither splitting an order nor making it larger gets around a limit of   *)
(* the gate, whatever the limits and the amounts.                           *)
THEOREM LimitsHold == ReviewAssumption /\ ReviewSpec => []LimitsCannotBeEvaded
  BY ReviewInvariant, NotEvaded, PTL

(* An alert rests on a verdict that would be given again at its moment, and *)
(* facts never promote a proposal, in any order of reviews and reports.     *)
THEOREM AlertsEarned == ReviewAssumption /\ ReviewSpec => []AlertsAreEarned
  BY ReviewInvariant, Earned, PTL

-----------------------------------------------------------------------------
(* No row, and nothing left for the broker.                                *)
Unsent(o) == ~Present(o) /\ posted[o] = 0 /\ broker[o] = "NONE"
IsApproved(o) == \E i \in 1 .. Len(approved) : approved[i] = o
Distinct(s) == \A i, j \in 1 .. Len(s) : s[i] = s[j] => i = j

(* The shapes the argument needs; the statuses of rows do not matter to it. *)
Types ==
    /\ fresh \subseteq Orders
    /\ approved \in Seq(Orders)
    /\ journal = [o \in Orders |-> [status |-> journal[o].status, known |-> journal[o].known]]
    /\ broker \in [Orders -> BrokerStatuses]
    /\ posted \in [Orders -> Nat]
    /\ task = [t \in Threads |-> task[t]]

(* What may still be placed was never placed, and can be placed once.       *)
ApprovalsAreUnsent ==
    /\ Distinct(approved)
    /\ \A o \in Orders : o \in fresh => Unsent(o) /\ ~IsApproved(o)
    /\ \A o \in Orders : IsApproved(o) => Unsent(o)

(* A request about to POST is the only one for its order, and the first.    *)
PostsAreFirst ==
    /\ \A t \in Threads : task[t].pc = "post" =>
        /\ task[t].order \in Orders
        /\ Present(task[t].order)
        /\ posted[task[t].order] = 0 /\ broker[task[t].order] = "NONE"
    /\ \A t, u \in Threads :
        (task[t].pc = "post" /\ task[u].pc = "post" /\ task[t].order = task[u].order) => t = u

(* Later steps of requests write rows that exist.                           *)
RequestsAreJournalled ==
    \A t \in Threads : task[t].pc \in {"record", "cancel", "mark"} =>
        task[t].order \in Orders /\ Present(task[t].order)

(* The inductive invariant.                                                 *)
IInv ==
    /\ Types
    /\ ApprovalsAreUnsent
    /\ PostsAreFirst
    /\ RequestsAreJournalled
    /\ SentOnceAndJournalled

-----------------------------------------------------------------------------
(* The three ways the approvals change, and what they contain afterwards.   *)

LEMMA AppendApproval ==
    ASSUME NEW S, NEW s \in Seq(S), NEW o \in S, Distinct(s),
           \A i \in 1 .. Len(s) : s[i] # o
    PROVE  /\ Append(s, o) \in Seq(S)
           /\ Distinct(Append(s, o))
           /\ \A i \in 1 .. Len(Append(s, o)) :
                Append(s, o)[i] = o \/ \E j \in 1 .. Len(s) : s[j] = Append(s, o)[i]
  BY DEF Distinct

(* The oldest approval evicted.                                             *)
LEMMA DropApproval ==
    ASSUME NEW S, NEW s \in Seq(S), s # <<>>, Distinct(s)
    PROVE  /\ Tail(s) \in Seq(S)
           /\ Distinct(Tail(s))
           /\ \A i \in 1 .. Len(Tail(s)) : \E j \in 1 .. Len(s) : s[j] = Tail(s)[i]
  <1>1. Tail(s) \in Seq(S) /\ Len(Tail(s)) = Len(s) - 1 /\ Len(s) \in Nat
    OBVIOUS
  <1>2. \A i \in 1 .. Len(Tail(s)) : i + 1 \in 1 .. Len(s) /\ Tail(s)[i] = s[i + 1]
    BY <1>1
  <1>3. Distinct(Tail(s))
    BY <1>1, <1>2 DEF Distinct
  <1>. QED BY <1>1, <1>2, <1>3

(* What SubSeq and \o leave to spell out in the next lemma.                 *)
LEMMA Joined ==
    ASSUME NEW S, NEW a \in Seq(S), NEW b \in Seq(S)
    PROVE  a \o b \in Seq(S) /\ Len(a \o b) = Len(a) + Len(b)
  OBVIOUS

(* A sequence without one of its elements.                                  *)
LEMMA Removed ==
    ASSUME NEW S, NEW s \in Seq(S), NEW k \in 1 .. Len(s)
    PROVE  /\ RemoveAt(s, k) \in Seq(S)
           /\ Len(RemoveAt(s, k)) = Len(s) - 1
           /\ \A i \in 1 .. Len(s) - 1 :
                RemoveAt(s, k)[i] = IF i < k THEN s[i] ELSE s[i + 1]
  <1>. DEFINE a == SubSeq(s, 1, k - 1)
              b == SubSeq(s, k + 1, Len(s))
  <1>0. Len(s) \in Nat /\ k \in Nat /\ 1 <= k /\ k <= Len(s)
    OBVIOUS
  <1>1. /\ a \in Seq(S) /\ Len(a) = k - 1
        /\ \A i \in 1 .. k - 1 : a[i] = s[i]
    BY <1>0
  <1>2. /\ b \in Seq(S) /\ Len(b) = Len(s) - k
        /\ \A i \in 1 .. Len(s) - k : b[i] = s[k + i]
    BY <1>0
  <1>3. RemoveAt(s, k) = a \o b
    BY DEF RemoveAt
  <1>. HIDE DEF a, b
  <1>4. a \o b \in Seq(S) /\ Len(a \o b) = Len(s) - 1
    <2>1. a \o b \in Seq(S) /\ Len(a \o b) = Len(a) + Len(b)
      BY <1>1, <1>2, Joined
    <2>2. Len(a) + Len(b) = Len(s) - 1
      BY <1>0, <1>1, <1>2
    <2>. QED BY <2>1, <2>2
  <1>5. ASSUME NEW i \in 1 .. Len(s) - 1, i < k PROVE (a \o b)[i] = s[i]
    BY <1>0, <1>1, <1>2, <1>5
  <1>6. ASSUME NEW i \in 1 .. Len(s) - 1, ~(i < k) PROVE (a \o b)[i] = s[i + 1]
    <2>1. i - k + 1 \in 1 .. Len(s) - k /\ k + (i - k + 1) = i + 1
      BY <1>0, <1>6
    <2>2. (a \o b)[i] = b[i - k + 1]
      <3>1. i > Len(a) /\ i - Len(a) = i - k + 1 /\ i <= Len(a) + Len(b)
        BY <1>0, <1>1, <1>2, <1>6
      <3>. QED BY <1>0, <1>1, <1>2, <3>1
    <2>. QED BY <1>2, <2>1, <2>2
  <1>. QED BY <1>3, <1>4, <1>5, <1>6

(* One approval popped: its order is no longer approved.                    *)
LEMMA UseApproval ==
    ASSUME NEW S, NEW s \in Seq(S), NEW k \in 1 .. Len(s), Distinct(s)
    PROVE  /\ RemoveAt(s, k) \in Seq(S)
           /\ Distinct(RemoveAt(s, k))
           /\ \A i \in 1 .. Len(RemoveAt(s, k)) :
                /\ RemoveAt(s, k)[i] # s[k]
                /\ \E j \in 1 .. Len(s) : s[j] = RemoveAt(s, k)[i]
  <1>. DEFINE r == RemoveAt(s, k)
  <1>1. /\ r \in Seq(S) /\ Len(r) = Len(s) - 1
        /\ \A i \in 1 .. Len(s) - 1 : r[i] = IF i < k THEN s[i] ELSE s[i + 1]
    BY Removed
  <1>2. Len(s) \in Nat /\ k \in Nat /\ 1 <= k /\ k <= Len(s)
    OBVIOUS
  <1>. HIDE DEF r
  <1>3. \A i \in 1 .. Len(s) - 1 : i \in 1 .. Len(s) /\ i + 1 \in 1 .. Len(s)
    BY <1>2
  <1>4. Distinct(r)
    <2> SUFFICES ASSUME NEW i \in 1 .. Len(s) - 1, NEW j \in 1 .. Len(s) - 1, r[i] = r[j]
                 PROVE  i = j
      BY <1>1 DEF Distinct
    <2> DEFINE to(n) == IF n < k THEN n ELSE n + 1
    <2>1. to(i) \in 1 .. Len(s) /\ to(j) \in 1 .. Len(s)
      BY <1>3
    <2>2. s[to(i)] = s[to(j)]
      BY <1>1
    <2>3. to(i) = to(j)
      BY <2>1, <2>2 DEF Distinct
    <2>. QED BY <1>2, <2>3
  <1>5. \A i \in 1 .. Len(s) - 1 : r[i] # s[k]
    BY <1>1, <1>2, <1>3 DEF Distinct
  <1>6. \A i \in 1 .. Len(r) : r[i] # s[k] /\ \E j \in 1 .. Len(s) : s[j] = r[i]
    BY <1>1, <1>3, <1>5
  <1>. QED BY <1>1, <1>4, <1>6 DEF r

-----------------------------------------------------------------------------
(* One lemma per action.  Steps that leave rows, broker and approvals alone *)
(* only change what the requests do next.                                   *)

(* A step that only changes what request t does next preserves IInv.        *)
LEMMA OtherStepInv ==
    ASSUME IInv, NEW t \in Threads, NEW value,
           Become(t, value), value.pc \notin {"post", "record"},
           value.pc \in {"cancel", "mark"} => value.order \in Orders /\ Present(value.order),
           UNCHANGED <<fresh, approved, journal, broker, posted>>
    PROVE  IInv'
  <1>1. /\ task'[t] = value
        /\ \A u \in Threads : u # t => task'[u] = task[u]
        /\ task' = [u \in Threads |-> task'[u]]
    BY DEF Become, IInv, Types
  <1>2. Types' /\ ApprovalsAreUnsent' /\ SentOnceAndJournalled'
    BY <1>1 DEF IInv, Types, ApprovalsAreUnsent, SentOnceAndJournalled, Unsent,
                IsApproved, Present
  <1>3. PostsAreFirst' /\ RequestsAreJournalled'
    BY <1>1 DEF IInv, PostsAreFirst, RequestsAreJournalled, Present
  <1>. QED BY <1>2, <1>3 DEF IInv

(* Storing an approval, evicting the oldest beyond the cap.                 *)
LEMMA ApproveInv == ASSUME IInv, NEW o \in Orders, Approve(o) PROVE IInv'
  <1>. DEFINE all == Append(approved, o)
  <1>1. /\ approved \in Seq(Orders) /\ Distinct(approved) /\ Unsent(o)
        /\ \A i \in 1 .. Len(approved) : approved[i] # o
    BY DEF IInv, Types, ApprovalsAreUnsent, IsApproved, Approve
  <1>2. /\ all \in Seq(Orders) /\ Distinct(all) /\ all # <<>>
        /\ \A i \in 1 .. Len(all) :
            all[i] = o \/ \E j \in 1 .. Len(approved) : approved[j] = all[i]
    BY <1>1, AppendApproval
  <1>. HIDE DEF all
  <1>3. /\ approved' \in Seq(Orders) /\ Distinct(approved')
        /\ \A i \in 1 .. Len(approved') :
            approved'[i] = o \/ \E j \in 1 .. Len(approved) : approved[j] = approved'[i]
    <2>1. CASE approved' = all
      BY <1>2, <2>1
    <2>2. CASE approved' = Tail(all)
      <3>1. /\ Tail(all) \in Seq(Orders) /\ Distinct(Tail(all))
            /\ \A i \in 1 .. Len(Tail(all)) : \E j \in 1 .. Len(all) : all[j] = Tail(all)[i]
        BY <1>2, DropApproval
      <3>. QED BY <1>2, <2>2, <3>1
    <2>. QED BY <2>1, <2>2 DEF Approve, all
  <1>4. fresh' = fresh \ {o} /\ UNCHANGED <<journal, broker, posted, task>>
    BY DEF Approve
  <1>5. \A q \in Orders : IsApproved(q)' => q = o \/ IsApproved(q)
    BY <1>3 DEF IsApproved
  <1>6. Types'
    BY <1>3, <1>4 DEF IInv, Types
  <1>7. ApprovalsAreUnsent'
    BY <1>1, <1>3, <1>4, <1>5 DEF IInv, ApprovalsAreUnsent, Unsent, Present
  <1>8. PostsAreFirst' /\ RequestsAreJournalled' /\ SentOnceAndJournalled'
    BY <1>4 DEF IInv, PostsAreFirst, RequestsAreJournalled, SentOnceAndJournalled, Present
  <1>. QED BY <1>6, <1>7, <1>8 DEF IInv

(* Consuming the approval and writing PENDING, or failing in between.       *)
LEMMA PlaceInv ==
    ASSUME IInv, NEW t \in Threads, NEW o \in Orders, Place(t, o) PROVE IInv'
  <1>. PICK k \in 1 .. Len(approved) : approved[k] = o /\ approved' = RemoveAt(approved, k)
    BY DEF Place
  <1>1. approved \in Seq(Orders) /\ Distinct(approved) /\ Unsent(o) /\ o \notin fresh
    BY DEF IInv, Types, ApprovalsAreUnsent, IsApproved
  <1>2. /\ approved' \in Seq(Orders) /\ Distinct(approved')
        /\ \A q \in Orders : IsApproved(q)' => q # o /\ IsApproved(q)
    <2>1. /\ RemoveAt(approved, k) \in Seq(Orders)
          /\ Distinct(RemoveAt(approved, k))
          /\ \A i \in 1 .. Len(RemoveAt(approved, k)) :
                /\ RemoveAt(approved, k)[i] # approved[k]
                /\ \E j \in 1 .. Len(approved) : approved[j] = RemoveAt(approved, k)[i]
      BY <1>1, UseApproval
    <2>. QED BY <2>1 DEF IsApproved
  <1>3. UNCHANGED <<fresh, broker, posted>>
    BY DEF Place
  <1>4. CASE UNCHANGED <<journal, created, task>>
    <2>1. Types' /\ ApprovalsAreUnsent'
      BY <1>1, <1>2, <1>3, <1>4 DEF IInv, Types, ApprovalsAreUnsent, Unsent, Present
    <2>2. PostsAreFirst' /\ RequestsAreJournalled' /\ SentOnceAndJournalled'
      BY <1>3, <1>4
         DEF IInv, PostsAreFirst, RequestsAreJournalled, SentOnceAndJournalled, Present
    <2>. QED BY <2>1, <2>2 DEF IInv
  <1>5. CASE /\ journal' = [journal EXCEPT ![o] = [status |-> "PENDING", known |-> FALSE]]
             /\ Become(t, [pc |-> "post", order |-> o])
    <2>1. /\ journal' = [q \in Orders |-> [status |-> journal'[q].status,
                                            known |-> journal'[q].known]]
          /\ Present(o)'
          /\ \A q \in Orders : q # o => journal'[q] = journal[q]
      BY <1>5 DEF IInv, Types, Present, NoRow
    <2>2. /\ task'[t] = [pc |-> "post", order |-> o]
          /\ \A u \in Threads : u # t => task'[u] = task[u]
          /\ task' = [u \in Threads |-> task'[u]]
      BY <1>5 DEF Become, IInv, Types
    <2>3. Types'
      BY <1>2, <1>3, <2>1, <2>2 DEF IInv, Types
    <2>4. ApprovalsAreUnsent'
      BY <1>1, <1>2, <1>3, <2>1 DEF IInv, ApprovalsAreUnsent, Unsent, Present
    <2>5. \A q \in Orders : Present(q) => Present(q)'
      BY <2>1 DEF Present
    <2>6. PostsAreFirst'
      <3>1. \A u \in Threads : u # t /\ task'[u].pc = "post" => task'[u].order # o
        BY <1>1, <2>2 DEF IInv, PostsAreFirst, Unsent
      <3>. QED BY SMTT(20), <1>1, <1>3, <2>1, <2>2, <2>5, <3>1 DEF IInv, PostsAreFirst, Unsent
    <2>7. RequestsAreJournalled'
      BY <2>2, <2>5 DEF IInv, RequestsAreJournalled
    <2>8. SentOnceAndJournalled'
      BY <1>3, <2>5 DEF IInv, SentOnceAndJournalled
    <2>. QED BY <2>3, <2>4, <2>6, <2>7, <2>8 DEF IInv
  <1>. QED BY <1>4, <1>5 DEF Place

(* The POST, whatever the broker does with it.                              *)
LEMMA PostInv == ASSUME IInv, NEW t \in Threads, Post(t) PROVE IInv'
  <1>. DEFINE o == task[t].order
  <1>1. /\ o \in Orders /\ Present(o) /\ posted[o] = 0
        /\ \A u \in Threads : u # t /\ task[u].pc = "post" => task[u].order # o
    BY DEF IInv, PostsAreFirst, Post
  <1>. PICK sent \in {0, 1}, outcome \in {"NEW", "NONE", "IN_FLIGHT"}, receipt \in BOOLEAN :
            /\ posted' = [posted EXCEPT ![o] = @ + sent]
            /\ broker' = [broker EXCEPT ![o] = outcome]
            /\ Become(t, [pc |-> "record", order |-> o, receipt |-> receipt])
    BY DEF Post
  <1>2. UNCHANGED <<fresh, approved, journal>>
    BY DEF Post
  <1>. HIDE DEF o
  <1>3. /\ task'[t] = [pc |-> "record", order |-> o, receipt |-> receipt]
        /\ \A u \in Threads : u # t => task'[u] = task[u]
        /\ task' = [u \in Threads |-> task'[u]]
    BY DEF Become, IInv, Types
  <1>4. /\ posted' \in [Orders -> Nat] /\ posted'[o] = sent
        /\ broker' \in [Orders -> BrokerStatuses]
        /\ \A q \in Orders : q # o => posted'[q] = posted[q] /\ broker'[q] = broker[q]
    BY <1>1 DEF IInv, Types, BrokerStatuses, Working
  <1>5. Types'
    BY <1>2, <1>3, <1>4 DEF IInv, Types
  <1>6. ApprovalsAreUnsent'
    BY <1>1, <1>2, <1>4 DEF IInv, ApprovalsAreUnsent, Unsent, IsApproved, Present
  <1>7. PostsAreFirst'
    BY <1>1, <1>2, <1>3, <1>4 DEF IInv, PostsAreFirst, Present
  <1>8. RequestsAreJournalled'
    BY <1>1, <1>2, <1>3 DEF IInv, RequestsAreJournalled, Present
  <1>9. SentOnceAndJournalled'
    BY <1>1, <1>2, <1>4 DEF IInv, SentOnceAndJournalled, Present
  <1>. QED BY <1>5, <1>6, <1>7, <1>8, <1>9 DEF IInv

(* A step that only rewrites the row of an order that has one.              *)
LEMMA RewriteInv ==
    ASSUME IInv, NEW t \in Threads, NEW o \in Orders, NEW status, NEW known, NEW value,
           Present(o), [status |-> status, known |-> known] # NoRow,
           journal' = [journal EXCEPT ![o] = [status |-> status, known |-> known]],
           Become(t, value), value.pc \notin {"post", "record", "cancel", "mark"},
           UNCHANGED <<fresh, approved, broker, posted>>
    PROVE  IInv'
  <1>1. /\ task'[t] = value
        /\ \A u \in Threads : u # t => task'[u] = task[u]
        /\ task' = [u \in Threads |-> task'[u]]
    BY DEF Become, IInv, Types
  <1>2. /\ journal' = [q \in Orders |-> [status |-> journal'[q].status,
                                          known |-> journal'[q].known]]
        /\ \A q \in Orders : Present(q)' <=> Present(q)
    BY DEF IInv, Types, Present
  <1>3. Types'
    BY <1>1, <1>2 DEF IInv, Types
  <1>4. ApprovalsAreUnsent' /\ SentOnceAndJournalled'
    BY <1>2 DEF IInv, ApprovalsAreUnsent, SentOnceAndJournalled, Unsent, IsApproved
  <1>5. PostsAreFirst' /\ RequestsAreJournalled'
    BY <1>1, <1>2 DEF IInv, PostsAreFirst, RequestsAreJournalled
  <1>. QED BY <1>3, <1>4, <1>5 DEF IInv

(* The outcome over the PENDING row.                                        *)
LEMMA RecordInv == ASSUME IInv, NEW t \in Threads, RecordOutcome(t) PROVE IInv'
  <1>. DEFINE o == task[t].order
  <1>1. o \in Orders /\ Present(o)
    BY DEF IInv, RequestsAreJournalled, RecordOutcome
  <1>2. UNCHANGED <<fresh, approved, broker, posted>> /\ Become(t, Idle)
    BY DEF RecordOutcome
  <1>3. Idle.pc \notin {"post", "record", "cancel", "mark"}
    BY DEF Idle
  <1>4. CASE journal' = [journal EXCEPT ![o] = [status |-> "ACCEPTED", known |-> TRUE]]
    <2>1. [status |-> "ACCEPTED", known |-> TRUE] # NoRow
      BY DEF NoRow
    <2>. QED BY <1>1, <1>2, <1>3, <1>4, <2>1, RewriteInv
  <1>5. CASE journal' = [journal EXCEPT ![o] = [status |-> "REJECTED_OR_UNKNOWN", known |-> FALSE]]
    <2>1. [status |-> "REJECTED_OR_UNKNOWN", known |-> FALSE] # NoRow
      BY DEF NoRow
    <2>. QED BY <1>1, <1>2, <1>3, <1>5, <2>1, RewriteInv
  <1>. QED BY <1>4, <1>5 DEF RecordOutcome

(* A refreshed status over a known row.                                     *)
LEMMA SyncUpdateInv == ASSUME IInv, NEW t \in Threads, SyncUpdate(t) PROVE IInv'
  <1>. DEFINE h == Head(task[t].left)
              value == IF Len(task[t].left) = 1 THEN Idle
                       ELSE [pc |-> "ask", left |-> Tail(task[t].left)]
  <1>1. /\ UNCHANGED <<fresh, approved, broker, posted>> /\ Become(t, value)
        /\ journal[h].known
        /\ journal' = [journal EXCEPT ![h] = [status |-> task[t].status, known |-> @.known]]
    BY DEF SyncUpdate
  <1>2. value.pc \notin {"post", "record", "cancel", "mark"}
    BY DEF Idle
  <1>. HIDE DEF h, value
  <1>3. CASE h \in Orders
    <2>1. journal' = [journal EXCEPT ![h] = [status |-> task[t].status,
                                              known |-> journal[h].known]]
      BY <1>1
    <2>2. Present(h) /\ [status |-> task[t].status, known |-> journal[h].known] # NoRow
      BY <1>1 DEF Present, NoRow
    <2>. QED BY <1>1, <1>2, <1>3, <2>1, <2>2, RewriteInv
  <1>4. CASE h \notin Orders
    <2>1. journal' = journal
      BY <1>1, <1>4 DEF IInv, Types
    <2>. QED BY <1>1, <1>2, <2>1, OtherStepInv
  <1>. QED BY <1>3, <1>4

(* CANCEL_REQUESTED over a row.                                             *)
LEMMA CancelMarkInv == ASSUME IInv, NEW t \in Threads, CancelMark(t) PROVE IInv'
  <1>. DEFINE o == task[t].order
  <1>1. /\ UNCHANGED <<fresh, approved, broker, posted>> /\ Become(t, Idle)
        /\ journal' = [journal EXCEPT ![o] = [status |-> "CANCEL_REQUESTED", known |-> @.known]]
    BY DEF CancelMark
  <1>2. o \in Orders /\ Present(o)
    BY DEF IInv, RequestsAreJournalled, CancelMark
  <1>. HIDE DEF o
  <1>3. journal' = [journal EXCEPT ![o] = [status |-> "CANCEL_REQUESTED",
                                            known |-> journal[o].known]]
    BY <1>1
  <1>4. [status |-> "CANCEL_REQUESTED", known |-> journal[o].known] # NoRow
    BY DEF NoRow
  <1>5. Idle.pc \notin {"post", "record", "cancel", "mark"}
    BY DEF Idle
  <1>. QED BY <1>1, <1>2, <1>3, <1>4, <1>5, RewriteInv

(* Every step of a request.                                                 *)
LEMMA RequestInv == ASSUME IInv, NEW t \in Threads, Serve(t) PROVE IInv'
  <1>1. ASSUME NEW o \in Orders, CancelBegin(t, o) PROVE IInv'
    <2>1. Present(o)
      BY <1>1 DEF CancelBegin, Present, NoRow
    <2>. QED BY <1>1, <2>1, OtherStepInv DEF CancelBegin
  <1>2. CASE SyncBegin(t)
    BY <1>2, OtherStepInv DEF SyncBegin
  <1>3. CASE SyncAsk(t)
    BY <1>3, OtherStepInv DEF SyncAsk
  <1>4. CASE CancelAsk(t)
    <2>1. task[t].order \in Orders /\ Present(task[t].order)
      BY <1>4 DEF CancelAsk, IInv, RequestsAreJournalled
    <2>. QED BY <1>4, <2>1, OtherStepInv DEF CancelAsk
  <1>5. CASE GiveUp(t)
    BY <1>5, OtherStepInv DEF GiveUp, Idle
  <1>. QED BY <1>1, <1>2, <1>3, <1>4, <1>5, PlaceInv, PostInv, RecordInv,
              SyncUpdateInv, CancelMarkInv DEF Serve

(* Every step of the broker moves an order it already has.                  *)
LEMMA BrokerInv == ASSUME IInv, NEW o \in Orders, BrokerStep(o) PROVE IInv'
  <1>. PICK status \in BrokerStatuses :
            /\ broker[o] # "NONE"
            /\ broker' = [broker EXCEPT ![o] = status]
    BY DEF BrokerStep
  <1>1. UNCHANGED <<fresh, approved, journal, posted, task>>
    BY DEF BrokerStep
  <1>2. /\ broker' \in [Orders -> BrokerStatuses]
        /\ \A q \in Orders : q # o => broker'[q] = broker[q]
    BY DEF IInv, Types
  <1>3. Types' /\ RequestsAreJournalled'
    BY <1>1, <1>2 DEF IInv, Types, RequestsAreJournalled, Present
  <1>4. ApprovalsAreUnsent'
    BY <1>1, <1>2 DEF IInv, ApprovalsAreUnsent, Unsent, IsApproved, Present
  <1>5. PostsAreFirst' /\ SentOnceAndJournalled'
    BY <1>1, <1>2 DEF IInv, PostsAreFirst, SentOnceAndJournalled, Present
  <1>. QED BY <1>3, <1>4, <1>5 DEF IInv

(* The dashboard dies, with any of its POSTs on their way.                  *)
LEMMA CrashInv == ASSUME IInv, Crash PROVE IInv'
  <1>. PICK sent \in SUBSET {task[t].order : t \in {u \in Threads : task[u].pc = "post"}} :
            /\ broker' = [o \in Orders |-> IF o \in sent THEN "IN_FLIGHT" ELSE broker[o]]
            /\ posted' = [o \in Orders |-> IF o \in sent THEN posted[o] + 1 ELSE posted[o]]
    BY DEF Crash
  <1>1. \A o \in sent : o \in Orders /\ Present(o) /\ posted[o] = 0
    BY DEF IInv, PostsAreFirst
  <1>2. /\ task' = [t \in Threads |-> Idle] /\ approved' = <<>>
        /\ UNCHANGED <<fresh, journal>>
    BY DEF Crash
  <1>3. /\ broker' \in [Orders -> BrokerStatuses] /\ posted' \in [Orders -> Nat]
        /\ \A o \in Orders : o \notin sent => broker'[o] = broker[o] /\ posted'[o] = posted[o]
        /\ \A o \in Orders : o \in sent => posted'[o] = 1
    BY <1>1 DEF IInv, Types, BrokerStatuses
  <1>4. approved' \in Seq(Orders) /\ \A i \in 1 .. Len(approved') : FALSE
    BY <1>2
  <1>5. Types'
    BY <1>2, <1>3, <1>4 DEF IInv, Types
  <1>6. ApprovalsAreUnsent'
    BY <1>1, <1>2, <1>3, <1>4 DEF IInv, ApprovalsAreUnsent, Distinct, Unsent, IsApproved, Present
  <1>7. PostsAreFirst' /\ RequestsAreJournalled'
    BY <1>2 DEF PostsAreFirst, RequestsAreJournalled, Idle
  <1>8. SentOnceAndJournalled'
    BY <1>1, <1>2, <1>3 DEF IInv, SentOnceAndJournalled, Present
  <1>. QED BY <1>5, <1>6, <1>7, <1>8 DEF IInv

-----------------------------------------------------------------------------
(* The first state satisfies the inductive invariant.                       *)
LEMMA InitInv == Init => IInv
  BY DEF Init, IInv, Types, ApprovalsAreUnsent, Distinct, Unsent, IsApproved, Present,
         PostsAreFirst, RequestsAreJournalled, SentOnceAndJournalled, BrokerStatuses,
         Idle, NoRow

(* Every step keeps it.                                                     *)
LEMMA NextInv == IInv /\ [Next]_vars => IInv'
  <1>1. CASE UNCHANGED vars
    BY <1>1 DEF vars, IInv, Types, ApprovalsAreUnsent, Unsent, IsApproved, Present,
                PostsAreFirst, RequestsAreJournalled, SentOnceAndJournalled
  <1>2. ASSUME IInv, Next PROVE IInv'
    BY <1>2, RequestInv, ApproveInv, BrokerInv, CrashInv DEF Next
  <1>. QED BY <1>1, <1>2

(* Between any two steps of any requests an approval is unsent and a POST   *)
(* about to leave is the first of its order (dashboard/live.py,             *)
(* place_paper_order).                                                      *)
THEOREM OrdersInvariant == Spec => []IInv
  BY InitInv, NextInv, PTL DEF Spec

(* One approval is one order at most, and none is sent without its row:     *)
(* what place_paper_order() promises by popping the approval first and      *)
(* writing PENDING before the POST.                                         *)
THEOREM OneApprovalOneOrder == Spec => []SentOnceAndJournalled
  <1>1. IInv => SentOnceAndJournalled
    BY DEF IInv
  <1>. QED BY <1>1, OrdersInvariant, PTL

-----------------------------------------------------------------------------
(* The journal and the broker: what rows say, and what requests that hold   *)
(* an older answer are about to write.                                      *)

AtBroker == Working \cup Final
Pending == [status |-> "PENDING", known |-> FALSE]

(* A status some answer of the broker gave of the order is still good.      *)
StillGood(o, status) ==
    /\ status \in Final => broker[o] = status
    /\ status = "PARTIALLY_FILLED" => broker[o] \notin {"NEW", "REJECTED"}

(* A row is not ahead of the broker, and only a known one has its statuses. *)
RowInv(o) ==
    /\ journal[o].known => broker[o] \in AtBroker
    /\ journal[o].status \in AtBroker => journal[o].known
    /\ StillGood(o, journal[o].status)

(* What a request at work on an order knows of its row.                     *)
TaskInv(t) ==
    /\ task[t].pc \in {"post", "record"} => journal[task[t].order] = Pending
    /\ task[t].pc = "record" =>
        /\ task[t].receipt \in BOOLEAN
        /\ task[t].receipt => broker[task[t].order] \in AtBroker
    /\ task[t].pc \in {"cancel", "mark"} => journal[task[t].order].known
    /\ (task[t].pc = "update" /\ Head(task[t].left) \in Orders) =>
        /\ journal[Head(task[t].left)].known
        /\ task[t].status \in AtBroker
        /\ StillGood(Head(task[t].left), task[t].status)

(* No two requests are placing one order.                                   *)
OnePlacer ==
    \A t, u \in Threads :
        (/\ task[t].pc \in {"post", "record"} /\ task[u].pc \in {"post", "record"}
         /\ task[t].order = task[u].order) => t = u

(* The inductive invariant, on top of IInv.                                 *)
JInv ==
    /\ journal \in [Orders -> Rows]
    /\ \A o \in Orders : RowInv(o)
    /\ \A t \in Threads : TaskInv(t)
    /\ OnePlacer

(* The broker never takes an order back, and a final status is final.       *)
BrokerAdvances ==
    \A o \in Orders : broker[o] \in AtBroker =>
        /\ broker'[o] \in AtBroker
        /\ broker[o] \in Final => broker'[o] = broker[o]
        /\ broker[o] = "PARTIALLY_FILLED" => broker'[o] \notin {"NEW", "REJECTED"}

(* A status that was good of an order at the broker stays good.             *)
LEMMA StaysGood ==
    ASSUME BrokerAdvances, NEW o \in Orders, NEW status \in AtBroker,
           broker[o] \in AtBroker, StillGood(o, status)
    PROVE  StillGood(o, status)' /\ broker'[o] \in AtBroker
  BY DEF BrokerAdvances, StillGood, AtBroker, Working, Final

LEMMA RowStays ==
    ASSUME BrokerAdvances, NEW o \in Orders, RowInv(o), journal'[o] = journal[o]
    PROVE  RowInv(o)'
  <1>1. CASE journal[o].status \in AtBroker
    BY <1>1, StaysGood DEF RowInv
  <1>2. CASE journal[o].status \notin AtBroker
    <2>1. StillGood(o, journal[o].status)'
      BY <1>2 DEF StillGood, AtBroker, Working, Final
    <2>. QED BY <1>2, <2>1 DEF RowInv, BrokerAdvances
  <1>. QED BY <1>1, <1>2

(* A request that a step leaves alone still knows what it knew: its row is  *)
(* untouched, or it is not placing it and the row stays known if it was.    *)
LEMMA TaskStays ==
    ASSUME BrokerAdvances, IInv, NEW u \in Threads, TaskInv(u), task'[u] = task[u],
           \A o \in Orders : RowInv(o),
           \A o \in Orders :
                \/ journal'[o] = journal[o]
                \/ /\ journal[o].known => journal'[o].known
                   /\ task[u].pc \in {"post", "record"} => task[u].order # o
    PROVE  TaskInv(u)'
  <1>. PICK k : task[u] = k
    OBVIOUS
  <1>1. /\ k.pc \in {"post", "record", "cancel", "mark"} => k.order \in Orders
        /\ k.pc = "post" => broker[k.order] = "NONE"
    BY DEF IInv, PostsAreFirst, RequestsAreJournalled
  <1>2. k.pc \in {"post", "record"} => journal'[k.order] = Pending
    BY <1>1 DEF TaskInv
  <1>3. k.pc = "record" =>
            k.receipt \in BOOLEAN /\ (k.receipt => broker'[k.order] \in AtBroker)
    BY <1>1 DEF TaskInv, BrokerAdvances
  <1>4. k.pc \in {"cancel", "mark"} => journal'[k.order].known
    BY <1>1 DEF TaskInv
  <1>5. ASSUME k.pc = "update", Head(k.left) \in Orders
        PROVE  /\ journal'[Head(k.left)].known
               /\ k.status \in AtBroker
               /\ StillGood(Head(k.left), k.status)'
    <2>. PICK h \in Orders : h = Head(k.left)
      BY <1>5
    <2>1. journal[h].known /\ k.status \in AtBroker /\ StillGood(h, k.status)
      BY <1>5 DEF TaskInv
    <2>2. broker[h] \in AtBroker
      BY <2>1 DEF RowInv
    <2>3. StillGood(h, k.status)'
      BY <2>1, <2>2, StaysGood
    <2>. QED BY <2>1, <2>3
  <1>. QED BY <1>2, <1>3, <1>4, <1>5 DEF TaskInv

(* A step of one request.                                                   *)
LEMMA OneRequest ==
    ASSUME IInv, JInv, BrokerAdvances, NEW t \in Threads, NEW value, Become(t, value),
           journal' \in [Orders -> Rows],
           \A o \in Orders : RowInv(o)',
           \A u \in Threads \ {t}, o \in Orders :
                \/ journal'[o] = journal[o]
                \/ /\ journal[o].known => journal'[o].known
                   /\ task[u].pc \in {"post", "record"} => task[u].order # o,
           TaskInv(t)',
           value.pc \in {"post", "record"} =>
                \A u \in Threads \ {t} :
                    task[u].pc \in {"post", "record"} => task[u].order # value.order
    PROVE  JInv'
  <1>1. /\ task'[t] = value
        /\ \A u \in Threads : u # t => task'[u] = task[u]
    BY DEF Become, IInv, Types
  <1>2. \A u \in Threads : TaskInv(u)'
    <2>1. ASSUME NEW u \in Threads, u # t PROVE TaskInv(u)'
      BY <1>1, <2>1, TaskStays DEF JInv
    <2>. QED BY <2>1
  <1>3. OnePlacer'
    <2>. SUFFICES ASSUME NEW u \in Threads, NEW w \in Threads,
                         task'[u].pc \in {"post", "record"}, task'[w].pc \in {"post", "record"},
                         task'[u].order = task'[w].order
                  PROVE  u = w
      BY DEF OnePlacer
    <2>. QED BY <1>1 DEF JInv, OnePlacer
  <1>. QED BY <1>2, <1>3 DEF JInv

(* A step of a request that leaves the rows and the broker alone.           *)
LEMMA RequestMovesOn ==
    ASSUME IInv, JInv, NEW t \in Threads, NEW value, Become(t, value),
           UNCHANGED <<journal, broker>>,
           value.pc \notin {"post", "record"},
           value.pc \in {"cancel", "mark"} => journal[value.order].known,
           (value.pc = "update" /\ Head(value.left) \in Orders) =>
                /\ journal[Head(value.left)].known
                /\ value.status \in AtBroker
                /\ StillGood(Head(value.left), value.status)
    PROVE  JInv'
  <1>1. BrokerAdvances
    BY DEF BrokerAdvances
  <1>2. \A o \in Orders : RowInv(o)'
    BY <1>1, RowStays DEF JInv
  <1>3. task'[t] = value
    BY DEF Become, IInv, Types
  <1>4. TaskInv(t)'
    BY <1>3 DEF TaskInv, StillGood
  <1>. QED BY <1>1, <1>2, <1>4, OneRequest DEF JInv

(* The row of one order is replaced.                                        *)
Rewrites(o, row) ==
    /\ journal'[o] = row
    /\ \A q \in Orders : q # o => journal'[q] = journal[q]
    /\ journal' \in [Orders -> Rows]

LEMMA RewritesRow ==
    ASSUME JInv, NEW o \in Orders, NEW row \in Rows, journal' = [journal EXCEPT ![o] = row]
    PROVE  Rewrites(o, row)
  BY DEF JInv, Rewrites

(* A request rewrites the row of one order.                                 *)
LEMMA RequestWrites ==
    ASSUME IInv, JInv, NEW t \in Threads, NEW value, Become(t, value),
           NEW o \in Orders, NEW row \in Rows,
           Rewrites(o, row), UNCHANGED broker,
           journal[o].known => row.known,
           row.known => broker[o] \in AtBroker,
           row.status \in AtBroker => row.known,
           StillGood(o, row.status),
           \A u \in Threads \ {t} : task[u].pc \in {"post", "record"} => task[u].order # o,
           value.pc \notin {"record", "cancel", "mark", "update"},
           value.pc = "post" => value.order = o /\ row = Pending
    PROVE  JInv'
  <1>1. BrokerAdvances
    BY DEF BrokerAdvances
  <1>2. /\ journal' \in [Orders -> Rows] /\ journal'[o] = row
        /\ \A q \in Orders : q # o => journal'[q] = journal[q]
    BY DEF Rewrites
  <1>3. \A q \in Orders : RowInv(q)'
    <2>1. RowInv(o)'
      BY <1>2 DEF RowInv, StillGood
    <2>2. ASSUME NEW q \in Orders, q # o PROVE RowInv(q)'
      BY <1>1, <1>2, <2>2, RowStays DEF JInv
    <2>. QED BY <2>1, <2>2
  <1>4. task'[t] = value
    BY DEF Become, IInv, Types
  <1>5. TaskInv(t)'
    BY <1>2, <1>4 DEF TaskInv
  <1>6. \A u \in Threads \ {t}, q \in Orders :
            \/ journal'[q] = journal[q]
            \/ /\ journal[q].known => journal'[q].known
               /\ task[u].pc \in {"post", "record"} => task[u].order # q
    BY <1>2
  <1>. QED BY <1>1, <1>2, <1>3, <1>5, <1>6, OneRequest

(* Consuming the approval: no row, so no request was at work on the order.  *)
LEMMA PlaceJ ==
    ASSUME IInv, JInv, NEW t \in Threads, NEW o \in Orders, Place(t, o) PROVE JInv'
  <1>1. Unsent(o)
    BY DEF Place, IInv, ApprovalsAreUnsent, IsApproved
  <1>2. CASE UNCHANGED <<journal, created, task>>
    <2>1. UNCHANGED broker /\ BrokerAdvances
      BY DEF Place, BrokerAdvances
    <2>2. \A q \in Orders : RowInv(q)'
      BY <1>2, <2>1, RowStays DEF JInv
    <2>3. \A u \in Threads : TaskInv(u)'
      BY <1>2, <2>1, TaskStays DEF JInv
    <2>. QED BY <1>2, <2>2, <2>3 DEF JInv, OnePlacer
  <1>3. CASE /\ journal' = [journal EXCEPT ![o] = [status |-> "PENDING", known |-> FALSE]]
             /\ Become(t, [pc |-> "post", order |-> o])
    <2>1. journal' = [journal EXCEPT ![o] = Pending] /\ Pending \in Rows /\ UNCHANGED broker
      BY <1>3 DEF Pending, Rows, LocalStatuses, Place
    <2>2. ~journal[o].known
      BY <1>1 DEF Unsent, Present, NoRow
    <2>3. /\ Pending.known = FALSE /\ Pending.status \notin AtBroker
          /\ StillGood(o, Pending.status)
      BY DEF Pending, AtBroker, Working, Final, StillGood
    <2>4. \A u \in Threads \ {t} : task[u].pc \in {"post", "record"} => task[u].order # o
      BY <1>1 DEF Unsent, IInv, PostsAreFirst, RequestsAreJournalled
    <2>5. [pc |-> "post", order |-> o].pc = "post" /\ [pc |-> "post", order |-> o].order = o
      OBVIOUS
    <2>6. Rewrites(o, Pending)
      BY <2>1, RewritesRow
    <2>. QED BY <1>3, <2>1, <2>2, <2>3, <2>4, <2>5, <2>6, RequestWrites
  <1>. QED BY <1>2, <1>3 DEF Place

(* The POST of an order nobody else is placing, whose row is not known.     *)
LEMMA PostJ == ASSUME IInv, JInv, NEW t \in Threads, Post(t) PROVE JInv'
  <1>. PICK o \in Orders : task[t].order = o
    BY DEF Post, IInv, PostsAreFirst
  <1>. PICK outcome \in {"NEW", "NONE", "IN_FLIGHT"}, receipt \in BOOLEAN :
            /\ receipt => outcome = "NEW"
            /\ broker' = [broker EXCEPT ![o] = outcome]
            /\ Become(t, [pc |-> "record", order |-> o, receipt |-> receipt])
    BY DEF Post
  <1>1. broker[o] = "NONE" /\ journal[o] = Pending /\ UNCHANGED journal
    BY DEF Post, IInv, PostsAreFirst, JInv, TaskInv
  <1>2. broker'[o] = outcome /\ \A q \in Orders : q # o => broker'[q] = broker[q]
    BY DEF IInv, Types
  <1>3. BrokerAdvances
    BY <1>1, <1>2 DEF BrokerAdvances, AtBroker, Working, Final
  <1>4. \A q \in Orders : RowInv(q)'
    BY <1>1, <1>3, RowStays DEF JInv
  <1>5. task'[t] = [pc |-> "record", order |-> o, receipt |-> receipt]
    BY DEF Become, IInv, Types
  <1>6. TaskInv(t)'
    BY <1>1, <1>2, <1>5 DEF TaskInv, AtBroker, Working
  <1>7. \A u \in Threads \ {t} : task[u].pc \in {"post", "record"} => task[u].order # o
    BY DEF Post, JInv, OnePlacer
  <1>8. [pc |-> "record", order |-> o, receipt |-> receipt].order = o
    OBVIOUS
  <1>. QED BY <1>1, <1>3, <1>4, <1>6, <1>7, <1>8, OneRequest DEF JInv

(* The outcome over the PENDING row: a receipt proves the order is there.   *)
LEMMA RecordJ == ASSUME IInv, JInv, NEW t \in Threads, RecordOutcome(t) PROVE JInv'
  <1>. PICK o \in Orders : task[t].order = o
    BY DEF RecordOutcome, IInv, RequestsAreJournalled
  <1>. PICK receipt \in BOOLEAN : task[t].receipt = receipt
    BY DEF RecordOutcome, JInv, TaskInv
  <1>1. /\ journal[o] = Pending /\ (receipt => broker[o] \in AtBroker)
        /\ Become(t, Idle) /\ UNCHANGED broker
    BY DEF RecordOutcome, JInv, TaskInv
  <1>. PICK row : row = IF receipt THEN [status |-> "ACCEPTED", known |-> TRUE]
                       ELSE [status |-> "REJECTED_OR_UNKNOWN", known |-> FALSE]
    OBVIOUS
  <1>2. journal' = [journal EXCEPT ![o] = row]
    BY DEF RecordOutcome
  <1>3. /\ row \in Rows /\ (row.known => broker[o] \in AtBroker)
        /\ row.status \notin AtBroker /\ StillGood(o, row.status)
    BY <1>1 DEF Rows, LocalStatuses, AtBroker, Working, Final, StillGood
  <1>4. ~journal[o].known
    BY <1>1 DEF Pending
  <1>5. \A u \in Threads \ {t} : task[u].pc \in {"post", "record"} => task[u].order # o
    BY DEF RecordOutcome, JInv, OnePlacer
  <1>6. Idle.pc \notin {"post", "record", "cancel", "mark", "update"}
    BY DEF Idle
  <1>7. Rewrites(o, row)
    BY <1>2, <1>3, RewritesRow
  <1>. QED BY <1>1, <1>3, <1>4, <1>5, <1>6, <1>7, RequestWrites

(* A refresh writes what the broker answered before: it is still good.      *)
LEMMA SyncUpdateJ == ASSUME IInv, JInv, NEW t \in Threads, SyncUpdate(t) PROVE JInv'
  <1>. PICK h : h = Head(task[t].left)
    OBVIOUS
  <1>. PICK status : status = task[t].status
    OBVIOUS
  <1>. PICK value : value = IF Len(task[t].left) = 1 THEN Idle
                            ELSE [pc |-> "ask", left |-> Tail(task[t].left)]
    OBVIOUS
  <1>1. /\ Become(t, value) /\ UNCHANGED broker /\ journal[h].known
        /\ journal' = [journal EXCEPT ![h] = [status |-> status, known |-> journal[h].known]]
    BY DEF SyncUpdate
  <1>2. value.pc \notin {"post", "record", "cancel", "mark", "update"}
    BY DEF Idle
  <1>3. CASE h \in Orders
    <2>1. status \in AtBroker /\ StillGood(h, status)
      BY <1>3 DEF SyncUpdate, JInv, TaskInv
    <2>2. journal[h] \in Rows /\ broker[h] \in AtBroker
      BY <1>1, <1>3 DEF JInv, RowInv
    <2>. PICK row : row = [status |-> status, known |-> journal[h].known]
      OBVIOUS
    <2>3. row \in Rows /\ row.known /\ row.status = status
      BY <1>1, <2>1, <2>2 DEF Rows, AtBroker
    <2>4. \A u \in Threads \ {t} : task[u].pc \in {"post", "record"} => task[u].order # h
      BY <1>1, <1>3 DEF JInv, TaskInv, Pending
    <2>5. journal' = [journal EXCEPT ![h] = row]
      BY <1>1
    <2>6. Rewrites(h, row)
      BY <1>3, <2>3, <2>5, RewritesRow
    <2>. QED BY SMTT(20), <1>1, <1>2, <1>3, <2>1, <2>2, <2>3, <2>4, <2>6, RequestWrites
  <1>4. CASE h \notin Orders
    <2>1. journal' = journal
      BY <1>1, <1>4 DEF JInv
    <2>. QED BY <1>1, <1>2, <2>1, RequestMovesOn
  <1>. QED BY <1>3, <1>4

(* CANCEL_REQUESTED claims nothing of the broker.                           *)
LEMMA CancelMarkJ == ASSUME IInv, JInv, NEW t \in Threads, CancelMark(t) PROVE JInv'
  <1>. PICK o \in Orders : task[t].order = o
    BY DEF CancelMark, IInv, RequestsAreJournalled
  <1>1. /\ journal[o].known /\ Become(t, Idle) /\ UNCHANGED broker
        /\ journal' = [journal EXCEPT ![o] = [status |-> "CANCEL_REQUESTED",
                                              known |-> journal[o].known]]
    BY DEF CancelMark, JInv, TaskInv
  <1>2. journal[o] \in Rows /\ broker[o] \in AtBroker
    BY <1>1 DEF JInv, RowInv
  <1>. PICK row : row = [status |-> "CANCEL_REQUESTED", known |-> journal[o].known]
    OBVIOUS
  <1>3. row \in Rows /\ row.known /\ StillGood(o, row.status)
    BY <1>1, <1>2 DEF Rows, LocalStatuses, StillGood, Final
  <1>4. \A u \in Threads \ {t} : task[u].pc \in {"post", "record"} => task[u].order # o
    BY <1>1 DEF JInv, TaskInv, Pending
  <1>5. Idle.pc \notin {"post", "record", "cancel", "mark", "update"}
    BY DEF Idle
  <1>6. journal' = [journal EXCEPT ![o] = row]
    BY <1>1
  <1>7. Rewrites(o, row)
    BY <1>3, <1>6, RewritesRow
  <1>. QED BY <1>1, <1>2, <1>3, <1>4, <1>5, <1>7, RequestWrites

(* The answer of the broker to a GET, as it is now.                         *)
LEMMA SyncAskJ == ASSUME IInv, JInv, NEW t \in Threads, SyncAsk(t) PROVE JInv'
  <1>. PICK left : task[t].left = left
    OBVIOUS
  <1>. DEFINE value == [pc |-> "update", left |-> left, status |-> broker[Head(left)]]
  <1>1. /\ Become(t, value) /\ UNCHANGED <<journal, broker>> /\ journal[Head(left)].known
    BY DEF SyncAsk
  <1>2. value.pc = "update" /\ value.left = left /\ value.status = broker[Head(left)]
    OBVIOUS
  <1>3. Head(left) \in Orders =>
            broker[Head(left)] \in AtBroker /\ StillGood(Head(left), broker[Head(left)])
    BY <1>1 DEF JInv, RowInv, StillGood
  <1>. HIDE DEF value
  <1>. QED BY <1>1, <1>2, <1>3, RequestMovesOn

(* Every step of a request.                                                 *)
LEMMA RequestJ == ASSUME IInv, JInv, NEW t \in Threads, Serve(t) PROVE JInv'
  <1>1. ASSUME NEW o \in Orders, CancelBegin(t, o) PROVE JInv'
    BY <1>1, RequestMovesOn DEF CancelBegin
  <1>2. CASE SyncBegin(t)
    BY <1>2, RequestMovesOn DEF SyncBegin
  <1>3. CASE CancelAsk(t)
    <2>1. journal[task[t].order].known
      BY <1>3 DEF CancelAsk, JInv, TaskInv
    <2>. QED BY <1>3, <2>1, RequestMovesOn DEF CancelAsk
  <1>4. CASE GiveUp(t)
    BY <1>4, RequestMovesOn DEF GiveUp, Idle
  <1>. QED BY <1>1, <1>2, <1>3, <1>4, PlaceJ, PostJ, RecordJ, SyncAskJ,
              SyncUpdateJ, CancelMarkJ DEF Serve

(* The broker moves an order on.                                            *)
LEMMA BrokerJ == ASSUME IInv, JInv, NEW o \in Orders, BrokerStep(o) PROVE JInv'
  <1>1. UNCHANGED <<journal, task>>
    BY DEF BrokerStep
  <1>2. BrokerAdvances
    BY DEF BrokerStep, BrokerAdvances, AtBroker, Working, Final, IInv, Types
  <1>3. \A q \in Orders : RowInv(q)'
    BY <1>1, <1>2, RowStays DEF JInv
  <1>4. \A u \in Threads : TaskInv(u)'
    BY <1>1, <1>2, TaskStays DEF JInv
  <1>. QED BY <1>1, <1>3, <1>4 DEF JInv, OnePlacer

(* The dashboard dies: only orders of unknown rows were on their way.       *)
LEMMA CrashJ == ASSUME IInv, JInv, Crash PROVE JInv'
  <1>. PICK sent \in SUBSET {task[t].order : t \in {u \in Threads : task[u].pc = "post"}} :
            broker' = [o \in Orders |-> IF o \in sent THEN "IN_FLIGHT" ELSE broker[o]]
    BY DEF Crash
  <1>1. task' = [t \in Threads |-> Idle] /\ UNCHANGED journal
    BY DEF Crash
  <1>2. \A o \in sent : broker[o] = "NONE"
    BY DEF IInv, PostsAreFirst
  <1>3. BrokerAdvances
    BY <1>2 DEF BrokerAdvances, AtBroker, Working, Final
  <1>4. \A q \in Orders : RowInv(q)'
    BY <1>1, <1>3, RowStays DEF JInv
  <1>5. \A u \in Threads : TaskInv(u)'
    BY <1>1 DEF TaskInv, Idle
  <1>6. OnePlacer'
    BY <1>1 DEF OnePlacer, Idle
  <1>. QED BY <1>1, <1>4, <1>5, <1>6 DEF JInv

(* The journal has nothing at first.                                        *)
LEMMA InitJ == Init => JInv
  <1>. SUFFICES ASSUME Init PROVE JInv
    OBVIOUS
  <1>1. journal \in [Orders -> Rows]
    BY DEF Init, NoRow, Rows
  <1>2. ASSUME NEW o \in Orders PROVE RowInv(o)
    BY DEF Init, NoRow, RowInv, StillGood, AtBroker, Working, Final
  <1>3. ASSUME NEW t \in Threads PROVE TaskInv(t) /\ task[t].pc = "idle"
    BY DEF Init, Idle, TaskInv
  <1>. QED BY <1>1, <1>2, <1>3 DEF JInv, OnePlacer

(* Every step keeps what the journal knows behind what the broker knows.    *)
LEMMA NextJ == IInv /\ JInv /\ [Next]_vars => JInv'
  <1>. SUFFICES ASSUME IInv, JInv, [Next]_vars PROVE JInv'
    OBVIOUS
  <1>1. CASE UNCHANGED vars
    <2>1. BrokerAdvances
      BY <1>1 DEF vars, BrokerAdvances
    <2>2. \A q \in Orders : RowInv(q)'
      BY <1>1, <2>1, RowStays DEF vars, JInv
    <2>3. \A u \in Threads : TaskInv(u)'
      BY <1>1, <2>1, TaskStays DEF vars, JInv
    <2>. QED BY <1>1, <2>2, <2>3 DEF vars, JInv, OnePlacer
  <1>2. ASSUME NEW o \in Orders, Approve(o) PROVE JInv'
    <2>1. UNCHANGED <<journal, broker, task>> /\ BrokerAdvances
      BY <1>2 DEF Approve, BrokerAdvances
    <2>2. \A q \in Orders : RowInv(q)'
      BY <2>1, RowStays DEF JInv
    <2>3. \A u \in Threads : TaskInv(u)'
      BY <2>1, TaskStays DEF JInv
    <2>. QED BY <2>1, <2>2, <2>3 DEF JInv, OnePlacer
  <1>. QED BY <1>1, <1>2, RequestJ, BrokerJ, CrashJ DEF Next

(* Both invariants hold in every reachable state.                           *)
LEMMA JournalInvariant == Spec => [](IInv /\ JInv)
  BY InitInv, NextInv, InitJ, NextJ, PTL DEF Spec

(* In whatever order receipts, refreshes and cancellations are written, a   *)
(* provider id names an order the broker has, a final status is the         *)
(* broker's own, and a partial fill has happened (dashboard/live.py,        *)
(* place_paper_order, sync_paper_orders and cancel_paper_order).            *)
THEOREM JournalStaysBehind == Spec => []JournalNeverAhead
  <1>1. JInv => JournalNeverAhead
    BY DEF JInv, RowInv, StillGood, AtBroker, JournalNeverAhead
  <1>. QED BY <1>1, JournalInvariant, PTL

-----------------------------------------------------------------------------
(* What UnansweredForGood asks of one order.                                *)
StaysUnanswered(o) ==
    (Present(o) /\ ~journal[o].known /\ ~Placing(o)) => journal'[o] = journal[o]

(* No step answers an order that was given up.                              *)
LEMMA StepUnanswered ==
    ASSUME IInv, JInv, Next, NEW o \in Orders PROVE StaysUnanswered(o)
  <1>1. CASE journal'[o] = journal[o]
    BY <1>1 DEF StaysUnanswered
  <1>2. ASSUME NEW t \in Threads, NEW q \in Orders, Place(t, q) PROVE StaysUnanswered(o)
    <2>1. ~Present(q)
      BY <1>2 DEF Place, IInv, ApprovalsAreUnsent, IsApproved, Unsent
    <2>2. CASE o = q
      BY <2>1, <2>2 DEF StaysUnanswered
    <2>3. CASE o # q
      <3>1. journal'[o] = journal[o]
        BY <1>2, <2>3 DEF Place, JInv
      <3>. QED BY <1>1, <3>1
    <2>. QED BY <2>2, <2>3
  <1>3. ASSUME NEW t \in Threads, RecordOutcome(t) PROVE StaysUnanswered(o)
    <2>1. CASE o = task[t].order
      <3>1. Placing(o)
        BY <1>3, <2>1 DEF RecordOutcome, Placing
      <3>. QED BY <3>1 DEF StaysUnanswered
    <2>2. CASE o # task[t].order
      <3>1. journal'[o] = journal[o]
        BY <1>3, <2>2 DEF RecordOutcome, JInv
      <3>. QED BY <1>1, <3>1
    <2>. QED BY <2>1, <2>2
  <1>4. ASSUME NEW t \in Threads, SyncUpdate(t) PROVE StaysUnanswered(o)
    <2>1. journal[Head(task[t].left)].known
      BY <1>4 DEF SyncUpdate
    <2>2. o # Head(task[t].left) => journal'[o] = journal[o]
      BY <1>4 DEF SyncUpdate, JInv
    <2>. QED BY <1>1, <2>1, <2>2 DEF StaysUnanswered
  <1>5. ASSUME NEW t \in Threads, CancelMark(t) PROVE StaysUnanswered(o)
    <2>1. journal[task[t].order].known
      BY <1>5 DEF CancelMark, JInv, TaskInv
    <2>2. o # task[t].order => journal'[o] = journal[o]
      BY <1>5 DEF CancelMark, JInv
    <2>. QED BY <1>1, <2>1, <2>2 DEF StaysUnanswered
  <1>6. ASSUME NEW t \in Threads, Serve(t) PROVE StaysUnanswered(o)
    <2>1. CASE UNCHANGED journal
      BY <1>1, <2>1
    <2>. QED BY <1>2, <1>3, <1>4, <1>5, <1>6, <2>1
             DEF Serve, CancelBegin, Post, SyncBegin, SyncAsk, CancelAsk, GiveUp
  <1>. QED BY <1>1, <1>6 DEF Next, Approve, BrokerStep, Crash

(* An order whose receipt never came stays without one: no refresh and no   *)
(* cancellation ever reaches its row (dashboard/live.py, sync_paper_orders  *)
(* and cancel_paper_order).                                                 *)
THEOREM UnansweredStays == Spec => UnansweredForGood
  <1>1. IInv /\ JInv /\ [Next]_vars => [\A o \in Orders : StaysUnanswered(o)]_vars
    BY StepUnanswered
  <1>2. Spec => [][\A o \in Orders : StaysUnanswered(o)]_vars
    BY <1>1, JournalInvariant, PTL DEF Spec
  <1>. QED BY <1>2 DEF UnansweredForGood, StaysUnanswered

-----------------------------------------------------------------------------
(* The planner: what it sizes the gate lets pass.                           *)

LEMMA DivisionFits ==
    ASSUME NEW a \in Int, NEW c \in Nat \ {0}, NEW q \in Int, q <= a \div c
    PROVE  q * c <= a
  <1>1. (a \div c) \in Int /\ c * (a \div c) <= a
    OBVIOUS
  <1>2. \A x, y \in Int : x <= y => x * c <= y * c
    OBVIOUS
  <1>. QED BY <1>1, <1>2

LEMMA DivisionIsInt == ASSUME NEW a \in Int, NEW c \in Nat \ {0} PROVE a \div c \in Int
  OBVIOUS

(* A whole number of shares that fits into the room left by a cap.          *)
LEMMA RoomFits ==
    ASSUME NEW cap \in Int, NEW c \in Nat \ {0}, NEW q \in Int, q >= 1,
           q <= Positive(cap) \div c
    PROVE  q * c <= cap
  <1>1. Positive(cap) \in Int /\ (cap > 0 => Positive(cap) = cap) /\ (~(cap > 0) => Positive(cap) = 0)
    BY DEF Positive
  <1>2. q * c <= Positive(cap)
    BY <1>1, DivisionFits
  <1>3. q * c >= 1
    OBVIOUS
  <1>4. q * c \in Int
    OBVIOUS
  <1>. QED BY <1>1, <1>2, <1>3, <1>4

HasLeast(S) == S \subseteq Int /\ \E m \in S : \A y \in S : m <= y
LEMMA LeastOfMore == ASSUME NEW S, HasLeast(S), NEW a \in Int PROVE HasLeast(S \cup {a})
  <1>1. PICK m \in S : \A y \in S : m <= y
    BY DEF HasLeast
  <1>2. CASE m <= a
    BY <1>1, <1>2 DEF HasLeast
  <1>3. CASE ~(m <= a)
    <2>1. \A y \in S \cup {a} : a <= y
      BY <1>1, <1>3 DEF HasLeast
    <2>. QED BY <2>1 DEF HasLeast
  <1>. QED BY <1>2, <1>3

LEMMA MinIsLeast == ASSUME NEW S, HasLeast(S) PROVE Min(S) \in S /\ \A y \in S : Min(S) <= y
  BY DEF HasLeast, Min

LEMMA LeastOfSix ==
    ASSUME NEW a \in Int, NEW b \in Int, NEW c \in Int, NEW d \in Int, NEW e \in Int, NEW f \in Int
    PROVE  LET m == Min({a, b, c, d, e, f}) IN
           m \in Int /\ m <= a /\ m <= b /\ m <= c /\ m <= d /\ m <= e /\ m <= f
  <1>1. HasLeast({a})
    BY DEF HasLeast
  <1>2. HasLeast({a} \cup {b})
    BY <1>1, LeastOfMore
  <1>3. HasLeast(({a} \cup {b}) \cup {c})
    BY <1>2, LeastOfMore
  <1>4. HasLeast((({a} \cup {b}) \cup {c}) \cup {d})
    BY <1>3, LeastOfMore
  <1>5. HasLeast(((({a} \cup {b}) \cup {c}) \cup {d}) \cup {e})
    BY <1>4, LeastOfMore
  <1>6. HasLeast((((({a} \cup {b}) \cup {c}) \cup {d}) \cup {e}) \cup {f})
    BY <1>5, LeastOfMore
  <1>7. ((((({a} \cup {b}) \cup {c}) \cup {d}) \cup {e}) \cup {f}) = {a, b, c, d, e, f}
    OBVIOUS
  <1>8. HasLeast({a, b, c, d, e, f})
    BY <1>6, <1>7
  <1> DEFINE S == {a, b, c, d, e, f}
  <1>9. Min(S) \in S /\ \A y \in S : Min(S) <= y
    BY <1>8, MinIsLeast
  <1>10. /\ a \in S /\ b \in S /\ c \in S /\ d \in S /\ e \in S /\ f \in S
         /\ S \subseteq Int
    OBVIOUS
  <1> HIDE DEF S
  <1>11. Min(S) \in Int /\ Min(S) <= a /\ Min(S) <= b /\ Min(S) <= c /\ Min(S) <= d
         /\ Min(S) <= e /\ Min(S) <= f
    BY <1>9, <1>10
  <1>. QED BY <1>11 DEF S

(* The size of a plan, from the room each cap leaves.                       *)
IsSize(q, c, g, d, loss, notional, gross, instrument, share, cash) ==
    /\ c \in Nat \ {0} /\ g \in Nat \ {0} /\ d \in Nat \ {0}
    /\ loss \in Int /\ notional \in Int /\ gross \in Int
    /\ instrument \in Int /\ share \in Int /\ cash \in Int
    /\ q = Min({loss \div g, notional \div c, Positive(gross) \div c,
                Positive(instrument) \div c, share \div d, Positive(cash) \div c})
    /\ ~(q < 1)

LEMMA SizeFits ==
    ASSUME NEW c, NEW g, NEW d, NEW loss, NEW notional, NEW gross,
           NEW instrument, NEW share, NEW cash, NEW q,
           IsSize(q, c, g, d, loss, notional, gross, instrument, share, cash)
    PROVE  /\ q \in Nat \ {0}
           /\ q * g <= loss /\ q * c <= notional /\ q * c <= gross
           /\ q * c <= instrument /\ q * c <= cash
  <1> USE DEF IsSize
  <1>1. Positive(gross) \in Int /\ Positive(instrument) \in Int /\ Positive(cash) \in Int
    BY DEF Positive
  <1>2. /\ loss \div g \in Int /\ notional \div c \in Int /\ Positive(gross) \div c \in Int
        /\ Positive(instrument) \div c \in Int /\ share \div d \in Int
        /\ Positive(cash) \div c \in Int
    BY <1>1, DivisionIsInt
  <1>3. /\ q \in Int /\ q <= loss \div g /\ q <= notional \div c /\ q <= Positive(gross) \div c
        /\ q <= Positive(instrument) \div c /\ q <= Positive(cash) \div c
    BY <1>2, LeastOfSix
  <1>4. q >= 1 /\ q \in Nat \ {0}
    BY <1>3
  <1>5. q * g <= loss /\ q * c <= notional
    BY <1>3, DivisionFits
  <1>6. q * c <= gross
    BY <1>3, <1>4, RoomFits
  <1>7. q * c <= instrument
    BY <1>3, <1>4, RoomFits
  <1>8. q * c <= cash
    BY <1>3, <1>4, RoomFits
  <1>. QED BY <1>4, <1>5, <1>6, <1>7, <1>8

-----------------------------------------------------------------------------
(* The request of RiskRequest for a close.                                  *)
GateRequest(s, input, quantity, cash, close) ==
    [account |-> [id |-> "LOCAL_PAPER_ACCOUNT", currency |-> "USD", effective |-> 1,
                  observed |-> 1, cash |-> cash, positions |-> <<>>, pending |-> {}],
     context |-> [asOf |-> 1, at |-> 1],
     proposal |-> [account |-> "LOCAL_PAPER_ACCOUNT", currency |-> "USD", instrument |-> s,
                   quantity |-> IF input.side = "BUY" THEN quantity ELSE -quantity,
                   effective |-> 1, observed |-> 1,
                   mark |-> [price |-> close, valued |-> 0, observed |-> 1]],
     policy |-> [id |-> "DASHBOARD_PAPER_RISK", account |-> "LOCAL_PAPER_ACCOUNT",
                 currency |-> "USD", maxQuantity |-> quantity,
                 maxNotional |-> input.maxNotional, maxGross |-> input.maxGross,
                 maxInstrument |-> input.maxInstrument, maxShare |-> input.maxShare,
                 allowShort |-> FALSE, minEquity |-> 1, minCash |-> input.minCash,
                 maxAccountAge |-> 0, maxMarkAge |-> PolicyAge, maxProposalAge |-> 0],
     asOf |-> 1, at |-> 1]

LEMMA TheGatesRequest ==
    ASSUME NEW s, NEW input, NEW quantity, NEW cash
    PROVE  RiskRequest(s, input, quantity, cash)
            = GateRequest(s, input, quantity, cash, artifacts[s].close)
  BY DEF RiskRequest, GateRequest

(* The parts of it the gate reads.                                          *)
IsGateRequest(r, s, input, quantity, cash, close) ==
    /\ r.account.id = "LOCAL_PAPER_ACCOUNT" /\ r.account.currency = "USD"
    /\ r.account.effective = 1 /\ r.account.cash = cash
    /\ r.account.positions = <<>> /\ r.account.pending = {}
    /\ r.context.asOf = 1 /\ r.context.at = 1 /\ r.asOf = 1 /\ r.at = 1
    /\ r.proposal.account = "LOCAL_PAPER_ACCOUNT" /\ r.proposal.currency = "USD"
    /\ r.proposal.instrument = s /\ r.proposal.effective = 1 /\ r.proposal.observed = 1
    /\ r.proposal.quantity = IF input.side = "BUY" THEN quantity ELSE -quantity
    /\ r.proposal.mark.price = close /\ r.proposal.mark.valued = 0
    /\ r.proposal.mark.observed = 1
    /\ r.policy.account = "LOCAL_PAPER_ACCOUNT" /\ r.policy.currency = "USD"
    /\ r.policy.maxQuantity = quantity /\ r.policy.maxNotional = input.maxNotional
    /\ r.policy.maxGross = input.maxGross /\ r.policy.maxInstrument = input.maxInstrument
    /\ r.policy.maxShare = input.maxShare /\ r.policy.allowShort = FALSE
    /\ r.policy.minEquity = 1 /\ r.policy.minCash = input.minCash
    /\ r.policy.maxAccountAge = 0 /\ r.policy.maxMarkAge = 1000000
    /\ r.policy.maxProposalAge = 0

LEMMA GateRequestParts ==
    ASSUME NEW s, NEW input, NEW quantity, NEW cash, NEW close
    PROVE  IsGateRequest(GateRequest(s, input, quantity, cash, close),
                         s, input, quantity, cash, close)
  BY DEF GateRequest, IsGateRequest, PolicyAge

(* With money and a price there is nothing the gate could miss.             *)
LEMMA NothingMissing ==
    ASSUME NEW r, NEW s, NEW input, NEW quantity, NEW cash \in Nat \ {0}, NEW close \in Nat \ {0},
           IsGateRequest(r, s, input, quantity, cash, close)
    PROVE  Prerequisites(r) = {}
  <1>1. DOMAIN r.account.positions = {}
    BY DEF IsGateRequest
  <1>2. Portfolio(r.account).complete = TRUE
    BY <1>1 DEF Portfolio
  <1>3. Total(Values(r.account.positions)) = 0
    BY <1>1, TotalOfNothing DEF Values
  <1>4. Portfolio(r.account).equity = cash
    BY <1>1, <1>3 DEF Portfolio, IsGateRequest
  <1>5. ~Repriced(r)
    BY <1>1 DEF Repriced
  <1> DEFINE context == Portfolio(r.account)
  <1> HIDE DEF context
  <1>6. context.complete = TRUE /\ context.equity = cash
    BY <1>2, <1>4 DEF context
  <1>. QED BY <1>1, <1>5, <1>6 DEF Prerequisites, IsGateRequest, context

(* Which limits a purchase of a whole size can still break.                 *)
LEMMA OnlyConcentration ==
    ASSUME NEW r, NEW s, NEW input, NEW quantity \in Nat \ {0}, NEW cash \in Int,
           NEW close \in Nat \ {0}, IsGateRequest(r, s, input, quantity, cash, close),
           input.side = "BUY", input.minCash \in Int,
           quantity * close <= input.maxNotional, quantity * close <= input.maxGross,
           quantity * close <= input.maxInstrument, quantity * close <= cash - input.minCash,
           input.maxNotional \in Int, input.maxGross \in Int, input.maxInstrument \in Int
    PROVE  Limits(r, Project(r)) \subseteq {"CONCENTRATION_LIMIT"}
  <1> DEFINE p == Project(r)
             mark == r.proposal.mark
             cost == quantity * close
  <1>1. DOMAIN r.account.positions = {}
    BY DEF IsGateRequest
  <1>2. /\ p.positions = [i \in {s} |-> [quantity |-> 0 + quantity, mark |-> mark]]
        /\ p.notional = Magnitude(cost) /\ p.cash = cash - cost
        /\ p.gross = Gross(p.positions)
    BY <1>1 DEF Project, IsGateRequest
  <1>3. cost \in Nat
    OBVIOUS
  <1>. HIDE DEF p, cost, mark
  <1>4. mark.price = close
    BY DEF IsGateRequest, mark
  <1>5. /\ DOMAIN p.positions = {s} /\ p.positions[s].quantity = quantity
        /\ MarketValue(p.positions[s]) = cost
    <2>1. p.positions[s] = [quantity |-> quantity, mark |-> mark] /\ DOMAIN p.positions = {s}
      BY <1>2
    <2>. QED BY <1>4, <2>1 DEF MarketValue, cost
  <1>6. Magnitude(cost) = cost
    BY <1>3 DEF Magnitude
  <1>7. p.gross = cost
    <2> DEFINE f == [i \in DOMAIN p.positions |-> Magnitude(MarketValue(p.positions[i]))]
    <2>1. DOMAIN f = {s} /\ f[s] = cost
      BY <1>5, <1>6
    <2>. HIDE DEF f
    <2>2. Total(f) = cost
      BY <1>3, <2>1, TotalOfOne
    <2>. QED BY <1>2, <2>2 DEF Gross, f
  <1>8. /\ cost <= input.maxNotional /\ cost <= input.maxGross /\ cost <= input.maxInstrument
        /\ cost <= cash - input.minCash
    BY DEF cost
  <1>9. Magnitude(r.proposal.quantity) = quantity
    BY DEF Magnitude, IsGateRequest
  <1>10. Limits(r, p) \subseteq {"CONCENTRATION_LIMIT"}
    BY <1>2, <1>3, <1>5, <1>6, <1>7, <1>8, <1>9 DEF Limits, IsGateRequest
  <1>. QED BY <1>10 DEF p

(* The gate lets no sale through, whatever is held.                         *)
LEMMA NoSalePasses ==
    ASSUME NEW r, NEW s, NEW input, NEW quantity \in Nat \ {0}, NEW cash, NEW close,
           IsGateRequest(r, s, input, quantity, cash, close), input.side # "BUY"
    PROVE  Evaluate(r).status # "PASS_CHECKS"
  <1> DEFINE p == Project(r)
  <1>1. DOMAIN r.account.positions = {}
    BY DEF IsGateRequest
  <1>2. p.positions = [i \in {s} |-> [quantity |-> 0 + -quantity, mark |-> r.proposal.mark]]
    BY <1>1 DEF Project, IsGateRequest
  <1>. HIDE DEF p
  <1>3. DOMAIN p.positions = {s} /\ p.positions[s].quantity < 0
    BY <1>2
  <1>4. Limits(r, p) # {}
    BY <1>3 DEF Limits, IsGateRequest
  <1>. QED BY <1>4 DEF Evaluate, p

-----------------------------------------------------------------------------
(* The inductive invariant.                                                 *)

Snapshots == [cash : Int, blocked : BOOLEAN, value : [Symbols -> Nat], equity : Int]

Brackets ==
    {o \in [id : Nat, symbol : Symbols, side : {"BUY"}, quantity : Nat \ {0},
            entry : Int, stop : Int, target : Int] : o.stop < o.entry /\ o.entry < o.target}

PlanTypes ==
    /\ paper.cash \in Int /\ paper.held \in [Symbols -> Nat]
    /\ price \in [Symbols -> Prices]
    /\ DOMAIN artifacts \subseteq Symbols
    /\ \A s \in DOMAIN artifacts : artifacts[s].close \in Prices
    /\ snapshot # None => snapshot \in Snapshots
    /\ approvals \in Seq(Brackets) /\ working \subseteq Brackets
    /\ Len(approvals) <= PlanCap /\ eligible \in 0 .. MaxPlans
    /\ alone \in BOOLEAN

Keeps(o, cash) == cash - o.quantity * o.entry >= Floor

(* One plan at a time, and the account can afford it.                       *)
OneAtATime(list, open, cash) ==
    /\ Len(list) <= 1
    /\ list # <<>> => open = {}
    /\ \A o, p \in open : o = p
    /\ \A i \in 1 .. Len(list) : Keeps(list[i], cash)
    /\ \A o \in open : Keeps(o, cash)

PlanInv ==
    /\ PlanAssumption
    /\ PlanTypes
    /\ alone => OneAtATime(approvals, working, paper.cash)
    /\ SizingAgreesWithTheGate
    /\ PlansOneByOneKeepTheFloor

LEMMA LeastOfNaturals ==
    ASSUME NEW S, S \subseteq Nat, NEW v \in S
    PROVE  Min(S) \in Int /\ Min(S) <= v
  <1>1. PICK m \in S : \A y \in S : ~(<<y, m>> \in OpToRel(<, Nat))
    BY WFMin, NatLessThanWellFounded
  <1>2. \A y \in S : ~(y < m)
    BY <1>1 DEF OpToRel
  <1>3. HasLeast(S)
    BY <1>2 DEF HasLeast
  <1>4. Min(S) \in S /\ Min(S) <= v
    BY <1>3, MinIsLeast
  <1>5. Min(S) \in S
    BY <1>4
  <1>6. S \subseteq Int
    OBVIOUS
  <1>7. Min(S) \in Int
    BY <1>5, <1>6
  <1>. QED BY <1>4, <1>7

LEMMA FloorIsLeast ==
    ASSUME PlanAssumption, NEW input \in Inputs, Accepted(input)
    PROVE  Floor \in Int /\ Floor <= input.minCash
  <1> DEFINE S == {i.minCash : i \in {j \in Inputs : Accepted(j)}}
             v == input.minCash
  <1>1. S \subseteq Nat /\ v \in S
    BY DEF PlanAssumption, PlanInputs, Accepted
  <1>2. Floor = Min(S)
    BY DEF Floor
  <1> HIDE DEF S, v
  <1>3. Min(S) \in Int /\ Min(S) <= v
    BY <1>1, LeastOfNaturals
  <1>. QED BY <1>2, <1>3 DEF v

(* Sized automatically: a purchase within every limit entered.              *)
LEMMA AutoPlanFits ==
    ASSUME PlanAssumption, PlanTypes, NEW s \in Symbols, NEW input \in Inputs,
           Refusal(s, input) = "NO", input.auto,
           NEW c, c = artifacts[s].close, NEW q, q = SafeSize(s, c, input)
    PROVE  /\ snapshot.cash \in Int
           /\ c \in Nat \ {0} /\ q \in Nat \ {0}
           /\ input.side = "BUY" /\ input.stop < c
           /\ q * (c - input.stop) <= input.maxLoss
           /\ q * c <= input.maxNotional /\ q * c <= input.maxGross
           /\ q * c <= input.maxInstrument /\ q * c <= snapshot.cash - input.minCash
  <1>1. /\ s \in DOMAIN artifacts /\ Accepted(input) /\ snapshot # None /\ input.side = "BUY"
        /\ ~(c <= input.stop) /\ ~(q < 1)
    BY DEF Refusal
  <1>2. input \in PlanInputs /\ c \in Nat \ {0}
    BY <1>1 DEF PlanAssumption, PlanTypes
  <1>3. snapshot \in Snapshots
    BY <1>1 DEF PlanTypes
  <1>4. /\ input.maxLoss \in Int /\ input.maxNotional \in Int /\ input.maxGross \in Int
        /\ input.maxInstrument \in Int /\ input.minCash \in Int /\ input.stop \in Int
        /\ input.maxShare.part \in Int /\ input.maxShare.of \in Nat \ {0}
    BY <1>1, <1>2 DEF PlanInputs, Accepted
  <1>5. snapshot.cash \in Int /\ snapshot.equity \in Int /\ snapshot.value[s] \in Nat
    BY <1>3 DEF Snapshots
  <1> DEFINE held == snapshot.value[s]
             f == [t \in Symbols |-> Magnitude(snapshot.value[t])]
             gross == Total(f)
             share == Positive(snapshot.equity * input.maxShare.part
                                 - Magnitude(held) * input.maxShare.of)
             d == c * input.maxShare.of
             g == c - input.stop
  <1>6. gross \in Nat
    <2>1. \A t \in DOMAIN f : f[t] \in Nat
      BY <1>3 DEF Snapshots, Magnitude
    <2>2. IsFiniteSet(DOMAIN f)
      BY DEF PlanAssumption
    <2>. HIDE DEF f
    <2>. QED BY <2>1, <2>2, TotalIsNat
  <1>7. Magnitude(held) \in Nat
    BY <1>5 DEF Magnitude
  <1>8. d \in Nat \ {0}
    BY <1>2, <1>4
  <1>9. share \in Int
    <2>1. snapshot.equity * input.maxShare.part \in Int
      BY <1>4, <1>5
    <2>2. Magnitude(held) * input.maxShare.of \in Int
      BY <1>4, <1>7
    <2>3. snapshot.equity * input.maxShare.part - Magnitude(held) * input.maxShare.of \in Int
      BY <2>1, <2>2
    <2>. QED BY <2>3 DEF Positive
  <1>10. g \in Nat \ {0}
    BY <1>1, <1>2, <1>4
  <1>11. q = Min({input.maxLoss \div g, input.maxNotional \div c,
                  Positive(input.maxGross - gross) \div c,
                  Positive(input.maxInstrument - Magnitude(held)) \div c,
                  share \div d, Positive(snapshot.cash - input.minCash) \div c})
    BY DEF SafeSize
  <1> HIDE DEF held, gross, share, d, g
  <1> DEFINE loss == input.maxLoss
             notional == input.maxNotional
             roomGross == input.maxGross - gross
             roomInstrument == input.maxInstrument - Magnitude(held)
             roomCash == snapshot.cash - input.minCash
  <1>12. /\ roomGross \in Int /\ roomInstrument \in Int /\ roomCash \in Int
         /\ loss \in Int /\ notional \in Int
    BY <1>4, <1>5, <1>6, <1>7
  <1>13. /\ q \in Nat \ {0}
         /\ q * g <= loss /\ q * c <= notional
         /\ q * c <= roomGross /\ q * c <= roomInstrument /\ q * c <= roomCash
    <2>1. ~(q < 1)
      BY <1>1
    <2>. HIDE DEF loss, notional, roomGross, roomInstrument, roomCash
    <2>2. q = Min({loss \div g, notional \div c, Positive(roomGross) \div c,
                   Positive(roomInstrument) \div c, share \div d, Positive(roomCash) \div c})
      BY <1>11 DEF loss, notional, roomGross, roomInstrument, roomCash
    <2>. HIDE DEF f
    <2>3. c \in Nat \ {0} /\ g \in Nat \ {0} /\ d \in Nat \ {0} /\ share \in Int
      BY <1>2, <1>8, <1>9, <1>10
    <2>4. IsSize(q, c, g, d, loss, notional, roomGross, roomInstrument, share, roomCash)
      BY <1>12, <2>1, <2>2, <2>3 DEF IsSize
    <2>. QED BY <2>4, SizeFits
  <1>14. q * c \in Int
    BY <1>2, <1>13
  <1>15. q * c <= input.maxGross /\ q * c <= input.maxInstrument
    BY <1>4, <1>6, <1>7, <1>13, <1>14
  <1>16. input.stop < c
    BY <1>1, <1>2, <1>4
  <1>. QED BY <1>1, <1>2, <1>5, <1>13, <1>15, <1>16 DEF g

LEMMA PassingMeansPurchase ==
    ASSUME NEW risk, NEW desk, NEW veto, Status(risk, desk, veto) = "ELIGIBLE_FOR_PAPER_REVIEW"
    PROVE  risk.status = "PASS_CHECKS" /\ ~veto
  BY DEF Status

(* What an answer says of the plan it was computed for.                     *)
LEMMA AnswersAreSound ==
    ASSUME PlanAssumption, PlanTypes, NEW s \in Symbols, NEW input \in Inputs,
           Refusal(s, input) = "NO", NEW answer, answer = Result(s, input)
    PROVE  /\ answer.symbol = s /\ answer.input = input
           /\ answer.quantity \in Nat \ {0} /\ answer.entry \in Nat \ {0}
           /\ input.auto =>
                /\ answer.reasons \subseteq {"CONCENTRATION_LIMIT"}
                /\ ~LossVeto(answer.entry, input, answer.quantity)
                /\ snapshot.cash \in Int
                /\ answer.quantity * answer.entry <= snapshot.cash - input.minCash
           /\ answer.status = "ELIGIBLE_FOR_PAPER_REVIEW" =>
                /\ input.side = "BUY" /\ input.stop \in Int /\ answer.target \in Int
                /\ input.stop < answer.entry /\ answer.entry < answer.target
  <1> DEFINE c == artifacts[s].close
             q == IF input.auto THEN SafeSize(s, c, input) ELSE input.quantity
             cash == IF input.auto THEN snapshot.cash ELSE input.cash
             r == RiskRequest(s, input, q, cash)
             desk == Compose(DeskRequest(s, input, Evaluate(r)))
             veto == LossVeto(c, input, q)
  <1>1. /\ answer.symbol = s /\ answer.input = input /\ answer.quantity = q /\ answer.entry = c
        /\ answer.target = IF input.side = "BUY" THEN c + 2 * Magnitude(c - input.stop)
                           ELSE c - 2 * Magnitude(c - input.stop)
        /\ answer.reasons = Evaluate(r).reasons
        /\ answer.status = Status(Evaluate(r), desk, veto)
    BY DEF Result
  <1>2. r = GateRequest(s, input, q, cash, c)
    BY TheGatesRequest
  <1>3. IsGateRequest(r, s, input, q, cash, c)
    BY <1>2, GateRequestParts
  <1>4. s \in DOMAIN artifacts /\ Accepted(input)
    BY DEF Refusal
  <1>5. input \in PlanInputs /\ c \in Nat \ {0}
    BY <1>4 DEF PlanAssumption, PlanTypes
  <1>6. /\ input.side \in {"BUY", "SELL"} /\ input.stop \in Int /\ input.quantity \in Nat \ {0}
        /\ input.minCash \in Nat /\ input.maxNotional \in Int /\ input.maxGross \in Int
        /\ input.maxInstrument \in Int /\ input.maxLoss \in Int
    BY <1>4, <1>5 DEF PlanInputs, Accepted
  <1> HIDE DEF r, desk
  <1>7. ASSUME input.auto
        PROVE  /\ snapshot.cash \in Int /\ q \in Nat \ {0}
               /\ input.side = "BUY" /\ input.stop < c
               /\ q * (c - input.stop) <= input.maxLoss
               /\ q * c <= input.maxNotional /\ q * c <= input.maxGross
               /\ q * c <= input.maxInstrument /\ q * c <= snapshot.cash - input.minCash
    <2>1. q = SafeSize(s, c, input)
      BY <1>7
    <2>. HIDE DEF q, c
    <2>2. c = artifacts[s].close
      BY DEF c
    <2>. QED BY <1>7, <2>1, <2>2, AutoPlanFits
  <1>8. q \in Nat \ {0}
    <2>1. CASE input.auto
      BY <1>7, <2>1
    <2>2. CASE ~input.auto
      BY <1>6, <2>2
    <2>. QED BY <2>1, <2>2
  <1>9. input.auto => cash = snapshot.cash
    OBVIOUS
  <1> HIDE DEF c, q, cash
  <1>10. ASSUME input.auto
         PROVE  Evaluate(r).reasons \subseteq {"CONCENTRATION_LIMIT"} /\ ~veto
    <2>1. q * c \in Nat \ {0}
      BY <1>5, <1>8
    <2>2. cash \in Nat \ {0} /\ q * c <= cash - input.minCash
      BY <1>6, <1>7, <1>9, <1>10, <2>1
    <2>3. Prerequisites(r) = {}
      BY <1>3, <1>5, <2>2, NothingMissing
    <2>4. Limits(r, Project(r)) \subseteq {"CONCENTRATION_LIMIT"}
      <3>1. cash \in Int /\ input.minCash \in Int
        BY <1>6, <2>2
      <3>. QED BY <1>3, <1>5, <1>6, <1>7, <1>8, <1>10, <2>2, <3>1, OnlyConcentration
    <2>5. Evaluate(r).reasons \subseteq {"CONCENTRATION_LIMIT"}
      BY <2>3, <2>4 DEF Evaluate
    <2>6. Magnitude(c - input.stop) = c - input.stop
      BY <1>5, <1>6, <1>7, <1>10 DEF Magnitude
    <2>7. q * (c - input.stop) <= input.maxLoss /\ q * (c - input.stop) \in Int
      BY <1>5, <1>6, <1>7, <1>8, <1>10
    <2>8. ~(q * (c - input.stop) > input.maxLoss) /\ ~(input.stop >= c) /\ input.side = "BUY"
      BY <1>5, <1>6, <1>7, <1>10, <2>7
    <2>9. ~veto
      BY <2>6, <2>8 DEF LossVeto
    <2>. QED BY <2>5, <2>9
  <1>11. ASSUME answer.status = "ELIGIBLE_FOR_PAPER_REVIEW"
         PROVE  /\ input.side = "BUY" /\ answer.target \in Int
                /\ input.stop < c /\ c < answer.target
    <2>1. Evaluate(r).status = "PASS_CHECKS" /\ ~veto
      BY <1>1, <1>11, PassingMeansPurchase
    <2>2. input.side = "BUY"
      BY <1>3, <1>8, <2>1, NoSalePasses
    <2>3. input.stop < c
      BY <1>5, <1>6, <2>1, <2>2 DEF LossVeto
    <2>4. Magnitude(c - input.stop) = c - input.stop
      BY <1>5, <1>6, <2>3 DEF Magnitude
    <2>5. answer.target = c + 2 * (c - input.stop)
      BY <1>1, <2>2, <2>4
    <2>6. c < c + 2 * (c - input.stop) /\ c + 2 * (c - input.stop) \in Int
      BY <1>5, <1>6, <2>3
    <2>. QED BY <2>2, <2>3, <2>5, <2>6
  <1>. QED BY <1>1, <1>5, <1>6, <1>7, <1>8, <1>10, <1>11

-----------------------------------------------------------------------------
(* One lemma per action.                                                    *)

LEMMA NothingPlanned == plan' = None => SizingAgreesWithTheGate'
  BY DEF SizingAgreesWithTheGate, Planned

LEMMA NoQuantity ==
    ASSUME NEW status, plan' = [status |-> status] PROVE SizingAgreesWithTheGate'
  BY DEF SizingAgreesWithTheGate, Planned

LEMMA PlanInitInv == PlanAssumption /\ PlanInit => PlanInv
  <1> SUFFICES ASSUME PlanAssumption, PlanInit PROVE PlanInv
    OBVIOUS
  <1>1. PlanTypes
    BY DEF PlanTypes, PlanInit, PlanAssumption, PlanCap
  <1>2. OneAtATime(approvals, working, paper.cash)
    BY DEF OneAtATime, PlanInit
  <1>3. SizingAgreesWithTheGate
    BY DEF SizingAgreesWithTheGate, Planned, PlanInit
  <1>4. PlansOneByOneKeepTheFloor
    BY DEF PlansOneByOneKeepTheFloor, PlanInit
  <1>. QED BY <1>1, <1>2, <1>3, <1>4 DEF PlanInv

(* What a step leaves alone, when it plans nothing and touches no order.    *)
LEMMA MarketStep ==
    ASSUME PlanInv, plan' = None, UNCHANGED <<paper, approvals, working, eligible, alone>>,
           price' \in [Symbols -> Prices],
           DOMAIN artifacts' \subseteq Symbols,
           \A s \in DOMAIN artifacts' : artifacts'[s].close \in Prices,
           snapshot' # None => snapshot' \in Snapshots
    PROVE  PlanInv'
  <1>1. PlanTypes'
    BY DEF PlanInv, PlanTypes
  <1>2. alone' => OneAtATime(approvals, working, paper.cash)'
    BY DEF PlanInv, OneAtATime
  <1>3. SizingAgreesWithTheGate'
    BY NothingPlanned
  <1>4. PlansOneByOneKeepTheFloor'
    BY DEF PlanInv, PlansOneByOneKeepTheFloor
  <1>5. PlanAssumption
    BY DEF PlanInv
  <1>. QED BY <1>1, <1>2, <1>3, <1>4, <1>5 DEF PlanInv

LEMMA SyncAccountInv == ASSUME PlanInv, SyncAccount PROVE PlanInv'
  <1>1. PlanAssumption /\ PlanTypes
    BY DEF PlanInv
  <1> DEFINE value == [s \in Symbols |-> Worth(s)]
  <1>2. PICK blocked \in BOOLEAN :
            snapshot' = [cash |-> paper.cash, blocked |-> blocked, value |-> value,
                         equity |-> paper.cash + Total(value)]
    BY DEF SyncAccount
  <1>3. value \in [Symbols -> Nat]
    <2>1. ASSUME NEW s \in Symbols PROVE Worth(s) \in Nat
      <3>1. paper.held[s] \in Nat /\ price[s] \in Nat
        BY <1>1 DEF PlanTypes, PlanAssumption
      <3>. QED BY <3>1 DEF Worth
    <2>. QED BY <2>1
  <1> HIDE DEF value
  <1>4. Total(value) \in Nat
    <2>1. IsFiniteSet(DOMAIN value)
      BY <1>1, <1>3 DEF PlanAssumption
    <2>2. \A s \in DOMAIN value : value[s] \in Nat
      BY <1>3
    <2>. QED BY <2>1, <2>2, TotalIsNat
  <1>5. snapshot' \in Snapshots
    BY <1>1, <1>2, <1>3, <1>4 DEF Snapshots, PlanTypes
  <1>6. /\ plan' = None /\ UNCHANGED <<paper, approvals, working, eligible, alone>>
        /\ UNCHANGED <<price, artifacts>>
    BY DEF SyncAccount
  <1>7. /\ price' \in [Symbols -> Prices] /\ DOMAIN artifacts' \subseteq Symbols
        /\ \A s \in DOMAIN artifacts' : artifacts'[s].close \in Prices
    BY <1>1, <1>6 DEF PlanTypes
  <1>. QED BY <1>5, <1>6, <1>7, MarketStep

LEMMA ScanInv == ASSUME PlanInv, Scan PROVE PlanInv'
  <1>1. PlanTypes
    BY DEF PlanInv
  <1>2. PICK ready \in SUBSET Symbols, key \in {"UPSIDE", "DOWNSIDE"},
               regime \in {"UPWARD", "DOWNWARD"} :
            artifacts' = [s \in ready |-> [close |-> price[s], key |-> key, regime |-> regime]]
    BY DEF Scan
  <1>3. DOMAIN artifacts' \subseteq Symbols
    BY <1>2
  <1>4. \A s \in DOMAIN artifacts' : artifacts'[s].close \in Prices
    BY <1>1, <1>2 DEF PlanTypes
  <1>5. /\ plan' = None /\ UNCHANGED <<paper, approvals, working, eligible, alone>>
        /\ UNCHANGED <<price, snapshot>>
    BY DEF Scan
  <1>6. price' \in [Symbols -> Prices] /\ (snapshot' # None => snapshot' \in Snapshots)
    BY <1>1, <1>5 DEF PlanTypes
  <1>. QED BY <1>3, <1>4, <1>5, <1>6, MarketStep

LEMMA MoveInv == ASSUME PlanInv, NEW s \in Symbols, Move(s) PROVE PlanInv'
  <1>1. PlanTypes
    BY DEF PlanInv
  <1>2. price' \in [Symbols -> Prices]
    BY <1>1 DEF PlanTypes, Move
  <1>3. /\ plan' = None /\ UNCHANGED <<paper, approvals, working, eligible, alone>>
        /\ UNCHANGED <<artifacts, snapshot>>
    BY DEF Move
  <1>4. /\ DOMAIN artifacts' \subseteq Symbols
        /\ \A t \in DOMAIN artifacts' : artifacts'[t].close \in Prices
        /\ snapshot' # None => snapshot' \in Snapshots
    BY <1>1, <1>3 DEF PlanTypes
  <1>. QED BY <1>2, <1>3, <1>4, MarketStep

LEMMA RefusePlanInv ==
    ASSUME PlanInv, NEW s \in Symbols, NEW input \in Inputs, RefusePlan(s, input)
    PROVE  PlanInv'
  <1>1. UNCHANGED <<paper, price, artifacts, snapshot, approvals, working, eligible, alone>>
    BY DEF RefusePlan
  <1>2. SizingAgreesWithTheGate'
    BY NoQuantity DEF RefusePlan
  <1>3. PlanTypes'
    BY <1>1 DEF PlanInv, PlanTypes
  <1>4. alone' => OneAtATime(approvals, working, paper.cash)'
    BY <1>1 DEF PlanInv, OneAtATime
  <1>5. PlansOneByOneKeepTheFloor'
    BY <1>1 DEF PlanInv, PlansOneByOneKeepTheFloor
  <1>. QED BY <1>2, <1>3, <1>4, <1>5 DEF PlanInv

LEMMA StutterInv == ASSUME PlanInv, UNCHANGED planVars PROVE PlanInv'
  <1>1. PlanTypes'
    BY DEF PlanInv, PlanTypes, planVars
  <1>2. alone' => OneAtATime(approvals, working, paper.cash)'
    BY DEF PlanInv, OneAtATime, planVars
  <1>3. SizingAgreesWithTheGate'
    BY DEF PlanInv, SizingAgreesWithTheGate, Planned, planVars
  <1>4. PlansOneByOneKeepTheFloor'
    BY DEF PlanInv, PlansOneByOneKeepTheFloor, planVars
  <1>. QED BY <1>1, <1>2, <1>3, <1>4 DEF PlanInv

LEMMA CancelInv == ASSUME PlanInv, Cancel PROVE PlanInv'
  <1>1. PICK order \in working : working' = working \ {order}
    BY DEF Cancel
  <1>2. /\ plan' = None
        /\ UNCHANGED <<paper, price, artifacts, snapshot, approvals, eligible, alone>>
    BY DEF Cancel
  <1>3. PlanTypes'
    BY <1>1, <1>2 DEF PlanInv, PlanTypes
  <1>4. alone' => OneAtATime(approvals, working, paper.cash)'
    BY <1>1, <1>2 DEF PlanInv, OneAtATime
  <1>5. SizingAgreesWithTheGate'
    BY <1>2, NothingPlanned
  <1>6. PlansOneByOneKeepTheFloor'
    BY <1>2 DEF PlanInv, PlansOneByOneKeepTheFloor
  <1>. QED BY <1>3, <1>4, <1>5, <1>6 DEF PlanInv

LEMMA FillInv == ASSUME PlanInv, Fill PROVE PlanInv'
  <1>1. PICK order \in working :
            /\ working' = working \ {order}
            /\ paper' = [cash |-> paper.cash - order.quantity * order.entry,
                         held |-> [paper.held EXCEPT ![order.symbol] = @ + order.quantity]]
    BY DEF Fill
  <1>2. /\ plan' = None
        /\ UNCHANGED <<price, artifacts, snapshot, approvals, eligible, alone>>
    BY DEF Fill
  <1>3. PlanTypes
    BY DEF PlanInv
  <1>4. /\ order.quantity \in Nat /\ order.entry \in Int /\ order.symbol \in Symbols
    BY <1>3 DEF PlanTypes, Brackets
  <1>5. paper'.cash \in Int
    <2>1. order.quantity * order.entry \in Int
      BY <1>4
    <2>. QED BY <1>1, <1>3, <2>1 DEF PlanTypes
  <1>6. paper'.held \in [Symbols -> Nat]
    <2>1. paper'.held = [paper.held EXCEPT ![order.symbol] = paper.held[order.symbol] + order.quantity]
      BY <1>1
    <2>2. paper.held[order.symbol] + order.quantity \in Nat /\ paper.held \in [Symbols -> Nat]
      BY <1>3, <1>4 DEF PlanTypes
    <2>. QED BY <2>1, <2>2
  <1>7. PlanTypes'
    BY <1>1, <1>2, <1>3, <1>5, <1>6 DEF PlanTypes
  <1>8. ASSUME alone'
        PROVE  OneAtATime(approvals, working, paper.cash)' /\ paper'.cash >= Floor
    <2>1. OneAtATime(approvals, working, paper.cash)
      BY <1>2, <1>8 DEF PlanInv
    <2>2. approvals = <<>> /\ working' = {} /\ Keeps(order, paper.cash)
      BY <1>1, <2>1 DEF OneAtATime
    <2>3. paper'.cash >= Floor
      BY <1>1, <2>2 DEF Keeps
    <2>4. OneAtATime(approvals', working', paper'.cash)
      BY <1>2, <2>2 DEF OneAtATime
    <2>. QED BY <2>3, <2>4
  <1>9. SizingAgreesWithTheGate'
    BY <1>2, NothingPlanned
  <1>10. PlansOneByOneKeepTheFloor'
    BY <1>8 DEF PlansOneByOneKeepTheFloor
  <1>. QED BY <1>7, <1>8, <1>9, <1>10 DEF PlanInv

LEMMA PlaceApprovedInv == ASSUME PlanInv, PlaceApproved PROVE PlanInv'
  <1>1. PICK i \in 1 .. Len(approvals) :
            working' = working \cup {approvals[i]} /\ approvals' = RemoveAt(approvals, i)
    BY DEF PlaceApproved
  <1>2. plan' = None /\ UNCHANGED <<paper, price, artifacts, snapshot, eligible, alone>>
    BY DEF PlaceApproved
  <1>3. PlanTypes /\ approvals \in Seq(Brackets)
    BY DEF PlanInv, PlanTypes
  <1>4. approvals' \in Seq(Brackets) /\ Len(approvals') = Len(approvals) - 1
    BY <1>1, <1>3, Removed
  <1>5. approvals[i] \in Brackets /\ Len(approvals) \in Nat
    BY <1>3
  <1>6. Len(approvals') <= PlanCap
    BY <1>3, <1>4, <1>5 DEF PlanTypes, PlanCap
  <1>7. PlanTypes'
    BY <1>1, <1>2, <1>3, <1>4, <1>5, <1>6 DEF PlanTypes
  <1>8. ASSUME alone' PROVE OneAtATime(approvals, working, paper.cash)'
    <2>1. OneAtATime(approvals, working, paper.cash)
      BY <1>2, <1>8 DEF PlanInv
    <2>2. approvals # <<>> /\ Len(approvals) = 1
      <3>1. Len(approvals) <= 1
        BY <2>1 DEF OneAtATime
      <3>2. 1 <= Len(approvals)
        BY <1>5
      <3>3. Len(approvals) = 1
        BY <1>5, <3>1, <3>2
      <3>. QED BY <3>3
    <2>3. working' = {approvals[i]} /\ Keeps(approvals[i], paper.cash)
      BY <1>1, <2>1, <2>2 DEF OneAtATime
    <2>4. approvals' = <<>>
      BY <1>4, <2>2
    <2>5. OneAtATime(approvals', working', paper'.cash)
      BY <1>2, <2>3, <2>4 DEF OneAtATime
    <2>. QED BY <2>5
  <1>9. SizingAgreesWithTheGate'
    BY <1>2, NothingPlanned
  <1>10. PlansOneByOneKeepTheFloor'
    BY <1>2 DEF PlanInv, PlansOneByOneKeepTheFloor
  <1>. QED BY <1>7, <1>8, <1>9, <1>10 DEF PlanInv

(* An approval added, the oldest one dropped at the cap.                    *)
Extended(list, o) ==
    LET all == Append(list, o) IN IF Len(all) > PlanCap THEN Tail(all) ELSE all

LEMMA Approved ==
    ASSUME NEW S, NEW list \in Seq(S), Len(list) <= PlanCap, NEW o \in S
    PROVE  /\ Extended(list, o) \in Seq(S) /\ Len(Extended(list, o)) <= PlanCap
           /\ list = <<>> => Extended(list, o) = <<o>>
  <1>. USE DEF Extended
  <1>1. /\ Append(list, o) \in Seq(S) /\ Len(Append(list, o)) = Len(list) + 1
        /\ Len(list) \in Nat
    OBVIOUS
  <1>2. CASE Len(Append(list, o)) > PlanCap
    <2>1. Tail(Append(list, o)) \in Seq(S) /\ Len(Tail(Append(list, o))) = Len(list)
      BY <1>1
    <2>2. list # <<>>
      BY <1>1, <1>2 DEF PlanCap
    <2>. QED BY <1>2, <2>1, <2>2
  <1>3. CASE ~(Len(Append(list, o)) > PlanCap)
    <2>1. list = <<>> => Append(list, o) = <<o>>
      OBVIOUS
    <2>. QED BY <1>1, <1>3, <2>1 DEF PlanCap
  <1>. QED BY <1>2, <1>3

LEMMA JustOne ==
    ASSUME NEW o, NEW cash, Keeps(o, cash) PROVE OneAtATime(<<o>>, {}, cash)
  BY DEF OneAtATime

LEMMA MakePlanInv ==
    ASSUME PlanInv, NEW s \in Symbols, NEW input \in Inputs, MakePlan(s, input)
    PROVE  PlanInv'
  <1>1. PlanAssumption /\ PlanTypes
    BY DEF PlanInv
  <1>2. PICK answer : answer = Result(s, input)
    OBVIOUS
  <1>3. Refusal(s, input) = "NO" /\ plan' = answer
    BY <1>2 DEF MakePlan
  <1>4. UNCHANGED <<paper, price, artifacts, snapshot, working>>
    BY DEF MakePlan
  <1>5. /\ answer.symbol = s /\ answer.input = input
        /\ answer.quantity \in Nat \ {0} /\ answer.entry \in Nat \ {0}
        /\ input.auto =>
                /\ answer.reasons \subseteq {"CONCENTRATION_LIMIT"}
                /\ ~LossVeto(answer.entry, input, answer.quantity)
                /\ snapshot.cash \in Int
                /\ answer.quantity * answer.entry <= snapshot.cash - input.minCash
        /\ answer.status = "ELIGIBLE_FOR_PAPER_REVIEW" =>
                /\ input.side = "BUY" /\ input.stop \in Int /\ answer.target \in Int
                /\ input.stop < answer.entry /\ answer.entry < answer.target
    BY <1>1, <1>2, <1>3, AnswersAreSound
  <1>6. SizingAgreesWithTheGate'
    BY <1>3, <1>5 DEF SizingAgreesWithTheGate, Planned, LossVeto, Magnitude
  <1>7. PlansOneByOneKeepTheFloor' \/ ~(alone' => alone)
    BY <1>4 DEF PlanInv, PlansOneByOneKeepTheFloor
  <1>8. CASE answer.status # "ELIGIBLE_FOR_PAPER_REVIEW"
    <2>1. UNCHANGED <<approvals, eligible, alone>>
      BY <1>2, <1>8 DEF MakePlan
    <2>2. PlanTypes'
      BY <1>1, <1>4, <2>1 DEF PlanTypes
    <2>3. alone' => OneAtATime(approvals, working, paper.cash)'
      BY <1>4, <2>1 DEF PlanInv, OneAtATime
    <2>. QED BY <1>1, <1>6, <1>7, <2>1, <2>2, <2>3 DEF PlanInv
  <1>9. CASE answer.status = "ELIGIBLE_FOR_PAPER_REVIEW"
    <2>1. /\ eligible < MaxPlans /\ eligible' = eligible + 1
          /\ approvals' = Extended(approvals, Approval(answer))
          /\ alone' = (alone /\ SizedAlone(input))
      BY <1>2, <1>9 DEF MakePlan, Extended
    <2>2. PICK o \in Brackets : o = Approval(answer)
      <3>1. Approval(answer) \in Brackets
        BY <1>1, <1>5, <1>9 DEF Approval, Brackets, PlanTypes
      <3>. QED BY <3>1
    <2>3. /\ approvals' \in Seq(Brackets) /\ Len(approvals') <= PlanCap
          /\ approvals = <<>> => approvals' = <<o>>
      <3>1. approvals \in Seq(Brackets) /\ Len(approvals) <= PlanCap
        BY <1>1 DEF PlanTypes
      <3>2. approvals' = Extended(approvals, o)
        BY <2>1, <2>2
      <3>. QED BY <3>1, <3>2, Approved
    <2>4. eligible' \in 0 .. MaxPlans /\ alone' \in BOOLEAN
      BY <1>1, <2>1 DEF PlanTypes, PlanAssumption
    <2>5. PlanTypes'
      BY <1>1, <1>4, <2>3, <2>4 DEF PlanTypes
    <2>6. ASSUME alone' PROVE OneAtATime(approvals, working, paper.cash)'
      <3>1. /\ alone /\ input.auto /\ snapshot.cash = paper.cash
            /\ approvals = <<>> /\ working = {}
        BY <2>1, <2>6 DEF SizedAlone
      <3>2. Accepted(input) /\ input.minCash \in Int
        BY <1>1, <1>3 DEF Refusal, PlanAssumption, PlanInputs
      <3>3. Floor \in Int /\ Floor <= input.minCash
        BY <1>1, <3>2, FloorIsLeast
      <3>4. answer.quantity * answer.entry \in Int
        BY <1>5
      <3>5. paper.cash - answer.quantity * answer.entry >= Floor
        BY <1>5, <3>1, <3>2, <3>3, <3>4
      <3>6. Keeps(o, paper.cash)
        BY <2>2, <3>5 DEF Keeps, Approval
      <3>7. OneAtATime(approvals', working', paper'.cash)
        <4>1. approvals' = <<o>> /\ working' = {} /\ paper' = paper
          BY <1>4, <2>3, <3>1
        <4>2. OneAtATime(<<o>>, {}, paper.cash)
          BY <3>6, JustOne
        <4>. QED BY <4>1, <4>2
      <3>. QED BY <3>7
    <2>7. PlansOneByOneKeepTheFloor'
      BY <1>7, <2>1
    <2>. QED BY <1>1, <1>6, <2>5, <2>6, <2>7 DEF PlanInv
  <1>. QED BY <1>8, <1>9

LEMMA PlanNextInv == PlanInv /\ [PlanNext]_planVars => PlanInv'
  <1> SUFFICES ASSUME PlanInv, [PlanNext]_planVars PROVE PlanInv'
    OBVIOUS
  <1>1. CASE UNCHANGED planVars
    BY <1>1, StutterInv
  <1>2. CASE SyncAccount
    BY <1>2, SyncAccountInv
  <1>3. CASE Scan
    BY <1>3, ScanInv
  <1>4. CASE PlaceApproved
    BY <1>4, PlaceApprovedInv
  <1>5. CASE Fill
    BY <1>5, FillInv
  <1>6. CASE Cancel
    BY <1>6, CancelInv
  <1>7. CASE \E s \in Symbols : Move(s)
    BY <1>7, MoveInv
  <1>8. CASE \E s \in Symbols, input \in Inputs : MakePlan(s, input)
    BY <1>8, MakePlanInv
  <1>9. CASE \E s \in Symbols, input \in Inputs : RefusePlan(s, input)
    BY <1>9, RefusePlanInv
  <1>. QED BY <1>1, <1>2, <1>3, <1>4, <1>5, <1>6, <1>7, <1>8, <1>9 DEF PlanNext

THEOREM PlansInvariant == PlanAssumption /\ PlanSpec => []PlanInv
  BY PlanInitInv, PlanNextInv, PTL DEF PlanSpec

(* A sized plan passes the gate, up to the concentration of an account of   *)
(* one position, and plans that come one at a time keep the cash floor.     *)
THEOREM PlansStaySafe == PlanAssumption /\ PlanSpec => []PlansAreSafe
  <1>1. PlanInv => PlansAreSafe
    BY DEF PlanInv, PlansAreSafe
  <1>. QED BY <1>1, PlansInvariant, PTL

(* Every approval and every working order is a bracket bought.              *)
THEOREM PlansTypeCorrect == PlanAssumption /\ PlanSpec => []PlanTypeOK
  <1>1. PlanInv => PlanTypeOK
    <2> SUFFICES ASSUME PlanInv PROVE PlanTypeOK
      OBVIOUS
    <2>1. ToSet(approvals) \subseteq Brackets
      BY DEF PlanInv, PlanTypes, ToSet
    <2>2. \A order \in ToSet(approvals) \cup working : order \in Brackets
      BY <2>1 DEF PlanInv, PlanTypes
    <2>3. paper.cash \in Int /\ \A s \in Symbols : paper.held[s] \in Nat
      BY DEF PlanInv, PlanTypes
    <2>. QED BY <2>2, <2>3 DEF PlanInv, PlanTypes, PlanTypeOK, Brackets
  <1>. QED BY <1>1, PlansInvariant, PTL
=============================================================================
