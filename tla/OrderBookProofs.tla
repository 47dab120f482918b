--------------------------- MODULE OrderBookProofs ---------------------------
(***************************************************************************)
(* Proofs about OrderBook: its fields keep their types, the cached best    *)
(* prices are right, and the book implements the map of resting orders     *)
(* (RestingOrders), after every sequence of calls, for every price range,  *)
(* every set of orders and snapshots of every length.                      *)
(***************************************************************************)
EXTENDS OrderBook, EngineProofs, FiniteSetTheorems

-----------------------------------------------------------------------------
(* The theorems                                                             *)

\* The two invariants are inductive together: addToLevel relies on the cached
\* best price being right to decide whether a removed level was the best one.
Inv == TypeOK /\ BestIsTop

LEMMA InvGood == Inv <=> GoodBook(book) /\ err \in {"ok", "gap", "unknown"}
BY DEF Inv, TypeOK, BestIsTop, GoodBook

LEMMA InitInv == Init => Inv
BY NewEngineGood, InvGood DEF Init

LEMMA NextInv == Inv /\ [Next]_vars => Inv'
<1> SUFFICES ASSUME GoodBook(book), err \in {"ok", "gap", "unknown"}, [Next]_vars
             PROVE  GoodBook(book') /\ err' \in {"ok", "gap", "unknown"}
  BY InvGood DEF Inv, TypeOK, BestIsTop, GoodBook
<1>1. ASSUME NEW d \in Delta, DoApplyDelta(d)
      PROVE  GoodBook(book') /\ err' \in {"ok", "gap", "unknown"}
  BY <1>1, DeltasAreDeltas, ApplyDeltaGood DEF DoApplyDelta
<1>2. ASSUME NEW entries \in Snapshots, NEW seq \in Seqs, DoLoadSnapshot(entries, seq)
      PROVE  GoodBook(book') /\ err' \in {"ok", "gap", "unknown"}
  <2>1. entries \in Seq(Entry)
    BY SnapshotsWellFormed
  <2> QED BY <1>2, <2>1, LoadSnapshotGood DEF DoLoadSnapshot
<1>3. ASSUME DoClear
      PROVE  GoodBook(book') /\ err' \in {"ok", "gap", "unknown"}
  BY <1>3, ClearGood DEF DoClear
<1>4. CASE UNCHANGED vars
  BY <1>4 DEF vars
<1> QED BY <1>1, <1>2, <1>3, <1>4 DEF Next

\* Every field of the engine keeps its type, and no level ever holds a negative
\* size, whatever sequence of ApplyDelta, LoadSnapshot and Clear is called.
THEOREM TypeCorrect == Spec => []TypeOK
<1>1. Inv => TypeOK
  BY DEF Inv
<1> QED BY <1>1, InitInv, NextInv, PTL DEF Spec

\* BestBid and BestAsk answer the best price that has a level, and answer
\* nothing exactly when the side is empty, after every sequence of calls.
THEOREM BestPricesCorrect == Spec => []BestIsTop
<1>1. Inv => BestIsTop
  BY DEF Inv
<1> QED BY <1>1, InitInv, NextInv, PTL DEF Spec

-----------------------------------------------------------------------------
(* Sums of sizes                                                            *)

\* g sums the sizes of any of the sets in D, in the order in which CHOOSE picks.
IsSum(g, w, D) ==
  g = [s \in D |-> IF s = {} THEN 0
                   ELSE LET x == CHOOSE x \in s : TRUE IN w[x].size + g[s \ {x}]]

UpTo(S, n) == {s \in SUBSET S : Cardinality(s) <= n}

\* The recursion of the community modules' MapThenSumSet is well-founded.
LEMMA SumExists ==
  ASSUME NEW w, NEW S, IsFiniteSet(S)
  PROVE  \E g : IsSum(g, w, SUBSET S)
<1>0. \A s \in SUBSET S : IsFiniteSet(s) /\ Cardinality(s) \in Nat
  BY FS_Subset, FS_CardinalityType
<1> DEFINE T == {n \in Nat : \E g : IsSum(g, w, UpTo(S, n))}
           pick(s) == CHOOSE x \in s : TRUE
<1>1. 0 \in T
  <2>1. \A s \in UpTo(S, 0) : s = {}
    BY <1>0, FS_EmptySet DEF UpTo
  <2> DEFINE g == [s \in UpTo(S, 0) |-> 0]
  <2>2. \A s \in UpTo(S, 0) :
          g[s] = IF s = {} THEN 0
                 ELSE LET x == CHOOSE x \in s : TRUE IN w[x].size + g[s \ {x}]
    BY <2>1
  <2>3. IsSum(g, w, UpTo(S, 0))
    BY <2>1, <2>2 DEF IsSum
  <2> QED BY <2>3
<1>2. ASSUME NEW n \in Nat, n \in T PROVE n + 1 \in T
  <2>1. PICK g : IsSum(g, w, UpTo(S, n))
    BY <1>2
  <2> DEFINE D == UpTo(S, n)
             E == UpTo(S, n + 1)
             h == [s \in E |-> IF s = {} THEN 0 ELSE w[pick(s)].size + g[s \ {pick(s)}]]
  <2>2. \A s \in D : g[s] = IF s = {} THEN 0 ELSE w[pick(s)].size + g[s \ {pick(s)}]
    BY <2>1 DEF IsSum
  <2>3. D \subseteq E
    BY <1>0 DEF UpTo
  <2>4. \A s \in D : h[s] = g[s]
    BY <2>2, <2>3
  <2>5. ASSUME NEW s \in E, s # {} PROVE s \ {pick(s)} \in D
    <3>1. pick(s) \in s
      BY <2>5
    <3> HIDE DEF pick
    <3>2. s \in SUBSET S /\ Cardinality(s) <= n + 1 /\ Cardinality(s) \in Nat
      BY <1>0 DEF UpTo
    <3>3. Cardinality(s \ {pick(s)}) = Cardinality(s) - 1
      BY <1>0, <3>1, <3>2, FS_RemoveElement
    <3> QED BY <3>2, <3>3 DEF UpTo
  <2>6. \A s \in E : h[s] = IF s = {} THEN 0 ELSE w[pick(s)].size + h[s \ {pick(s)}]
    <3>1. \A s \in E : h[s] = IF s = {} THEN 0 ELSE w[pick(s)].size + g[s \ {pick(s)}]
      OBVIOUS
    <3>2. \A s \in E : s # {} => h[s \ {pick(s)}] = g[s \ {pick(s)}]
      <4> HIDE DEF h, pick, D, E
      <4> QED BY <2>4, <2>5
    <3> HIDE DEF h, pick, D, E
    <3> QED BY <3>1, <3>2, Zenon
  <2> DEFINE h2 == [s \in E |-> IF s = {} THEN 0 ELSE w[pick(s)].size + h[s \ {pick(s)}]]
  <2>7. h = h2
    <3>1. DOMAIN h = E /\ DOMAIN h2 = E /\ \A s \in E : h[s] = h2[s]
      BY <2>6
    <3>2. h = [s \in E |-> h[s]] /\ h2 = [s \in E |-> h2[s]]
      OBVIOUS
    <3> QED BY <3>1, <3>2
  <2>8. IsSum(h, w, E)
    BY <2>7, Zenon DEF IsSum
  <2> QED BY <2>8
<1>3. T = Nat
  <2>1. T \subseteq Nat
    OBVIOUS
  <2> HIDE DEF T
  <2> QED BY <1>1, <1>2, <2>1, SetInduction
<1>4. Cardinality(S) \in T
  <2> HIDE DEF T
  <2> QED BY <1>0, <1>3
<1>5. UpTo(S, Cardinality(S)) = SUBSET S
  BY FS_Subset DEF UpTo
<1> QED BY <1>4, <1>5

\* The sum of the sizes of the orders in S.
SizeOf(w, S) == (CHOOSE g : IsSum(g, w, SUBSET S))[S]

SumOf(w, S) == CHOOSE g : IsSum(g, w, SUBSET S)

\* The element that CHOOSE picks.
Pick(s) == CHOOSE x \in s : TRUE

\* The sum over s is that over s without an order, and that order's size.
Sums(f, w, s) == f[s] = IF s = {} THEN 0 ELSE w[Pick(s)].size + f[s \ {Pick(s)}]

LEMMA SumIsSum ==
  ASSUME NEW w, NEW S, IsFiniteSet(S)
  PROVE  /\ SizeOf(w, S) = SumOf(w, S)[S]
         /\ \A s \in SUBSET S : Sums(SumOf(w, S), w, s)
<1>1. IsSum(SumOf(w, S), w, SUBSET S)
  BY SumExists DEF SumOf
<1> QED BY <1>1 DEF IsSum, SizeOf, SumOf, Pick, Sums

\* What is summed, and over which larger set, makes no difference.
LEMMA SumsAgree ==
  ASSUME NEW w, NEW v, NEW S, IsFiniteSet(S), NEW R, IsFiniteSet(R),
         NEW s \in SUBSET S, s \in SUBSET R, \A x \in s : w[x].size = v[x].size
  PROVE  SumOf(w, S)[s] = SumOf(v, R)[s]
<1> DEFINE f == SumOf(w, S)
           g == SumOf(v, R)
           T == {n \in Nat : \A t \in SUBSET s : Cardinality(t) = n => f[t] = g[t]}
<1>0. IsFiniteSet(s) /\ \A t \in SUBSET s : IsFiniteSet(t) /\ Cardinality(t) \in Nat
  BY FS_Subset, FS_CardinalityType
<1>1. \A t \in SUBSET s :
        /\ f[t] = IF t = {} THEN 0 ELSE w[Pick(t)].size + f[t \ {Pick(t)}]
        /\ g[t] = IF t = {} THEN 0 ELSE v[Pick(t)].size + g[t \ {Pick(t)}]
        /\ t # {} => Pick(t) \in t
  <2>1. \A t \in SUBSET S : Sums(f, w, t)
    BY SumIsSum
  <2>2. \A t \in SUBSET R : Sums(g, v, t)
    BY SumIsSum
  <2>3. \A t : t # {} => Pick(t) \in t
    BY DEF Pick
  <2>4. SUBSET s \subseteq SUBSET S /\ SUBSET s \subseteq SUBSET R
    OBVIOUS
  <2> QED BY <2>1, <2>2, <2>3, <2>4 DEF Sums
<1> HIDE DEF f, g
<1>2. 0 \in T
  BY <1>0, <1>1, FS_EmptySet
<1>3. ASSUME NEW n \in Nat, n \in T PROVE n + 1 \in T
  <2> SUFFICES ASSUME NEW t \in SUBSET s, Cardinality(t) = n + 1 PROVE f[t] = g[t]
    OBVIOUS
  <2>1. t # {}
    <3>1. Cardinality({}) = 0 /\ n + 1 # 0
      BY FS_EmptySet
    <3> QED BY <3>1
  <2> DEFINE x == Pick(t)
             u == t \ {x}
  <2>2. x \in t /\ u \in SUBSET s
    BY <1>1, <2>1
  <2> HIDE DEF x
  <2>3. Cardinality(u) = n
    BY <1>0, <2>2, FS_RemoveElement
  <2>4. f[u] = g[u]
    BY <1>3, <2>2, <2>3
  <2>5. f[t] = w[x].size + f[u] /\ g[t] = v[x].size + g[u]
    BY <1>1, <2>1 DEF x
  <2>6. w[x].size = v[x].size
    BY <2>2
  <2> QED BY <2>4, <2>5, <2>6
<1>4. Cardinality(s) \in T
  <2>1. T \subseteq Nat
    OBVIOUS
  <2> HIDE DEF T
  <2> QED BY <1>0, <1>2, <1>3, <2>1, SetInduction
<1> QED BY <1>4 DEF f, g

LEMMA SizeOfSame ==
  ASSUME NEW w, NEW v, NEW S, IsFiniteSet(S), \A x \in S : w[x].size = v[x].size
  PROVE  SizeOf(w, S) = SizeOf(v, S)
BY SumsAgree, SumIsSum

LEMMA SizeOfStep ==
  ASSUME NEW w, NEW S, IsFiniteSet(S)
  PROVE  /\ S = {} => SizeOf(w, S) = 0
         /\ S # {} => \E x \in S : /\ x = Pick(S)
                                   /\ SizeOf(w, S) = w[x].size + SizeOf(w, S \ {x})
<1>1. S = {} => SizeOf(w, S) = 0
  BY SumIsSum DEF Sums
<1>2. CASE S # {}
  <2> DEFINE x == Pick(S)
  <2>1. x \in S
    BY <1>2 DEF Pick
  <2>2. SizeOf(w, S) = w[x].size + SumOf(w, S)[S \ {x}]
    BY <1>2, SumIsSum DEF Sums
  <2> HIDE DEF x
  <2>3. IsFiniteSet(S \ {x}) /\ S \ {x} \in SUBSET S
    BY FS_RemoveElement
  <2>4. SumOf(w, S)[S \ {x}] = SumOf(w, S \ {x})[S \ {x}]
    BY <2>3, SumsAgree
  <2>5. SumOf(w, S)[S \ {x}] = SizeOf(w, S \ {x})
    BY <2>3, <2>4, SumIsSum
  <2> QED BY <1>1, <2>1, <2>2, <2>5 DEF x
<1> QED BY <1>1, <1>2

\* Sizes are natural numbers, and so are their sums; an order that is left out of
\* the sum can be added whatever CHOOSE picks.
LEMMA SizeOfWith ==
  ASSUME NEW w, NEW U, IsFiniteSet(U), \A x \in U : w[x].size \in Nat,
         NEW S \in SUBSET U
  PROVE  /\ SizeOf(w, S) \in Nat
         /\ \A x \in U \ S : SizeOf(w, S \cup {x}) = w[x].size + SizeOf(w, S)
<1>0. \A t \in SUBSET U : IsFiniteSet(t) /\ Cardinality(t) \in Nat
  BY FS_Subset, FS_CardinalityType
<1> DEFINE T == {n \in Nat : \A t \in SUBSET U : Cardinality(t) = n =>
                   /\ SizeOf(w, t) \in Nat
                   /\ \A x \in U \ t : SizeOf(w, t \cup {x}) = w[x].size + SizeOf(w, t)}
<1>1. 0 \in T
  <2> SUFFICES ASSUME NEW t \in SUBSET U, Cardinality(t) = 0
               PROVE  /\ SizeOf(w, t) \in Nat
                      /\ \A x \in U \ t : SizeOf(w, t \cup {x}) = w[x].size + SizeOf(w, t)
    OBVIOUS
  <2>1. t = {}
    BY <1>0, FS_EmptySet
  <2>2. SizeOf(w, t) = 0
    BY <1>0, <2>1, SizeOfStep
  <2>3. ASSUME NEW x \in U \ t PROVE SizeOf(w, t \cup {x}) = w[x].size + SizeOf(w, t)
    <3>1. t \cup {x} \in SUBSET U /\ t \cup {x} # {} /\ \A y \in t \cup {x} : y = x
      BY <2>1
    <3>2. PICK y \in t \cup {x} :
            SizeOf(w, t \cup {x}) = w[y].size + SizeOf(w, (t \cup {x}) \ {y})
      BY <1>0, <3>1, SizeOfStep
    <3>3. y = x /\ (t \cup {x}) \ {x} = t
      BY <2>1, <3>1
    <3> QED BY <3>2, <3>3
  <2> QED BY <2>2, <2>3
<1>2. ASSUME NEW n \in Nat, n \in T PROVE n + 1 \in T
  <2> SUFFICES ASSUME NEW t \in SUBSET U, Cardinality(t) = n + 1
               PROVE  /\ SizeOf(w, t) \in Nat
                      /\ \A x \in U \ t : SizeOf(w, t \cup {x}) = w[x].size + SizeOf(w, t)
    OBVIOUS
  <2>0. \A u \in SUBSET U : Cardinality(u) = n =>
          /\ SizeOf(w, u) \in Nat
          /\ \A x \in U \ u : SizeOf(w, u \cup {x}) = w[x].size + SizeOf(w, u)
    BY <1>2
  <2> HIDE DEF T
  <2>1. ASSUME NEW y \in t
        PROVE  /\ t \ {y} \in SUBSET U /\ Cardinality(t \ {y}) = n
               /\ SizeOf(w, t \ {y}) \in Nat
               /\ SizeOf(w, t) = w[y].size + SizeOf(w, t \ {y})
    <3>1. Cardinality(t \ {y}) = Cardinality(t) - 1 /\ t \ {y} \in SUBSET U
      BY <1>0, FS_RemoveElement
    <3>1a. Cardinality(t \ {y}) = n
      BY <3>1
    <3>2. y \in U \ (t \ {y}) /\ (t \ {y}) \cup {y} = t
      OBVIOUS
    <3> QED BY <2>0, <3>1, <3>1a, <3>2
  <2>2. PICK z \in t : TRUE
    <3>1. Cardinality({}) = 0 /\ n + 1 # 0
      BY FS_EmptySet
    <3> QED BY <3>1
  <2>3. SizeOf(w, t) \in Nat
    <3>1. w[z].size \in Nat /\ SizeOf(w, t \ {z}) \in Nat
      BY <2>1
    <3> QED BY <2>1, <3>1
  <2>4. ASSUME NEW x \in U \ t PROVE SizeOf(w, t \cup {x}) = w[x].size + SizeOf(w, t)
    <3>1. t \cup {x} \in SUBSET U /\ t \cup {x} # {}
      OBVIOUS
    <3>2. PICK y \in t \cup {x} :
            SizeOf(w, t \cup {x}) = w[y].size + SizeOf(w, (t \cup {x}) \ {y})
      BY <1>0, <3>1, SizeOfStep
    <3>3. CASE y = x
      <4>1. (t \cup {x}) \ {x} = t
        OBVIOUS
      <4> QED BY <3>2, <3>3, <4>1
    <3>4. CASE y \in t
      <4>1. (t \cup {x}) \ {y} = (t \ {y}) \cup {x} /\ x \in U \ (t \ {y})
        BY <3>4
      <4>2. SizeOf(w, (t \ {y}) \cup {x}) = w[x].size + SizeOf(w, t \ {y})
        BY <2>0, <2>1, <3>4, <4>1
      <4>3. w[x].size \in Nat /\ w[y].size \in Nat /\ SizeOf(w, t \ {y}) \in Nat
        BY <2>1, <3>4
      <4>4. SizeOf(w, t \cup {x}) = w[y].size + (w[x].size + SizeOf(w, t \ {y}))
        BY <3>2, <4>1, <4>2
      <4>5. SizeOf(w, t) = w[y].size + SizeOf(w, t \ {y})
        BY <2>1, <3>4
      <4> QED BY <4>3, <4>4, <4>5
    <3> QED BY <3>3, <3>4
  <2> QED BY <2>3, <2>4
<1>3. Cardinality(S) \in T
  <2>1. T \subseteq Nat
    OBVIOUS
  <2> HIDE DEF T
  <2> QED BY <1>0, <1>1, <1>2, <2>1, SetInduction
<1> QED BY <1>3

-----------------------------------------------------------------------------
(* What rests at a price                                                    *)

\* The orders resting at a price, and the total size of them.
Resting(orders, side, p) == {i \in DOMAIN orders : orders[i].side = side /\ orders[i].price = p}
Rests(orders, side, p) == SizeOf(orders, Resting(orders, side, p))

Orders == UNION {[S -> OrderState] : S \in SUBSET OrderIds}

\* An order that is put in adds its size at its price and nowhere else.
LEMMA RestsWith ==
  ASSUME NEW orders \in Orders, IsFiniteSet(DOMAIN orders), NEW id \in OrderIds \ DOMAIN orders,
         NEW o \in OrderState
  PROVE  /\ With(orders, id, o) \in Orders /\ IsFiniteSet(DOMAIN With(orders, id, o))
         /\ \A side \in Sides, p \in Prices :
              /\ Rests(orders, side, p) \in Nat
              /\ Rests(With(orders, id, o), side, p)
                   = IF side = o.side /\ p = o.price THEN o.size + Rests(orders, side, p)
                     ELSE Rests(orders, side, p)
<1> DEFINE w == With(orders, id, o)
           U == DOMAIN w
<1>1. PICK S \in SUBSET OrderIds : orders \in [S -> OrderState]
  BY DEF Orders
<1>2. w \in [S \cup {id} -> OrderState] /\ S \cup {id} \in SUBSET OrderIds /\ DOMAIN orders = S
  BY <1>1 DEF With
<1>3. w \in Orders
  BY <1>2 DEF Orders
<1>4. U = DOMAIN orders \cup {id} /\ IsFiniteSet(U)
  BY <1>1, <1>2, FS_AddElement
<1>5. w[id] = o /\ \A i \in DOMAIN orders : w[i] = orders[i]
  BY DEF With
<1> HIDE DEF w
<1>6. \A i \in U : w[i].size \in Nat
  <2>1. \A i \in U : w[i] \in OrderState
    BY <1>2, <1>4
  <2> QED BY <2>1, SizesNatural DEF OrderState
<1>7. ASSUME NEW side \in Sides, NEW p \in Prices
      PROVE  /\ Rests(orders, side, p) \in Nat
             /\ Rests(w, side, p) = IF side = o.side /\ p = o.price THEN o.size + Rests(orders, side, p)
                                    ELSE Rests(orders, side, p)
  <2> DEFINE R == Resting(orders, side, p)
  <2>1. R \subseteq DOMAIN orders /\ R \in SUBSET U /\ id \in U \ R /\ IsFiniteSet(R)
    <3>1. R \subseteq DOMAIN orders
      BY DEF Resting
    <3> QED BY <3>1, <1>4, FS_Subset
  <2>2. Resting(w, side, p) = IF side = o.side /\ p = o.price THEN R \cup {id} ELSE R
    BY <1>4, <1>5 DEF Resting
  <2> HIDE DEF R, U
  <2>3. SizeOf(w, R) = SizeOf(orders, R)
    <3>1. \A i \in R : w[i].size = orders[i].size
      BY <1>5, <2>1
    <3> QED BY <2>1, <3>1, SizeOfSame
  <2>4. SizeOf(w, R) \in Nat /\ SizeOf(w, R \cup {id}) = w[id].size + SizeOf(w, R)
    BY <1>4, <1>6, <2>1, SizeOfWith
  <2>5. Rests(orders, side, p) = SizeOf(orders, R)
    BY DEF Rests, R
  <2>6. Rests(w, side, p) = SizeOf(w, Resting(w, side, p))
    BY DEF Rests
  <2> QED BY <1>5, <2>2, <2>3, <2>4, <2>5, <2>6
<1> QED BY <1>3, <1>4, <1>7 DEF w

\* Taking an order out undoes putting it in.
LEMMA WithWithout ==
  ASSUME NEW orders \in Orders, NEW id \in DOMAIN orders
  PROVE  /\ Without(orders, id) \in Orders
         /\ With(Without(orders, id), id, orders[id]) = orders
         /\ id \in OrderIds \ DOMAIN Without(orders, id) /\ orders[id] \in OrderState
         /\ DOMAIN Without(orders, id) = DOMAIN orders \ {id}
<1>1. PICK S \in SUBSET OrderIds : orders \in [S -> OrderState]
  BY DEF Orders
<1>2. Without(orders, id) \in [S \ {id} -> OrderState] /\ S \ {id} \in SUBSET OrderIds
  BY <1>1 DEF Without
<1>3. Without(orders, id) \in Orders
  BY <1>2 DEF Orders
<1>4. With(Without(orders, id), id, orders[id]) = orders
  <2>1. DOMAIN Without(orders, id) \cup {id} = S
    BY <1>1, <1>2
  <2>2. With(Without(orders, id), id, orders[id]) = [i \in S |-> orders[i]]
    BY <1>1, <2>1 DEF With, Without
  <2> QED BY <1>1, <2>2
<1> QED BY <1>1, <1>2, <1>3, <1>4

\* Replacing an order is taking it out and putting the new one in.
LEMMA WithReplaces ==
  ASSUME NEW orders, NEW id, NEW o
  PROVE  With(Without(orders, id), id, o) = With(orders, id, o)
<1>1. (DOMAIN orders \ {id}) \cup {id} = DOMAIN orders \cup {id}
  OBVIOUS
<1> QED BY <1>1 DEF With, Without

-----------------------------------------------------------------------------
(* What a change of a level does to the levels                              *)

LEMMA AddToLevelLevels ==
  ASSUME NEW b \in Books, NEW side \in Sides, NEW price \in Prices, NEW delta \in Int
  PROVE  \A s \in Sides, p \in Prices :
           AddToLevel(b, side, price, delta).levels[s][p]
             = IF s = side /\ p = price
               THEN IF b.levels[s][p] + delta <= 0 THEN 0 ELSE b.levels[s][p] + delta
               ELSE b.levels[s][p]
<1>1. ASSUME NEW c
      PROVE  InvalidateBestIfMatches(c, side, price).levels = c.levels
  BY DEF InvalidateBestIfMatches, RecomputeBest
<1>2. ASSUME NEW c
      PROVE  UpdateBestOnUpsert(c, side, price).levels = c.levels
  BY DEF UpdateBestOnUpsert
<1> DEFINE size == b.levels[side][price] + delta
           c0 == [b EXCEPT !.levels[side][price] = 0]
           c1 == [b EXCEPT !.levels[side][price] = size]
<1>3. AddToLevel(b, side, price, delta) =
        IF size <= 0 THEN InvalidateBestIfMatches(c0, side, price)
        ELSE UpdateBestOnUpsert(c1, side, price)
  BY DEF AddToLevel
<1>4. AddToLevel(b, side, price, delta).levels = IF size <= 0 THEN c0.levels ELSE c1.levels
  <2> HIDE DEF c0, c1, size
  <2> QED BY <1>1, <1>2, <1>3
<1>5. ASSUME NEW n
      PROVE  \A s \in Sides, p \in Prices :
               [b EXCEPT !.levels[side][price] = n].levels[s][p]
                 = IF s = side /\ p = price THEN n ELSE b.levels[s][p]
  BY DEF Books
<1>6. \A s \in Sides, p \in Prices :
        /\ c0.levels[s][p] = IF s = side /\ p = price THEN 0 ELSE b.levels[s][p]
        /\ c1.levels[s][p] = IF s = side /\ p = price THEN size ELSE b.levels[s][p]
  BY <1>5
<1> HIDE DEF c0, c1
<1> QED BY <1>4, <1>6

\* The levels of the book are the totals of the orders.
LevelsTotal(b, orders) ==
  /\ orders \in Orders /\ IsFiniteSet(DOMAIN orders)
  /\ \A side \in Sides, p \in Prices : b.levels[side][p] = Rests(orders, side, p)

LEMMA LevelsGainOrder ==
  ASSUME NEW b \in Books, NEW orders, LevelsTotal(b, orders),
         NEW id \in OrderIds \ DOMAIN orders, NEW o \in OrderState
  PROVE  LevelsTotal(AddToLevel(b, o.side, o.price, o.size), With(orders, id, o))
<1> DEFINE w == With(orders, id, o)
           c == AddToLevel(b, o.side, o.price, o.size)
<1>0. o.side \in Sides /\ o.price \in Prices /\ o.size \in Sizes
  BY DEF OrderState
<1>1. o.side \in Sides /\ o.price \in Prices /\ o.size \in Nat /\ o.size \in Int
  BY <1>0, SizesNatural, SizeIsNumber
<1>2. /\ w \in Orders /\ IsFiniteSet(DOMAIN w)
      /\ \A side \in Sides, p \in Prices :
           /\ Rests(orders, side, p) \in Nat
           /\ Rests(w, side, p) = IF side = o.side /\ p = o.price
                                  THEN o.size + Rests(orders, side, p)
                                  ELSE Rests(orders, side, p)
  BY RestsWith DEF LevelsTotal
<1>3. \A s \in Sides, p \in Prices :
        c.levels[s][p] = IF s = o.side /\ p = o.price
                         THEN IF b.levels[s][p] + o.size <= 0 THEN 0 ELSE b.levels[s][p] + o.size
                         ELSE b.levels[s][p]
  BY <1>1, AddToLevelLevels
<1> HIDE DEF w, c
<1>4. \A s \in Sides, p \in Prices : c.levels[s][p] = Rests(w, s, p)
  BY <1>1, <1>2, <1>3 DEF LevelsTotal
<1> QED BY <1>2, <1>4 DEF LevelsTotal, w, c

LEMMA LevelsLoseOrder ==
  ASSUME NEW b \in Books, NEW orders, LevelsTotal(b, orders), NEW id \in DOMAIN orders
  PROVE  LevelsTotal(AddToLevel(b, orders[id].side, orders[id].price, -orders[id].size),
                     Without(orders, id))
<1> DEFINE w == Without(orders, id)
           o == orders[id]
           c == AddToLevel(b, o.side, o.price, -o.size)
<1>0. orders \in Orders /\ IsFiniteSet(DOMAIN orders)
  BY DEF LevelsTotal
<1>1. /\ w \in Orders /\ With(w, id, o) = orders /\ id \in OrderIds \ DOMAIN w /\ o \in OrderState
      /\ IsFiniteSet(DOMAIN w)
  <2>1. DOMAIN w = DOMAIN orders \ {id}
    BY <1>0, WithWithout
  <2>2. IsFiniteSet(DOMAIN w)
    BY <1>0, <2>1, FS_RemoveElement
  <2> QED BY <1>0, <2>2, WithWithout
<1> HIDE DEF w, o
<1>1a. o.side \in Sides /\ o.price \in Prices /\ o.size \in Sizes
  BY <1>1 DEF OrderState
<1>2. o.side \in Sides /\ o.price \in Prices /\ o.size \in Nat /\ -o.size \in Int
  BY <1>1a, SizesNatural, SizeIsNumber
<1>3. \A side \in Sides, p \in Prices :
        /\ Rests(w, side, p) \in Nat
        /\ Rests(orders, side, p) = IF side = o.side /\ p = o.price THEN o.size + Rests(w, side, p)
                                    ELSE Rests(w, side, p)
  BY <1>1, RestsWith
<1>4. \A s \in Sides, p \in Prices :
        c.levels[s][p] = IF s = o.side /\ p = o.price
                         THEN IF b.levels[s][p] + (-o.size) <= 0 THEN 0
                              ELSE b.levels[s][p] + (-o.size)
                         ELSE b.levels[s][p]
  BY <1>2, AddToLevelLevels
<1> HIDE DEF c
<1>5. \A s \in Sides, p \in Prices : c.levels[s][p] = Rests(w, s, p)
  BY <1>2, <1>3, <1>4 DEF LevelsTotal
<1>6. LevelsTotal(c, w)
  BY <1>1, <1>5 DEF LevelsTotal
<1> QED BY <1>6 DEF w, c, o

-----------------------------------------------------------------------------
(* Every method keeps the levels equal to the totals of the orders          *)

TrueLevels(b) == LevelsTotal(b, b.orders)

LEMMA SameLevels ==
  ASSUME NEW b, NEW c, c.levels = b.levels, NEW orders, LevelsTotal(b, orders)
  PROVE  LevelsTotal(c, orders)
BY DEF LevelsTotal

LEMMA NoOrdersTotal ==
  ASSUME NEW b, b.orders = <<>>, b.levels = [s \in Sides |-> [p \in Prices |-> 0]]
  PROVE  TrueLevels(b)
<1>1. <<>> \in [{} -> OrderState] /\ {} \in SUBSET OrderIds /\ DOMAIN <<>> = {}
  OBVIOUS
<1>2. <<>> \in Orders /\ IsFiniteSet(DOMAIN <<>>)
  BY <1>1, FS_EmptySet DEF Orders
<1>3. ASSUME NEW side \in Sides, NEW p \in Prices
      PROVE  b.levels[side][p] = Rests(b.orders, side, p)
  <2>1. Resting(b.orders, side, p) = {}
    BY <1>1 DEF Resting
  <2>2. SizeOf(b.orders, {}) = 0
    BY SizeOfStep, FS_EmptySet
  <2>3. Rests(b.orders, side, p) = 0
    BY <2>1, <2>2 DEF Rests
  <2> QED BY <2>3
<1> QED BY <1>2, <1>3 DEF TrueLevels, LevelsTotal

LEMMA NewEngineTotal == TrueLevels(NewEngine)
BY NoOrdersTotal DEF NewEngine

LEMMA ClearTotal ==
  ASSUME NEW b \in Books
  PROVE  TrueLevels(Clear(b))
<1>1. /\ Clear(b).orders = <<>>
      /\ Clear(b).levels = [s \in Sides |-> [p \in Prices |-> 0]]
  BY DEF Clear, Books
<1> HIDE DEF Clear
<1> QED BY <1>1, NoOrdersTotal

LEMMA AdvanceTotal ==
  ASSUME NEW b \in Books, TrueLevels(b), NEW seq
  PROVE  TrueLevels(Advance(b, seq))
<1>1. Advance(b, seq).orders = b.orders /\ Advance(b, seq).levels = b.levels
  BY DEF Advance, Books
<1> HIDE DEF Advance
<1> QED BY <1>1, SameLevels DEF TrueLevels

\* The tail of Upsert and the whole of AddEntry: a new order comes to rest.
LEMMA ComesToRest ==
  ASSUME NEW b, GoodBook(b), NEW orders, LevelsTotal(b, orders),
         NEW id \in OrderIds \ DOMAIN orders, NEW o \in OrderState,
         With(orders, id, o) = With(b.orders, id, o)
  PROVE  TrueLevels(AddToLevel(PutOrder(b, id, o), o.side, o.price, o.size))
<1> DEFINE c == PutOrder(b, id, o)
           d == AddToLevel(c, o.side, o.price, o.size)
<1>1. c \in Books /\ c.levels = b.levels /\ c.orders = With(b.orders, id, o)
  BY PutOrderGood, PutOrderOrders DEF GoodBook, SameButOrders
<1> HIDE DEF c
<1>2. LevelsTotal(c, orders)
  BY <1>1, SameLevels
<1>3. LevelsTotal(d, With(orders, id, o))
  BY <1>1, <1>2, LevelsGainOrder
<1>4. d.orders = c.orders
  BY <1>1, AddToLevelOrders
<1> QED BY <1>1, <1>3, <1>4 DEF TrueLevels, c

LEMMA UpsertTotal ==
  ASSUME NEW b, GoodBook(b), TrueLevels(b), NEW id \in OrderIds, NEW o \in OrderState
  PROVE  TrueLevels(Upsert(b, id, o))
<1> DEFINE c == Unrest(b, id)
<1>1. GoodBook(c) /\ c.orders = b.orders
  BY AddToLevelGood, AddToLevelOrders, TrackedOrder DEF Unrest, GoodBook
<1>2. CASE id \in DOMAIN b.orders
  <2>1. LevelsTotal(c, Without(b.orders, id))
    BY <1>2, LevelsLoseOrder DEF TrueLevels, GoodBook, Unrest
  <2>2. id \in OrderIds \ DOMAIN Without(b.orders, id)
    BY <1>2, WithWithout DEF TrueLevels, LevelsTotal
  <2>3. With(Without(b.orders, id), id, o) = With(c.orders, id, o)
    BY <1>1, WithReplaces
  <2> HIDE DEF c
  <2>4. TrueLevels(AddToLevel(PutOrder(c, id, o), o.side, o.price, o.size))
    BY <1>1, <2>1, <2>2, <2>3, ComesToRest
  <2> QED BY <2>4 DEF Upsert, c
<1>3. CASE id \notin DOMAIN b.orders
  <2>1. c = b
    BY <1>3 DEF Unrest
  <2>2. TrueLevels(AddToLevel(PutOrder(b, id, o), o.side, o.price, o.size))
    BY <1>3, ComesToRest DEF TrueLevels
  <2> QED BY <2>1, <2>2 DEF Upsert
<1> QED BY <1>2, <1>3

LEMMA DeleteTotal ==
  ASSUME NEW b, GoodBook(b), TrueLevels(b), NEW id \in DOMAIN b.orders
  PROVE  TrueLevels(Delete(b, id))
<1> DEFINE c == DropOrder(b, id)
           d == AddToLevel(c, b.orders[id].side, b.orders[id].price, -b.orders[id].size)
<1>1. c \in Books /\ c.levels = b.levels /\ c.orders = Without(b.orders, id)
  BY DropOrderGood, DropOrderOrders, TrackedOrder DEF GoodBook, SameButOrders
<1> HIDE DEF c
<1>2. LevelsTotal(c, b.orders)
  BY <1>1, SameLevels DEF TrueLevels
<1>3. LevelsTotal(d, Without(b.orders, id))
  BY <1>1, <1>2, LevelsLoseOrder
<1>4. d.orders = c.orders
  BY <1>1, AddToLevelOrders
<1> QED BY <1>1, <1>3, <1>4 DEF TrueLevels, Delete, c

LEMMA ApplyDeltaTotal ==
  ASSUME NEW b, GoodBook(b), TrueLevels(b), NEW d, IsDelta(d)
  PROVE  TrueLevels(ApplyDelta(b, d).book)
<1>0. d.seq \in Seqs /\ d.id \in OrderIds
  BY DEF IsDelta
<1>1. CASE IsGap(b, d.seq)
  BY <1>1 DEF ApplyDelta
<1>2. CASE ~IsGap(b, d.seq) /\ d.action = "upsert"
  <2> DEFINE u == Upsert(b, d.id, OrderOf(d))
  <2>1. OrderOf(d) \in OrderState
    BY <1>2 DEF IsDelta
  <2>2. ApplyDelta(b, d) = [book |-> Advance(u, d.seq), err |-> "ok"]
    BY <1>2 DEF ApplyDelta
  <2>3. TrueLevels(u) /\ u \in Books
    BY <1>0, <2>1, UpsertTotal, UpsertGood DEF GoodBook
  <2> HIDE DEF u
  <2>4. TrueLevels(Advance(u, d.seq))
    BY <2>3, AdvanceTotal
  <2>5. ApplyDelta(b, d).book = Advance(u, d.seq)
    BY <2>2
  <2> QED BY <2>4, <2>5
<1>3. CASE ~IsGap(b, d.seq) /\ d.action # "upsert" /\ d.id \in DOMAIN b.orders
  <2> DEFINE e == Delete(b, d.id)
  <2>2. ApplyDelta(b, d) = [book |-> Advance(e, d.seq), err |-> "ok"]
    BY <1>3 DEF ApplyDelta
  <2>3. TrueLevels(e) /\ e \in Books
    BY <1>3, DeleteTotal, DeleteGood DEF GoodBook
  <2> HIDE DEF e
  <2>4. TrueLevels(Advance(e, d.seq))
    BY <2>3, AdvanceTotal
  <2>5. ApplyDelta(b, d).book = Advance(e, d.seq)
    BY <2>2
  <2> QED BY <2>4, <2>5
<1>4. CASE ~IsGap(b, d.seq) /\ d.action # "upsert" /\ d.id \notin DOMAIN b.orders
  <2>2. ApplyDelta(b, d) = [book |-> Advance(b, d.seq), err |-> "unknown"]
    BY <1>4 DEF ApplyDelta
  <2>4. TrueLevels(Advance(b, d.seq))
    BY AdvanceTotal DEF GoodBook
  <2>5. ApplyDelta(b, d).book = Advance(b, d.seq)
    BY <2>2
  <2> QED BY <2>4, <2>5
<1> QED BY <1>1, <1>2, <1>3, <1>4

LEMMA LoadSnapshotTotal ==
  ASSUME NEW b, GoodBook(b), NEW entries \in Seq(Entry), Unique(entries), NEW seq
  PROVE  TrueLevels(LoadSnapshot(b, entries, seq))
<1> DEFINE c == Clear(b)
           f == AfterEntries(c, entries)
           T == {i \in Nat : i <= Len(entries) => TrueLevels(f[i])}
<1>0. Len(entries) \in Nat /\ DOMAIN entries = 1..Len(entries)
  OBVIOUS
<1>1. GoodBook(c) /\ c.orders = <<>> /\ TrueLevels(c)
  BY ClearGood, ClearFields, ClearTotal DEF GoodBook
<1> HIDE DEF c
<1>2. /\ \A i \in 0..Len(entries) :
           f[i] = IF i = 0 THEN c ELSE AddEntry(f[i - 1], entries[i])
      /\ \A i \in 0..Len(entries) : GoodBook(f[i]) /\ ListsUpTo(f[i].orders, entries, i)
  BY <1>1, AfterEntriesIsLoop, AfterEntriesGood, AfterEntriesOrders DEF IsLoop
<1> HIDE DEF f
<1>3. 0 \in T
  BY <1>0, <1>1, <1>2
<1>4. ASSUME NEW i \in Nat, i \in T PROVE i + 1 \in T
  <2> SUFFICES ASSUME i + 1 <= Len(entries) PROVE TrueLevels(f[i + 1])
    OBVIOUS
  <2> DEFINE e == entries[i + 1]
  <2>1. i \in 0..Len(entries) /\ i + 1 \in 0..Len(entries) /\ i + 1 \in DOMAIN entries /\ i <= Len(entries)
    BY <1>0
  <2>2. f[i + 1] = AddEntry(f[i], e)
    <3>1. i + 1 # 0 /\ (i + 1) - 1 = i
      OBVIOUS
    <3> QED BY <1>2, <2>1, <3>1
  <2>3. GoodBook(f[i]) /\ ListsUpTo(f[i].orders, entries, i) /\ LevelsTotal(f[i], f[i].orders)
    BY <1>2, <1>4, <2>1 DEF TrueLevels
  <2>4. e \in Entry /\ e.id \in OrderIds /\ OrderOf(e) \in OrderState
        /\ OrderOf(e).side = e.side /\ OrderOf(e).price = e.price /\ OrderOf(e).size = e.size
    <3>1. e \in Entry
      BY <2>1
    <3> HIDE DEF e
    <3>2. e.id \in OrderIds /\ e.side \in Sides /\ e.price \in Prices /\ e.size \in Sizes
      BY <3>1 DEF Entry
    <3> QED BY <3>1, <3>2 DEF OrderState, OrderOf
  <2>5. e.id \notin DOMAIN f[i].orders
    <3>1. ASSUME NEW j \in 1..i PROVE entries[j].id # e.id
      <4>1. j \in DOMAIN entries /\ j # i + 1
        BY <1>0, <2>1
      <4> QED BY <2>1, <4>1 DEF Unique
    <3> QED BY <2>3, <3>1 DEF ListsUpTo
  <2> HIDE DEF e
  <2>6. TrueLevels(AddToLevel(PutOrder(f[i], e.id, OrderOf(e)), OrderOf(e).side,
                              OrderOf(e).price, OrderOf(e).size))
    BY <2>3, <2>4, <2>5, ComesToRest
  <2> QED BY <2>2, <2>4, <2>6 DEF AddEntry
<1>5. Len(entries) \in T
  <2>1. T \subseteq Nat
    OBVIOUS
  <2> HIDE DEF T
  <2> QED BY <1>0, <1>3, <1>4, <2>1, SetInduction
<1>6. TrueLevels(f[Len(entries)]) /\ f[Len(entries)] \in Books
  BY <1>0, <1>2, <1>5 DEF GoodBook
<1>7. LoadSnapshot(b, entries, seq) = Advance(f[Len(entries)], seq)
  BY DEF LoadSnapshot, f, c
<1> QED BY <1>6, <1>7, AdvanceTotal

-----------------------------------------------------------------------------
(* The levels a reader is shown                                             *)

\* The place of a price among the prices S of a side, and the price in a place.
Rank(side, S, p) == Cardinality({q \in S : Better(side, q, p)}) + 1
Ranked(side, S, k) == CHOOSE p \in S : Rank(side, S, p) = k

\* The better price comes first.
LEMMA BetterRanksBefore ==
  ASSUME NEW side \in Sides, NEW S \in SUBSET Prices
  PROVE  /\ IsFiniteSet(S) /\ Cardinality(S) \in Nat
         /\ \A p \in S : Rank(side, S, p) \in 1..Cardinality(S)
         /\ \A p, q \in S : Better(side, p, q) => Rank(side, S, p) < Rank(side, S, q)
<1>0. Prices \subseteq Int /\ IsFiniteSet(Prices)
  BY PriceRange, FS_Interval DEF Prices
<1>1. IsFiniteSet(S) /\ Cardinality(S) \in Nat
  BY <1>0, FS_Subset, FS_CardinalityType
<1> DEFINE over(p) == {q \in S : Better(side, q, p)}
<1>2. \A p \in S : over(p) \in SUBSET S /\ p \notin over(p)
  BY <1>0 DEF Better
<1>3. \A p \in S : IsFiniteSet(over(p)) /\ Cardinality(over(p)) \in Nat
  BY <1>1, <1>2, FS_Subset, FS_CardinalityType
<1>4. ASSUME NEW p \in S PROVE Rank(side, S, p) \in 1..Cardinality(S)
  <2>1. over(p) \in SUBSET S /\ over(p) # S
    BY <1>2
  <2>2. Cardinality(over(p)) <= Cardinality(S) /\ Cardinality(over(p)) # Cardinality(S)
    BY <1>1, <2>1, FS_Subset
  <2>3. Rank(side, S, p) = Cardinality(over(p)) + 1
    BY DEF Rank
  <2> HIDE DEF over
  <2> QED BY <1>1, <1>3, <2>2, <2>3
<1>5. ASSUME NEW p \in S, NEW q \in S, Better(side, p, q)
      PROVE  Rank(side, S, p) < Rank(side, S, q)
  <2>1. over(p) \subseteq over(q)
    <3>1. ASSUME NEW x \in S, Better(side, x, p) PROVE Better(side, x, q)
      <4>1. x \in Int /\ p \in Int /\ q \in Int
        BY <1>0
      <4> QED BY <1>5, <3>1, <4>1 DEF Better
    <3> QED BY <3>1
  <2>2. p \in over(q) /\ p \notin over(p)
    BY <1>2, <1>5
  <2>3. over(p) \in SUBSET over(q) /\ over(p) # over(q)
    BY <2>1, <2>2
  <2>4. Rank(side, S, p) = Cardinality(over(p)) + 1 /\ Rank(side, S, q) = Cardinality(over(q)) + 1
    BY DEF Rank
  <2> HIDE DEF over
  <2>5. /\ Cardinality(over(p)) <= Cardinality(over(q))
        /\ Cardinality(over(p)) # Cardinality(over(q))
    BY <1>3, <2>3, FS_Subset
  <2> QED BY <1>3, <2>4, <2>5
<1> QED BY <1>1, <1>4, <1>5

\* There is exactly one price in every place.
LEMMA EveryPlaceIsTaken ==
  ASSUME NEW side \in Sides, NEW S \in SUBSET Prices
  PROVE  /\ \A k \in 1..Cardinality(S) :
              Ranked(side, S, k) \in S /\ Rank(side, S, Ranked(side, S, k)) = k
         /\ \A p \in S : Ranked(side, S, Rank(side, S, p)) = p
<1> DEFINE N == Cardinality(S)
           r == [p \in S |-> Rank(side, S, p)]
<1>0. Prices \subseteq Int
  BY PriceRange DEF Prices
<1>1. /\ IsFiniteSet(S) /\ N \in Nat
      /\ \A p \in S : Rank(side, S, p) \in 1..N
      /\ \A p, q \in S : Better(side, p, q) => Rank(side, S, p) < Rank(side, S, q)
  BY BetterRanksBefore
<1>2. \A p, q \in S : p = q \/ Better(side, p, q) \/ Better(side, q, p)
  BY <1>0 DEF Better
<1>3. \A p, q \in S : Rank(side, S, p) = Rank(side, S, q) => p = q
  <2>1. \A p \in S : Rank(side, S, p) \in Int
    BY <1>1
  <2> QED BY <1>1, <1>2, <2>1
<1>4. r \in Injection(S, 1..N)
  <2>1. r \in [S -> 1..N]
    BY <1>1
  <2>2. \A p, q \in S : r[p] = r[q] => p = q
    BY <1>3
  <2>3. IsInjective(r)
    BY <2>1, <2>2 DEF IsInjective
  <2> QED BY <2>1, <2>3 DEF Injection
<1>5. r \in Surjection(S, 1..N)
  <2>1. IsFiniteSet(1..N) /\ Cardinality(1..N) = N
    BY <1>1, FS_Interval
  <2> HIDE DEF r
  <2> QED BY <1>4, <2>1, FS_Injection
<1>6. ASSUME NEW k \in 1..N
      PROVE  Ranked(side, S, k) \in S /\ Rank(side, S, Ranked(side, S, k)) = k
  <2>1. \E p \in S : r[p] = k
    BY <1>5 DEF Surjection
  <2>2. \E p \in S : Rank(side, S, p) = k
    BY <2>1
  <2> QED BY <2>2 DEF Ranked
<1>7. ASSUME NEW p \in S PROVE Ranked(side, S, Rank(side, S, p)) = p
  <2>1. Rank(side, S, p) \in 1..N
    BY <1>1
  <2> QED BY <1>3, <1>6, <2>1
<1> QED BY <1>6, <1>7

LEMMA TotalIsRests ==
  ASSUME NEW orders, NEW side, NEW p
  PROVE  Abstract!Total(orders, side, p) = Rests(orders, side, p)
<1>1. Abstract!At(orders, side, p) = Resting(orders, side, p)
  BY DEF Abstract!At, Resting
<1>2. Abstract!Total(orders, side, p) = SizeOf(orders, Abstract!At(orders, side, p))
  BY DEF Abstract!Total, Abstract!MapThenSumSet, Abstract!MapThenFoldSet, SizeOf, IsSum
<1> QED BY <1>1, <1>2 DEF Rests

LEMMA FunctionIsSequence ==
  ASSUME NEW n \in Nat, NEW T, NEW f \in [1..n -> T]
  PROVE  f \in Seq(T)
OBVIOUS

LEMMA LevelsAre ==
  ASSUME NEW b, NEW side
  PROVE  Levels(b, side) = [k \in 1..Cardinality(Occupied(b, side)) |->
                              [price |-> Ranked(side, Occupied(b, side), k),
                               size |-> b.levels[side][Ranked(side, Occupied(b, side), k)]]]
BY DEF Levels, Ranked, Rank

\* Levels lists the totals of the orders, best price first, and the cached best
\* price is the first level.
LEMMA LevelsListed ==
  ASSUME NEW b, GoodBook(b), TrueLevels(b), NEW side \in Sides
  PROVE  /\ Abstract!ListsLevels(Levels(b, side), b.orders, side)
         /\ Best(b, side) = IF Levels(b, side) = <<>> THEN <<>> ELSE <<Levels(b, side)[1]>>
<1> DEFINE S == Occupied(b, side)
           N == Cardinality(S)
           at(k) == Ranked(side, S, k)
           L == Levels(b, side)
<1>0. Prices \subseteq Int /\ S \in SUBSET Prices
  BY PriceRange DEF Prices, Occupied
<1>1. /\ IsFiniteSet(S) /\ N \in Nat
      /\ \A p \in S : Rank(side, S, p) \in 1..N
      /\ \A p, q \in S : Better(side, p, q) => Rank(side, S, p) < Rank(side, S, q)
      /\ \A k \in 1..N : at(k) \in S /\ Rank(side, S, at(k)) = k
      /\ \A p \in S : at(Rank(side, S, p)) = p
  BY <1>0, BetterRanksBefore, EveryPlaceIsTaken
<1>2. L = [k \in 1..N |-> [price |-> at(k), size |-> b.levels[side][at(k)]]]
  BY LevelsAre
<1>3. /\ DOMAIN L = 1..N
      /\ \A k \in 1..N : L[k] = [price |-> at(k), size |-> b.levels[side][at(k)]]
  BY <1>2
<1>3a. \A k \in 1..N : L[k].price = at(k) /\ L[k].size = b.levels[side][at(k)]
  BY <1>3
<1>4. \A p \in Prices : /\ b.levels[side][p] \in Nat
                        /\ Abstract!Total(b.orders, side, p) = b.levels[side][p]
  BY TotalIsRests DEF GoodBook, Books, TrueLevels, LevelsTotal
<1>5. \A p \in Prices : p \in S <=> Abstract!Total(b.orders, side, p) > 0
  BY <1>4 DEF Occupied
<1> HIDE DEF S, at, L
<1>6. L \in Seq([price : Prices, size : Nat])
  <2>1. ASSUME NEW k \in 1..N PROVE L[k] \in [price : Prices, size : Nat]
    <3>1. at(k) \in Prices
      BY <1>0, <1>1
    <3>2. b.levels[side][at(k)] \in Nat
      BY <1>4, <3>1
    <3>3. L[k] = [price |-> at(k), size |-> b.levels[side][at(k)]]
      BY <1>3
    <3> QED BY <3>1, <3>2, <3>3
  <2>2. L = [k \in 1..N |-> L[k]]
    BY <1>2, <1>3
  <2>3. L \in [1..N -> [price : Prices, size : Nat]]
    BY <2>1, <2>2
  <2> HIDE DEF N
  <2> QED BY <1>1, <2>3, FunctionIsSequence
<1>7. {L[k].price : k \in DOMAIN L} = {p \in Prices : Abstract!Total(b.orders, side, p) > 0}
  <2>1. {L[k].price : k \in DOMAIN L} = S
    <3>1. \A k \in DOMAIN L : L[k].price \in S
      BY <1>1, <1>3
    <3>2. ASSUME NEW p \in S PROVE \E k \in DOMAIN L : L[k].price = p
      BY <1>1, <1>3
    <3> QED BY <3>1, <3>2
  <2> QED BY <1>0, <1>5, <2>1
<1>8. \A k \in DOMAIN L : L[k].size = Abstract!Total(b.orders, side, L[k].price)
  <2> SUFFICES ASSUME NEW k \in DOMAIN L
               PROVE  L[k].size = Abstract!Total(b.orders, side, L[k].price)
    OBVIOUS
  <2>1. k \in 1..N /\ at(k) \in Prices
    BY <1>0, <1>1, <1>3
  <2>2. Abstract!Total(b.orders, side, at(k)) = b.levels[side][at(k)]
    BY <1>4, <2>1
  <2>3. L[k].price = at(k) /\ L[k].size = b.levels[side][at(k)]
    BY <1>3a, <2>1
  <2> QED BY <2>2, <2>3
<1>9. ASSUME NEW j \in DOMAIN L, NEW k \in DOMAIN L, j < k
      PROVE  Abstract!Outranks(side, L[j].price, L[k].price)
  <2>1. j \in 1..N /\ k \in 1..N /\ L[j].price = at(j) /\ L[k].price = at(k)
    BY <1>3
  <2>2. /\ at(j) \in S /\ at(k) \in S /\ at(j) \in Int /\ at(k) \in Int
        /\ Rank(side, S, at(j)) = j /\ Rank(side, S, at(k)) = k
    BY <1>0, <1>1, <2>1
  <2>3. at(j) # at(k) /\ ~Better(side, at(k), at(j))
    BY <1>1, <1>9, <2>1, <2>2
  <2>4. Better(side, at(j), at(k))
    BY <2>2, <2>3 DEF Better
  <2> QED BY <2>1, <2>4 DEF Better, Abstract!Outranks
<1>10. Abstract!ListsLevels(L, b.orders, side)
  BY <1>6, <1>7, <1>8, <1>9 DEF Abstract!ListsLevels
<1>11. CASE b.haveBest[side]
  <2> DEFINE p == b.best[side]
  <2>1. p \in S /\ \A q \in S : ~Better(side, q, p)
    BY <1>11 DEF GoodBook, BestIsTopOf, S
  <2>2. Rank(side, S, p) = 1
    <3>1. {q \in S : Better(side, q, p)} = {}
      BY <2>1
    <3>2. Rank(side, S, p) = Cardinality({}) + 1
      BY <3>1 DEF Rank
    <3> QED BY <3>2, FS_EmptySet
  <2>3. at(1) = p /\ 1 \in 1..N
    BY <1>1, <2>1, <2>2
  <2>4. L[1] = [price |-> p, size |-> b.levels[side][p]] /\ L # <<>>
    <3>1. L[1] = [price |-> at(1), size |-> b.levels[side][at(1)]]
      BY <1>3, <2>3
    <3>2. 1 \in DOMAIN L
      BY <1>3, <2>3
    <3> QED BY <2>3, <3>1, <3>2
  <2>5. Best(b, side) = <<[price |-> p, size |-> b.levels[side][p]]>>
    BY <1>11 DEF Best
  <2> QED BY <1>10, <2>4, <2>5 DEF L
<1>12. CASE ~b.haveBest[side]
  <2>1. S = {}
    BY <1>12 DEF GoodBook, BestIsTopOf, S
  <2>2. N = 0 /\ 1..0 = {}
    BY <2>1, FS_EmptySet
  <2>3. L = <<>>
    BY <1>2, <2>2
  <2>4. Best(b, side) = <<>>
    BY <1>12 DEF Best
  <2> QED BY <1>10, <2>3, <2>4 DEF L
<1> QED BY <1>11, <1>12

-----------------------------------------------------------------------------
(* The engine implements the map of resting orders                          *)

\* What the abstract specification sees of a book.
Cursor(b) == IF b.haveLastSeq THEN <<b.lastSeq>> ELSE <<>>
Quotes(b) == [s \in Sides |-> [levels |-> Levels(b, s), best |-> Best(b, s)]]

LEMMA QuotesAreRight ==
  ASSUME NEW b, GoodBook(b), TrueLevels(b)
  PROVE  Abstract!Quoted(b.orders, Quotes(b))
<1>1. ASSUME NEW s \in Sides
      PROVE  /\ Quotes(b)[s].levels = Levels(b, s) /\ Quotes(b)[s].best = Best(b, s)
             /\ Abstract!ListsLevels(Levels(b, s), b.orders, s)
             /\ Best(b, s) = IF Levels(b, s) = <<>> THEN <<>> ELSE <<Levels(b, s)[1]>>
  BY LevelsListed DEF Quotes
<1>2. Abstract!Sides = Sides
  BY DEF Abstract!Sides, Sides
<1> QED BY <1>1, <1>2, Zenon DEF Abstract!Quoted

\* A step of the book: where the orders are published, and the quotes with them.
LEMMA PublishedBook ==
  ASSUME NEW orders, GoodBook(book'), TrueLevels(book'), book'.orders = orders
  PROVE  Abstract!Publish(orders)
<1>1. Abstract!Quoted(book'.orders, Quotes(book'))
  BY QuotesAreRight
<1> QED BY <1>1 DEF Abstract!Publish, Quotes

LEMMA AdvancedCursor ==
  ASSUME NEW seq, ~IsGap(book, seq), book'.haveLastSeq, book'.lastSeq = seq
  PROVE  Abstract!Advance(seq)
<1>1. book.haveLastSeq => seq = book.lastSeq + 1
  BY DEF IsGap
<1> QED BY <1>1 DEF Abstract!Advance

\* TrueLevels is inductive along with the earlier invariant.
FullInv == GoodBook(book) /\ TrueLevels(book)

LEMMA InitFull == Init => FullInv
BY NewEngineGood, NewEngineTotal DEF Init, FullInv

LEMMA SnapshotIsUnique ==
  ASSUME NEW entries \in Snapshots
  PROVE  entries \in Seq(Entry) /\ Unique(entries)
BY SnapshotsWellFormed DEF Unique

LEMMA NextFull == FullInv /\ [Next]_vars => FullInv'
<1> SUFFICES ASSUME GoodBook(book), TrueLevels(book), [Next]_vars
             PROVE  GoodBook(book') /\ TrueLevels(book')
  BY DEF FullInv, GoodBook, TrueLevels
<1>1. ASSUME NEW d \in Delta, DoApplyDelta(d)
      PROVE  GoodBook(book') /\ TrueLevels(book')
  BY <1>1, DeltasAreDeltas, ApplyDeltaGood, ApplyDeltaTotal DEF DoApplyDelta
<1>2. ASSUME NEW entries \in Snapshots, NEW seq \in Seqs, DoLoadSnapshot(entries, seq)
      PROVE  GoodBook(book') /\ TrueLevels(book')
  BY <1>2, SnapshotIsUnique, LoadSnapshotGood, LoadSnapshotTotal DEF DoLoadSnapshot
<1>3. ASSUME DoClear
      PROVE  GoodBook(book') /\ TrueLevels(book')
  BY <1>3, ClearGood, ClearTotal DEF DoClear, GoodBook
<1>4. CASE UNCHANGED vars
  BY <1>4 DEF vars
<1> QED BY <1>1, <1>2, <1>3, <1>4 DEF Next

LEMMA DeltaStep ==
  ASSUME GoodBook(book), GoodBook(book'), TrueLevels(book'), NEW d \in Delta, DoApplyDelta(d)
  PROVE  book' = book \/ Abstract!Next
<1>0. /\ IsDelta(d) /\ d.seq \in Seqs /\ d.id \in OrderIds
      /\ book' = ApplyDelta(book, d).book
  BY DeltasAreDeltas DEF DoApplyDelta, IsDelta
<1>1. CASE IsGap(book, d.seq)
  BY <1>0, <1>1 DEF ApplyDelta
<1>2. CASE ~IsGap(book, d.seq) /\ d.action = "upsert"
  <2>1. ApplyDelta(book, d).err = "ok"
    BY <1>2 DEF ApplyDelta
  <2>2. book'.orders = With(book.orders, d.id, OrderOf(d)) /\ book'.lastSeq = d.seq /\ book'.haveLastSeq
    BY <1>0, <1>2, <2>1, ApplyDeltaOrders
  <2>3. Abstract!Advance(d.seq)
    BY <1>2, <2>2, AdvancedCursor
  <2>4. d.side \in Sides /\ d.price \in Prices /\ d.size \in Sizes
    BY <1>2 DEF Delta
  <2>5. Abstract!Put(d.id, OrderOf(d))
    BY <2>2, PublishedBook DEF Abstract!Put, With
  <2>6. Abstract!Put(d.id, [side |-> d.side, price |-> d.price, size |-> d.size])
    BY <2>5 DEF OrderOf
  <2>7. Abstract!Sides = Sides
    BY DEF Abstract!Sides, Sides
  <2> QED BY <1>0, <2>3, <2>4, <2>6, <2>7, Zenon DEF Abstract!Next
<1>3. CASE ~IsGap(book, d.seq) /\ d.action # "upsert"
  <2>1. book'.orders = Without(book.orders, d.id) /\ book'.lastSeq = d.seq /\ book'.haveLastSeq
    <3>1. CASE d.id \in DOMAIN book.orders
      <4>1. ApplyDelta(book, d).err = "ok"
        BY <1>3, <3>1 DEF ApplyDelta
      <4> QED BY <1>0, <1>3, <4>1, ApplyDeltaOrders
    <3>2. CASE d.id \notin DOMAIN book.orders
      <4>1. book' = Advance(book, d.seq)
        BY <1>0, <1>3, <3>2 DEF ApplyDelta
      <4>2. book'.orders = book.orders /\ book'.lastSeq = d.seq /\ book'.haveLastSeq = TRUE
        BY <4>1, AdvanceFields DEF GoodBook
      <4>3. Without(book.orders, d.id) = book.orders
        <5>1. PICK S \in SUBSET OrderIds : book.orders \in [S -> OrderState]
          BY DEF GoodBook, Books
        <5>2. DOMAIN book.orders \ {d.id} = S
          BY <3>2, <5>1
        <5>3. book.orders = [i \in S |-> book.orders[i]]
          BY <5>1
        <5> QED BY <5>2, <5>3 DEF Without
      <4> QED BY <4>2, <4>3
    <3> QED BY <3>1, <3>2
  <2>2. Abstract!Advance(d.seq)
    BY <1>3, <2>1, AdvancedCursor
  <2>3. Abstract!Discard(d.id)
    BY <2>1, PublishedBook DEF Abstract!Discard, Without
  <2> QED BY <1>0, <2>2, <2>3, Zenon DEF Abstract!Next
<1> QED BY <1>1, <1>2, <1>3

\* Each order of the snapshot, by its identifier.
Listed(entries) ==
  LET listed == {entries[k].id : k \in DOMAIN entries}
      entry(i) == entries[CHOOSE k \in DOMAIN entries : entries[k].id = i]
  IN  [i \in listed |-> [side |-> entry(i).side, price |-> entry(i).price, size |-> entry(i).size]]

LEMMA SnapshotStep ==
  ASSUME GoodBook(book), GoodBook(book'), TrueLevels(book'),
         NEW entries \in Snapshots, NEW seq \in Seqs, DoLoadSnapshot(entries, seq)
  PROVE  Abstract!Next
<1>0. entries \in Seq(Entry) /\ Unique(entries) /\ DOMAIN entries = 1..Len(entries)
  BY SnapshotIsUnique
<1>1. /\ ListsUpTo(book'.orders, entries, Len(entries))
      /\ book'.lastSeq = seq /\ book'.haveLastSeq = TRUE
  BY <1>0, LoadSnapshotOrders DEF DoLoadSnapshot
<1>2. book'.orders = Listed(entries)
  <2> DEFINE listed == {entries[k].id : k \in DOMAIN entries}
             entry(i) == entries[CHOOSE k \in DOMAIN entries : entries[k].id = i]
  <2>1. DOMAIN book'.orders = listed
    BY <1>0, <1>1 DEF ListsUpTo
  <2>2. ASSUME NEW i \in listed
        PROVE  book'.orders[i] = [side |-> entry(i).side, price |-> entry(i).price,
                                  size |-> entry(i).size]
    <3>1. PICK k \in DOMAIN entries : entries[k].id = i
      OBVIOUS
    <3>2. (CHOOSE m \in DOMAIN entries : entries[m].id = i) = k
      BY <1>0, <3>1 DEF Unique
    <3>3. book'.orders[i] = OrderOf(entries[k])
      BY <1>0, <1>1, <3>1 DEF ListsUpTo
    <3> QED BY <3>2, <3>3 DEF OrderOf
  <2>3. book'.orders = [i \in listed |-> book'.orders[i]]
    <3>1. PICK S \in SUBSET OrderIds : book'.orders \in [S -> OrderState]
      BY DEF GoodBook, Books
    <3> QED BY <2>1, <3>1
  <2> QED BY <2>2, <2>3 DEF Listed
<1>3. Abstract!Publish(Listed(entries))
  BY <1>2, PublishedBook
<1>4. (Cursor(book))' = <<seq>>
  BY <1>1 DEF Cursor
<1>5. Abstract!Replace(seq, entries)
  BY <1>3, <1>4 DEF Abstract!Replace, Listed, Cursor
<1> QED BY <1>5 DEF Abstract!Next

LEMMA ClearStep ==
  ASSUME GoodBook(book), GoodBook(book'), TrueLevels(book'), DoClear
  PROVE  Abstract!Next
<1>1. /\ book'.orders = <<>> /\ book'.lastSeq = book.lastSeq
      /\ book'.haveLastSeq = book.haveLastSeq
  BY ClearFields DEF DoClear, GoodBook
<1>2. Abstract!Publish(<<>>)
  BY <1>1, PublishedBook
<1>3. Abstract!Empty
  BY <1>1, <1>2 DEF Abstract!Empty
<1> QED BY <1>3 DEF Abstract!Next

\* After every call the engine's incrementally kept levels and cached best prices
\* are what recomputing them from the resting orders would give, the orders change
\* only by an update whose sequence number is the next, and a snapshot replaces
\* orders and sequence number together.
THEOREM KeepsRestingOrders == Spec => ImplementsRestingOrders
<1>1. Init => Abstract!Init
  <2> SUFFICES ASSUME Init PROVE Abstract!Init
    OBVIOUS
  <2>1. book.orders = <<>> /\ book.haveLastSeq = FALSE
    BY DEF Init, NewEngine
  <2>2. Abstract!Quoted(<<>>, Quotes(book))
    BY <2>1, InitFull, QuotesAreRight DEF FullInv
  <2> QED BY <2>1, <2>2 DEF Abstract!Init, Quotes
<1>2. FullInv /\ FullInv' /\ [Next]_vars => [Abstract!Next]_(Abstract!vars)
  <2> SUFFICES ASSUME GoodBook(book), GoodBook(book'), TrueLevels(book'), [Next]_vars
               PROVE  [Abstract!Next]_(Abstract!vars)
    BY DEF FullInv, GoodBook, TrueLevels
  <2>1. book' = book => UNCHANGED Abstract!vars
    BY DEF Abstract!vars
  <2>2. ASSUME NEW d \in Delta, DoApplyDelta(d) PROVE book' = book \/ Abstract!Next
    BY <2>2, DeltaStep
  <2>3. ASSUME NEW entries \in Snapshots, NEW seq \in Seqs, DoLoadSnapshot(entries, seq)
        PROVE  Abstract!Next
    BY <2>3, SnapshotStep
  <2>4. DoClear => Abstract!Next
    BY ClearStep
  <2>5. UNCHANGED vars => book' = book
    BY DEF vars
  <2> QED BY <2>1, <2>2, <2>3, <2>4, <2>5, Zenon DEF Next
<1> QED BY <1>1, <1>2, InitFull, NextFull, PTL DEF Spec, ImplementsRestingOrders, Abstract!Spec
=============================================================================
