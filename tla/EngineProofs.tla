------------------------------ MODULE EngineProofs -----------------------------
(***************************************************************************)
(* Lemmas about the operators of Engine, for every price range, every set  *)
(* of orders and snapshots of every length: what each method of            *)
(* orderbook/engine.go keeps true of a book, and what it makes of the      *)
(* orders a book holds.  OrderBookProofs and BookFeedProofs rest on them.  *)
(***************************************************************************)
EXTENDS Engine, WellFoundedInduction, TLAPS

-----------------------------------------------------------------------------
(* Least numbers, and induction over a set of numbers                       *)

\* A non-empty set of natural numbers has a least element.
LEMMA LeastNumber ==
  ASSUME NEW T, T \subseteq Nat, T # {}
  PROVE  \E m \in T : \A k \in T : m <= k
<1>1. IsWellFoundedOn(OpToRel(<, Nat), Nat)
  BY NatLessThanWellFounded, Zenon
<1>2. PICK m \in T : \A k \in T : <<k, m>> \notin OpToRel(<, Nat)
  BY WFMin, <1>1, Zenon
<1>3. \A k \in T : m <= k
  <2> TAKE k \in T
  <2>1. k \in Nat /\ m \in Nat
    OBVIOUS
  <2>2. (<<k, m>> \in OpToRel(<, Nat)) <=> (<<k, m>> \in Nat \X Nat /\ k < m)
    BY DEF OpToRel
  <2>3. ~(k < m)
    BY <1>2, <2>1, <2>2
  <2> QED BY <2>1, <2>3
<1> QED BY <1>3

\* Induction: a set of naturals that holds 0 and is closed under successor is
\* all of them.
LEMMA SetInduction ==
  ASSUME NEW S, S \subseteq Nat, 0 \in S, \A n \in Nat : n \in S => n + 1 \in S
  PROVE  S = Nat
<1> SUFFICES ASSUME Nat \ S # {} PROVE FALSE
  OBVIOUS
<1>1. PICK m \in Nat \ S : \A k \in Nat \ S : m <= k
  BY LeastNumber
<1>2. m - 1 \in Nat /\ ~(m <= m - 1)
  BY <1>1
<1>3. m - 1 \in S
  BY <1>1, <1>2
<1>4. (m - 1) + 1 \in S
  BY <1>2, <1>3
<1> QED BY <1>1, <1>4

-----------------------------------------------------------------------------
(* Best prices                                                              *)

\* recomputeBest's scan finds a price that no other price beats.
LEMMA BestOfIsBest ==
  ASSUME NEW side \in Sides, NEW ps \in SUBSET Prices, ps # {}
  PROVE  /\ BestOf(side, ps) \in ps
         /\ \A q \in ps : ~Better(side, q, BestOf(side, ps))
<1>0. ps \subseteq Int /\ MinPrice \in Int /\ MaxPrice \in Int
  BY PriceRange DEF Prices
<1> DEFINE key(p) == IF side = "bid" THEN MaxPrice - p ELSE p - MinPrice
           T      == {key(p) : p \in ps}
<1>1. T \subseteq Nat /\ T # {}
  <2>1. ASSUME NEW p \in ps PROVE key(p) \in Nat
    BY <1>0 DEF Prices
  <2>2. PICK p \in ps : TRUE
    OBVIOUS
  <2>3. key(p) \in T
    BY <2>2
  <2> QED BY <2>1, <2>3
<1>2. PICK m \in T : \A k \in T : m <= k
  BY <1>1, LeastNumber
<1>3. PICK p \in ps : m = key(p)
  OBVIOUS
<1>4. ASSUME NEW q \in ps PROVE ~Better(side, q, p)
  <2>1. key(p) <= key(q)
    BY <1>2, <1>3
  <2> QED BY <2>1, <1>0 DEF Better
<1> QED BY <1>3, <1>4 DEF BestOf

\* A book whose fields have their types and whose cached best prices are right.
GoodBook(b) == b \in Books /\ \A side \in Sides : BestIsTopOf(b, side)

WithBest(c, side, p) == [c EXCEPT !.haveBest[side] = TRUE, !.best[side] = p]

\* d is the book c but for the price cached for one side, which is p.
SameButBest(c, d, side, p) ==
  /\ d \in Books
  /\ \A s \in Sides : Occupied(d, s) = Occupied(c, s)
  /\ d.haveBest[side] = TRUE /\ d.best[side] = p
  /\ \A s \in Sides : s # side => /\ d.haveBest[s] = c.haveBest[s]
                                 /\ d.best[s] = c.best[s]
  /\ d.lastSeq = c.lastSeq /\ d.haveLastSeq = c.haveLastSeq

\* Caching a price changes the cached price of one side and nothing else.
LEMMA CachePrice ==
  ASSUME NEW c \in Books, NEW side \in Sides, NEW p \in Prices
  PROVE  SameButBest(c, WithBest(c, side, p), side, p)
<1> DEFINE d == WithBest(c, side, p)
<1>1. c.best \in [Sides -> Prices \cup {0}] /\ c.haveBest \in [Sides -> BOOLEAN]
  BY DEF Books
<1> DEFINE best == [c.best EXCEPT ![side] = p]
           have == [c.haveBest EXCEPT ![side] = TRUE]
<1>2. best \in [Sides -> Prices \cup {0}] /\ have \in [Sides -> BOOLEAN]
  BY <1>1
<1>3. d = [c EXCEPT !.haveBest = have, !.best = best]
  BY DEF WithBest, Books
<1>3a. d = [orders |-> c.orders, levels |-> c.levels, best |-> best, haveBest |-> have,
           lastSeq |-> c.lastSeq, haveLastSeq |-> c.haveLastSeq]
  <2> HIDE DEF have, best, d
  <2> QED BY <1>3 DEF Books
<1>4. best[side] = p /\ have[side] = TRUE
      /\ \A s \in Sides : s # side => best[s] = c.best[s] /\ have[s] = c.haveBest[s]
  BY <1>1
<1> HIDE DEF best, have, d
<1>5. d \in Books
  BY <1>2, <1>3a DEF Books
<1>6. /\ d.levels = c.levels /\ d.best = best /\ d.haveBest = have
      /\ d.lastSeq = c.lastSeq /\ d.haveLastSeq = c.haveLastSeq
  BY <1>3a
<1>7. \A s \in Sides : Occupied(d, s) = Occupied(c, s)
  BY <1>6 DEF Occupied
<1>8. SameButBest(c, d, side, p)
  BY <1>4, <1>5, <1>6, <1>7 DEF SameButBest
<1> QED BY <1>8 DEF d

\* addToLevel keeps the cached best prices right, whatever it does to a level.
LEMMA AddToLevelGood ==
  ASSUME NEW b, GoodBook(b), NEW side \in Sides, NEW price \in Prices, NEW delta \in Int
  PROVE  /\ GoodBook(AddToLevel(b, side, price, delta))
         /\ AddToLevel(b, side, price, delta).lastSeq = b.lastSeq
         /\ AddToLevel(b, side, price, delta).haveLastSeq = b.haveLastSeq
<1> DEFINE newSize == b.levels[side][price] + delta
           size    == IF newSize <= 0 THEN 0 ELSE newSize
           c       == [b EXCEPT !.levels[side][price] = size]
           d       == AddToLevel(b, side, price, delta)
<1>0. Prices \subseteq Int
  BY PriceRange DEF Prices
<1>1. newSize \in Int /\ size \in Nat
  BY DEF GoodBook, Books
<1>2. c \in Books
  BY <1>1 DEF GoodBook, Books
<1>3. /\ c.levels[side][price] = size
      /\ \A s \in Sides, p \in Prices :
            ~(s = side /\ p = price) => c.levels[s][p] = b.levels[s][p]
      /\ c.best = b.best /\ c.haveBest = b.haveBest
      /\ c.lastSeq = b.lastSeq /\ c.haveLastSeq = b.haveLastSeq
  BY DEF GoodBook, Books
<1>4. \A s \in Sides : s # side => Occupied(c, s) = Occupied(b, s)
  BY <1>3 DEF Occupied
<1>5. Occupied(c, side) = IF size > 0 THEN Occupied(b, side) \cup {price}
                          ELSE Occupied(b, side) \ {price}
  BY <1>1, <1>3 DEF Occupied
<1>6. Occupied(b, side) \subseteq Prices /\ Occupied(c, side) \subseteq Prices
  BY DEF Occupied
<1> HIDE DEF c
<1>7. CASE newSize <= 0
  <2>1. d = InvalidateBestIfMatches(c, side, price)
    BY <1>7 DEF AddToLevel, c
  <2>2. CASE ~(c.haveBest[side] /\ price = c.best[side])
    <3>1. d = c
      BY <2>1, <2>2 DEF InvalidateBestIfMatches
    <3>2. \A s \in Sides : BestIsTopOf(c, s)
      BY <1>3, <1>4, <1>5, <1>7, <2>2 DEF GoodBook, BestIsTopOf
    <3> QED BY <3>1, <3>2, <1>2, <1>3 DEF GoodBook
  <2>3. CASE c.haveBest[side] /\ price = c.best[side]
    <3>1. d = RecomputeBest(c, side)
      BY <2>1, <2>3 DEF InvalidateBestIfMatches
    <3>2. CASE Occupied(c, side) = {}
      <4> DEFINE have == [c.haveBest EXCEPT ![side] = FALSE]
      <4>1. d = [c EXCEPT !.haveBest = have]
        BY <3>1, <3>2, <1>2 DEF RecomputeBest, Books
      <4>2. /\ have \in [Sides -> BOOLEAN] /\ have[side] = FALSE
            /\ \A s \in Sides : s # side => have[s] = c.haveBest[s]
        BY <1>2 DEF Books
      <4> HIDE DEF have, d
      <4>3. d \in Books /\ \A s \in Sides : Occupied(d, s) = Occupied(c, s)
        BY <4>1, <4>2, <1>2 DEF Books, Occupied
      <4>4. /\ d.haveBest[side] = FALSE /\ d.best = c.best
            /\ \A s \in Sides : s # side => d.haveBest[s] = c.haveBest[s]
            /\ d.lastSeq = c.lastSeq /\ d.haveLastSeq = c.haveLastSeq
        BY <4>1, <4>2, <1>2 DEF Books
      <4>5. \A s \in Sides : BestIsTopOf(d, s)
        BY <4>3, <4>4, <3>2, <1>3, <1>4 DEF GoodBook, BestIsTopOf
      <4> QED BY <4>3, <4>4, <4>5, <1>3 DEF GoodBook, d
    <3>3. CASE Occupied(c, side) # {}
      <4> DEFINE best == BestOf(side, Occupied(c, side))
      <4>1. d = WithBest(c, side, best)
        BY <3>1, <3>3 DEF RecomputeBest, WithBest
      <4>2. best \in Occupied(c, side) /\ \A q \in Occupied(c, side) : ~Better(side, q, best)
        BY <1>6, <3>3, BestOfIsBest
      <4> HIDE DEF best, d
      <4>3. SameButBest(c, d, side, best)
        BY <4>1, <4>2, <1>2, <1>6, CachePrice
      <4>4. \A s \in Sides : BestIsTopOf(d, s)
        BY <4>2, <4>3, <1>3, <1>4 DEF GoodBook, BestIsTopOf, SameButBest
      <4> QED BY <4>3, <4>4, <1>3 DEF GoodBook, SameButBest, d
    <3> QED BY <3>2, <3>3
  <2> QED BY <2>2, <2>3
<1>8. CASE ~(newSize <= 0)
  <2>0. size > 0 /\ price \in Occupied(c, side)
    BY <1>1, <1>5, <1>8
  <2>1. d = UpdateBestOnUpsert(c, side, price)
    BY <1>8 DEF AddToLevel, c
  <2>2. CASE ~c.haveBest[side] \/ Better(side, price, c.best[side])
    <3>1. d = WithBest(c, side, price)
      BY <2>1, <2>2 DEF UpdateBestOnUpsert, WithBest
    <3> HIDE DEF d
    <3>2. SameButBest(c, d, side, price)
      BY <3>1, <1>2, CachePrice
    <3>3. Occupied(c, side) = Occupied(b, side) \cup {price}
      BY <2>0, <1>5
    <3>4. ASSUME NEW q \in Occupied(b, side) PROVE ~Better(side, q, price)
      <4>1. b.haveBest[side] /\ b.best[side] \in Occupied(b, side)
            /\ ~Better(side, q, b.best[side])
        BY DEF GoodBook, BestIsTopOf
      <4>2. Better(side, price, b.best[side])
        BY <2>2, <4>1, <1>3
      <4>3. q \in Int /\ price \in Int /\ b.best[side] \in Int
        BY <4>1, <1>0, <1>6
      <4> QED BY <4>1, <4>2, <4>3 DEF Better
    <3>5. \A q \in Occupied(c, side) : ~Better(side, q, price)
      BY <3>3, <3>4, <1>0 DEF Better
    <3>6. \A s \in Sides : BestIsTopOf(d, s)
      BY <2>0, <3>2, <3>5, <1>3, <1>4 DEF GoodBook, BestIsTopOf, SameButBest
    <3> QED BY <3>2, <3>6, <1>3 DEF GoodBook, SameButBest, d
  <2>3. CASE ~(~c.haveBest[side] \/ Better(side, price, c.best[side]))
    <3>1. d = c
      BY <2>1, <2>3 DEF UpdateBestOnUpsert
    <3>2. \A s \in Sides : BestIsTopOf(c, s)
      BY <2>0, <2>3, <1>3, <1>4, <1>5 DEF GoodBook, BestIsTopOf
    <3> QED BY <3>1, <3>2, <1>2, <1>3 DEF GoodBook
  <2> QED BY <2>2, <2>3
<1> QED BY <1>7, <1>8

-----------------------------------------------------------------------------
(* The methods of Engine                                                    *)

SameButOrders(b, c) ==
  /\ c.levels = b.levels /\ c.best = b.best /\ c.haveBest = b.haveBest
  /\ c.lastSeq = b.lastSeq /\ c.haveLastSeq = b.haveLastSeq

\* A book is good whatever orders it holds: levels and cached prices decide.
LEMMA OrdersDoNotMatter ==
  ASSUME NEW b, NEW c \in Books, GoodBook(b), SameButOrders(b, c)
  PROVE  GoodBook(c)
BY DEF GoodBook, SameButOrders, BestIsTopOf, Occupied

\* Putting or dropping an order leaves the levels for addToLevel to bring up
\* to date.
LEMMA PutOrderGood ==
  ASSUME NEW b, GoodBook(b), NEW id \in OrderIds, NEW o \in OrderState
  PROVE  /\ GoodBook(PutOrder(b, id, o))
         /\ SameButOrders(b, PutOrder(b, id, o))
<1> DEFINE orders == [i \in DOMAIN b.orders \cup {id} |-> IF i = id THEN o ELSE b.orders[i]]
           c      == PutOrder(b, id, o)
<1>1. PICK S \in SUBSET OrderIds : b.orders \in [S -> OrderState]
  BY DEF GoodBook, Books
<1>2. orders \in [S \cup {id} -> OrderState] /\ S \cup {id} \in SUBSET OrderIds
  BY <1>1
<1>3. c = [b EXCEPT !.orders = orders]
  BY DEF PutOrder, GoodBook, Books
<1>4. orders \in UNION {[U -> OrderState] : U \in SUBSET OrderIds}
  BY <1>2
<1> HIDE DEF orders, c
<1>5. c \in Books
  BY <1>3, <1>4 DEF GoodBook, Books
<1>6. SameButOrders(b, c)
  BY <1>3 DEF GoodBook, Books, SameButOrders
<1> QED BY <1>5, <1>6, OrdersDoNotMatter DEF c

LEMMA DropOrderGood ==
  ASSUME NEW b, GoodBook(b), NEW id \in OrderIds
  PROVE  /\ GoodBook(DropOrder(b, id))
         /\ SameButOrders(b, DropOrder(b, id))
<1> DEFINE orders == [i \in DOMAIN b.orders \ {id} |-> b.orders[i]]
           c      == DropOrder(b, id)
<1>1. PICK S \in SUBSET OrderIds : b.orders \in [S -> OrderState]
  BY DEF GoodBook, Books
<1>2. orders \in [S \ {id} -> OrderState] /\ S \ {id} \in SUBSET OrderIds
  BY <1>1
<1>3. c = [b EXCEPT !.orders = orders]
  BY DEF DropOrder, GoodBook, Books
<1>4. orders \in UNION {[U -> OrderState] : U \in SUBSET OrderIds}
  BY <1>2
<1> HIDE DEF orders, c
<1>5. c \in Books
  BY <1>3, <1>4 DEF GoodBook, Books
<1>6. SameButOrders(b, c)
  BY <1>3 DEF GoodBook, Books, SameButOrders
<1> QED BY <1>5, <1>6, OrdersDoNotMatter DEF c

LEMMA SizeIsNumber ==
  ASSUME NEW n \in Sizes
  PROVE  n \in Int /\ -n \in Int
<1>1. n \in Nat
  BY SizesNatural
<1> QED BY <1>1

\* A tracked order has a side, a price and a size of the right types.
LEMMA TrackedOrder ==
  ASSUME NEW b, GoodBook(b), NEW id \in DOMAIN b.orders
  PROVE  /\ id \in OrderIds
         /\ b.orders[id].side \in Sides
         /\ b.orders[id].price \in Prices
         /\ -b.orders[id].size \in Int
<1>1. PICK S \in SUBSET OrderIds : b.orders \in [S -> OrderState]
  BY DEF GoodBook, Books
<1>2. b.orders[id] \in OrderState /\ id \in OrderIds
  BY <1>1
<1>3. b.orders[id].size \in Sizes
  BY <1>2 DEF OrderState
<1> QED BY <1>2, <1>3, SizeIsNumber DEF OrderState

\* Moving the sequence tracker leaves the cached best prices right.
LEMMA AdvanceGood ==
  ASSUME NEW b, GoodBook(b), NEW seq \in Seqs
  PROVE  GoodBook(Advance(b, seq))
<1> DEFINE c == Advance(b, seq)
<1>1. /\ c \in Books
      /\ c.levels = b.levels /\ c.best = b.best /\ c.haveBest = b.haveBest
  BY DEF GoodBook, Books, Advance
<1> HIDE DEF c
<1>2. GoodBook(c)
  BY <1>1 DEF GoodBook, BestIsTopOf, Occupied
<1> QED BY <1>2 DEF c

LEMMA UpsertGood ==
  ASSUME NEW b, GoodBook(b), NEW id \in OrderIds, NEW o \in OrderState
  PROVE  GoodBook(Upsert(b, id, o))
<1>1. GoodBook(Unrest(b, id))
  BY AddToLevelGood, TrackedOrder DEF Unrest
<1>2. GoodBook(PutOrder(Unrest(b, id), id, o))
  BY <1>1, PutOrderGood
<1>3. o.side \in Sides /\ o.price \in Prices /\ o.size \in Int
  BY SizeIsNumber DEF OrderState
<1> QED BY <1>2, <1>3, AddToLevelGood DEF Upsert

LEMMA DeleteGood ==
  ASSUME NEW b, GoodBook(b), NEW id \in DOMAIN b.orders
  PROVE  GoodBook(Delete(b, id))
<1>1. GoodBook(DropOrder(b, id))
  BY DropOrderGood, TrackedOrder
<1> QED BY <1>1, TrackedOrder, AddToLevelGood DEF Delete

\* Clear leaves an empty book whose caches are marked absent.
LEMMA ClearGood ==
  ASSUME NEW b, GoodBook(b)
  PROVE  GoodBook(Clear(b))
<1> DEFINE none   == [s \in Sides |-> [p \in Prices |-> 0]]
           absent == [s \in Sides |-> FALSE]
           c      == Clear(b)
<1>0. <<>> \in UNION {[S -> OrderState] : S \in SUBSET OrderIds}
  <2>1. <<>> \in [{} -> OrderState] /\ {} \in SUBSET OrderIds
    OBVIOUS
  <2> QED BY <2>1
<1>1. none \in [Sides -> [Prices -> Nat]] /\ absent \in [Sides -> BOOLEAN]
  OBVIOUS
<1>2. \A s \in Sides : absent[s] = FALSE /\ \A p \in Prices : none[s][p] = 0
  OBVIOUS
<1>3. c = [b EXCEPT !.orders = <<>>, !.levels = none, !.haveBest = absent]
  BY DEF Clear
<1> HIDE DEF none, absent, c
<1>4. c \in Books
  BY <1>0, <1>1, <1>3 DEF GoodBook, Books
<1>5. c.levels = none /\ c.haveBest = absent
  BY <1>3 DEF GoodBook, Books
<1>6. GoodBook(c)
  BY <1>2, <1>4, <1>5 DEF GoodBook, BestIsTopOf, Occupied
<1> QED BY <1>6 DEF c

LEMMA NewEngineGood == GoodBook(NewEngine)
<1> DEFINE none   == [s \in Sides |-> [p \in Prices |-> 0]]
           absent == [s \in Sides |-> FALSE]
           zero   == [s \in Sides |-> 0]
           c      == NewEngine
<1>0. <<>> \in UNION {[S -> OrderState] : S \in SUBSET OrderIds}
  <2>1. <<>> \in [{} -> OrderState] /\ {} \in SUBSET OrderIds
    OBVIOUS
  <2> QED BY <2>1
<1>1. /\ none \in [Sides -> [Prices -> Nat]] /\ absent \in [Sides -> BOOLEAN]
      /\ zero \in [Sides -> Prices \cup {0}]
  OBVIOUS
<1>2. \A s \in Sides : absent[s] = FALSE /\ \A p \in Prices : none[s][p] = 0
  OBVIOUS
<1>3. c = [orders |-> <<>>, levels |-> none, best |-> zero, haveBest |-> absent,
           lastSeq |-> 0, haveLastSeq |-> FALSE]
  BY DEF NewEngine
<1> HIDE DEF none, absent, zero, c
<1>4. c \in Books
  BY <1>0, <1>1, <1>3 DEF Books
<1>5. c.levels = none /\ c.haveBest = absent
  BY <1>3
<1>6. GoodBook(c)
  BY <1>2, <1>4, <1>5 DEF GoodBook, BestIsTopOf, Occupied
<1> QED BY <1>6 DEF c

\* The arguments ApplyDelta is made for, whatever else the record holds.
IsDelta(d) == /\ d.id \in OrderIds /\ d.seq \in Seqs
              /\ d.action = "upsert" => OrderOf(d) \in OrderState

LEMMA DeltasAreDeltas ==
  ASSUME NEW d \in Delta
  PROVE  IsDelta(d)
<1>1. d.id \in OrderIds /\ d.seq \in Seqs
  BY DEF Delta
<1>2. d.action = "upsert" => OrderOf(d) \in OrderState
  BY DEF Delta, OrderOf, OrderState
<1> QED BY <1>1, <1>2 DEF IsDelta

\* ApplyDelta, in each of its four outcomes.
LEMMA ApplyDeltaGood ==
  ASSUME NEW b, GoodBook(b), NEW d, IsDelta(d)
  PROVE  /\ GoodBook(ApplyDelta(b, d).book)
         /\ ApplyDelta(b, d).err \in {"ok", "gap", "unknown"}
<1>0. d.seq \in Seqs /\ d.id \in OrderIds
  BY DEF IsDelta
<1>1. CASE IsGap(b, d.seq)
  BY <1>1 DEF ApplyDelta
<1>2. CASE ~IsGap(b, d.seq) /\ d.action = "upsert"
  <2>1. OrderOf(d) \in OrderState
    BY <1>2 DEF IsDelta
  <2>2. ApplyDelta(b, d) = [book |-> Advance(Upsert(b, d.id, OrderOf(d)), d.seq), err |-> "ok"]
    BY <1>2 DEF ApplyDelta
  <2>3. GoodBook(Advance(Upsert(b, d.id, OrderOf(d)), d.seq))
    BY <2>1, <1>0, UpsertGood, AdvanceGood
  <2> QED BY <2>2, <2>3
<1>3. CASE ~IsGap(b, d.seq) /\ d.action # "upsert" /\ d.id \in DOMAIN b.orders
  <2>1. ApplyDelta(b, d) = [book |-> Advance(Delete(b, d.id), d.seq), err |-> "ok"]
    BY <1>3 DEF ApplyDelta
  <2>2. GoodBook(Advance(Delete(b, d.id), d.seq))
    BY <1>0, <1>3, DeleteGood, AdvanceGood
  <2> QED BY <2>1, <2>2
<1>4. CASE ~IsGap(b, d.seq) /\ d.action # "upsert" /\ d.id \notin DOMAIN b.orders
  <2>1. ApplyDelta(b, d) = [book |-> Advance(b, d.seq), err |-> "unknown"]
    BY <1>4 DEF ApplyDelta
  <2>2. GoodBook(Advance(b, d.seq))
    BY <1>0, AdvanceGood
  <2> QED BY <2>1, <2>2
<1> QED BY <1>1, <1>2, <1>3, <1>4

-----------------------------------------------------------------------------
(* LoadSnapshot                                                             *)

\* f is the loop of LoadSnapshot run over the first n entries.
IsLoop(f, b, entries, n) ==
  f = [i \in 0..n |-> IF i = 0 THEN b ELSE AddEntry(f[i - 1], entries[i])]

\* The loop is defined for every number of rounds.
LEMMA LoopExists ==
  ASSUME NEW b, NEW entries, NEW n \in Nat
  PROVE  \E f : IsLoop(f, b, entries, n)
<1> DEFINE S == {k \in Nat : \E f : IsLoop(f, b, entries, k)}
<1>1. 0 \in S
  <2>1. IsLoop([i \in 0..0 |-> b], b, entries, 0)
    BY DEF IsLoop
  <2> QED BY <2>1
<1>2. ASSUME NEW k \in Nat, k \in S PROVE k + 1 \in S
  <2>1. PICK f : IsLoop(f, b, entries, k)
    BY <1>2
  <2> DEFINE g == [i \in 0..(k + 1) |->
                     IF i <= k THEN f[i] ELSE AddEntry(f[k], entries[k + 1])]
  <2>2. \A i \in 0..k : f[i] = IF i = 0 THEN b ELSE AddEntry(f[i - 1], entries[i])
    BY <2>1 DEF IsLoop
  <2>3. ASSUME NEW i \in 0..(k + 1)
        PROVE  g[i] = IF i = 0 THEN b ELSE AddEntry(g[i - 1], entries[i])
    <3>1. CASE i = 0
      BY <3>1, <2>2
    <3>2. CASE i \in 1..k
      <4>1. g[i] = f[i] /\ g[i - 1] = f[i - 1]
        BY <3>2
      <4>2. f[i] = AddEntry(f[i - 1], entries[i])
        BY <3>2, <2>2
      <4> QED BY <4>1, <4>2, <3>2
    <3>3. CASE i = k + 1
      <4>1. g[i] = AddEntry(f[k], entries[k + 1]) /\ g[i - 1] = f[k]
        BY <3>3
      <4> QED BY <4>1, <3>3
    <3> QED BY <3>1, <3>2, <3>3
  <2>4. IsLoop(g, b, entries, k + 1)
    <3> DEFINE h == [i \in 0..(k + 1) |->
                       IF i = 0 THEN b ELSE AddEntry(g[i - 1], entries[i])]
    <3>1. \A i \in 0..(k + 1) : g[i] = h[i]
      BY <2>3
    <3>2. g = h
      BY <3>1
    <3> QED BY <3>2 DEF IsLoop
  <2> QED BY <2>4
<1> HIDE DEF S
<1>3. S \subseteq Nat
  BY DEF S
<1>4. S = Nat
  BY <1>1, <1>2, <1>3, SetInduction
<1>5. n \in S
  BY <1>4
<1> QED BY <1>5 DEF S

\* The recursive definition of AfterEntries means what it says.
LEMMA AfterEntriesIsLoop ==
  ASSUME NEW b, NEW entries \in Seq(Entry)
  PROVE  IsLoop(AfterEntries(b, entries), b, entries, Len(entries))
<1>0. Len(entries) \in Nat
  OBVIOUS
<1>1. \E f : IsLoop(f, b, entries, Len(entries))
  BY <1>0, LoopExists
<1>2. AfterEntries(b, entries) = CHOOSE f : IsLoop(f, b, entries, Len(entries))
  BY DEF AfterEntries, IsLoop
<1> QED BY <1>1, <1>2

\* Every round of the loop keeps the cached best prices right.
LEMMA AfterEntriesGood ==
  ASSUME NEW b, GoodBook(b), NEW entries \in Seq(Entry), NEW k \in 0..Len(entries)
  PROVE  GoodBook(AfterEntries(b, entries)[k])
<1> DEFINE f == AfterEntries(b, entries)
           S == {i \in Nat : i <= Len(entries) => GoodBook(f[i])}
<1>0. Len(entries) \in Nat
  OBVIOUS
<1>1. \A i \in 0..Len(entries) :
         f[i] = IF i = 0 THEN b ELSE AddEntry(f[i - 1], entries[i])
  BY AfterEntriesIsLoop DEF IsLoop
<1> HIDE DEF f
<1>2. 0 \in S
  BY <1>0, <1>1
<1>3. ASSUME NEW i \in Nat, i \in S PROVE i + 1 \in S
  <2> SUFFICES ASSUME i + 1 <= Len(entries) PROVE GoodBook(f[i + 1])
    OBVIOUS
  <2>1. GoodBook(f[i])
    BY <1>0, <1>3
  <2>2. f[i + 1] = AddEntry(f[i], entries[i + 1])
    BY <1>0, <1>1
  <2>3. entries[i + 1] \in Entry
    BY <1>0
  <2> DEFINE e == entries[i + 1]
  <2>4. /\ e.id \in OrderIds /\ e.side \in Sides /\ e.price \in Prices /\ e.size \in Int
        /\ OrderOf(e) \in OrderState
    BY <2>3, SizeIsNumber DEF Entry, OrderOf, OrderState
  <2> HIDE DEF e
  <2>5. GoodBook(PutOrder(f[i], e.id, OrderOf(e)))
    BY <2>1, <2>4, PutOrderGood
  <2>6. GoodBook(AddEntry(f[i], e))
    BY <2>4, <2>5, AddToLevelGood DEF AddEntry
  <2> QED BY <2>2, <2>6 DEF e
<1> HIDE DEF S
<1>4. S \subseteq Nat
  BY DEF S
<1>5. S = Nat
  BY <1>2, <1>3, <1>4, SetInduction
<1>6. k \in S /\ k <= Len(entries)
  BY <1>0, <1>5
<1> QED BY <1>6 DEF S, f

LEMMA LoadSnapshotGood ==
  ASSUME NEW b, GoodBook(b), NEW entries \in Seq(Entry), NEW seq \in Seqs
  PROVE  GoodBook(LoadSnapshot(b, entries, seq))
<1>1. GoodBook(Clear(b))
  BY ClearGood
<1>2. Len(entries) \in 0..Len(entries)
  OBVIOUS
<1>3. GoodBook(AfterEntries(Clear(b), entries)[Len(entries)])
  BY <1>1, <1>2, AfterEntriesGood
<1> QED BY <1>3, AdvanceGood DEF LoadSnapshot


-----------------------------------------------------------------------------
(* What the methods make of the orders                                      *)

\* The orders with one put in, and with one taken out.
With(orders, id, o) == [i \in DOMAIN orders \cup {id} |-> IF i = id THEN o ELSE orders[i]]
Without(orders, id) == [i \in DOMAIN orders \ {id} |-> orders[i]]

\* The level bookkeeping does not touch the orders.
LEMMA AddToLevelOrders ==
  ASSUME NEW b \in Books, NEW side, NEW price, NEW delta
  PROVE  AddToLevel(b, side, price, delta).orders = b.orders
<1>1. ASSUME NEW c
      PROVE  InvalidateBestIfMatches(c, side, price).orders = c.orders
  BY DEF InvalidateBestIfMatches, RecomputeBest
<1>2. ASSUME NEW c
      PROVE  UpdateBestOnUpsert(c, side, price).orders = c.orders
  BY DEF UpdateBestOnUpsert
<1>3. ASSUME NEW n
      PROVE  [b EXCEPT !.levels[side][price] = n].orders = b.orders
  BY DEF Books
<1> DEFINE size == b.levels[side][price] + delta
           c(n) == [b EXCEPT !.levels[side][price] = n]
<1>4. CASE size <= 0
  BY <1>1, <1>3, <1>4, Zenon DEF AddToLevel
<1>5. CASE ~(size <= 0)
  BY <1>2, <1>3, <1>5, Zenon DEF AddToLevel
<1> QED BY <1>4, <1>5

LEMMA PutOrderOrders ==
  ASSUME NEW b \in Books, NEW id, NEW o
  PROVE  PutOrder(b, id, o).orders = With(b.orders, id, o)
BY DEF PutOrder, With, Books

LEMMA DropOrderOrders ==
  ASSUME NEW b \in Books, NEW id
  PROVE  DropOrder(b, id).orders = Without(b.orders, id)
BY DEF DropOrder, Without, Books

LEMMA AdvanceFields ==
  ASSUME NEW b \in Books, NEW seq
  PROVE  /\ Advance(b, seq).orders = b.orders
         /\ Advance(b, seq).lastSeq = seq /\ Advance(b, seq).haveLastSeq = TRUE
BY DEF Advance, Books

LEMMA ClearFields ==
  ASSUME NEW b \in Books
  PROVE  /\ Clear(b).orders = <<>>
         /\ Clear(b).lastSeq = b.lastSeq /\ Clear(b).haveLastSeq = b.haveLastSeq
BY DEF Clear, Books

LEMMA UpsertOrders ==
  ASSUME NEW b, GoodBook(b), NEW id \in OrderIds, NEW o \in OrderState
  PROVE  Upsert(b, id, o).orders = With(b.orders, id, o)
<1>1. GoodBook(Unrest(b, id)) /\ Unrest(b, id).orders = b.orders
  BY AddToLevelGood, AddToLevelOrders, TrackedOrder DEF Unrest, GoodBook
<1>2. /\ PutOrder(Unrest(b, id), id, o) \in Books
      /\ PutOrder(Unrest(b, id), id, o).orders = With(b.orders, id, o)
  BY <1>1, PutOrderGood, PutOrderOrders DEF GoodBook
<1> QED BY <1>2, AddToLevelOrders DEF Upsert

LEMMA DeleteOrders ==
  ASSUME NEW b, GoodBook(b), NEW id \in DOMAIN b.orders
  PROVE  Delete(b, id).orders = Without(b.orders, id)
<1>1. DropOrder(b, id) \in Books /\ DropOrder(b, id).orders = Without(b.orders, id)
  BY DropOrderGood, DropOrderOrders, TrackedOrder DEF GoodBook
<1> QED BY <1>1, AddToLevelOrders DEF Delete

\* The three ways in which ApplyDelta leaves the orders: with the order of an
\* upsert, without that of a delete, and alone.
LEMMA ApplyDeltaOrders ==
  ASSUME NEW b, GoodBook(b), NEW d, IsDelta(d)
  PROVE  LET r == ApplyDelta(b, d) IN
         /\ r.err = "ok" /\ d.action = "upsert"
              => r.book.orders = With(b.orders, d.id, OrderOf(d))
         /\ r.err = "ok" /\ d.action # "upsert" => r.book.orders = Without(b.orders, d.id)
         /\ r.err = "ok" => ~IsGap(b, d.seq) /\ r.book.lastSeq = d.seq /\ r.book.haveLastSeq
         /\ r.err = "gap" => r.book = b
<1> DEFINE u == Upsert(b, d.id, OrderOf(d))
           e == Delete(b, d.id)
<1>1. CASE IsGap(b, d.seq)
  <2>1. ApplyDelta(b, d) = [book |-> b, err |-> "gap"]
    BY <1>1 DEF ApplyDelta
  <2> QED BY <2>1
<1>2. CASE ~IsGap(b, d.seq) /\ d.action = "upsert"
  <2>1. ApplyDelta(b, d) = [book |-> Advance(u, d.seq), err |-> "ok"]
    BY <1>2 DEF ApplyDelta
  <2>2. u \in Books /\ u.orders = With(b.orders, d.id, OrderOf(d))
    BY <1>2, UpsertGood, UpsertOrders DEF IsDelta, GoodBook
  <2> HIDE DEF u
  <2>3. /\ Advance(u, d.seq).orders = u.orders
        /\ Advance(u, d.seq).lastSeq = d.seq /\ Advance(u, d.seq).haveLastSeq = TRUE
    BY <2>2, AdvanceFields, Zenon
  <2>4. /\ ApplyDelta(b, d).err = "ok" /\ ApplyDelta(b, d).err # "gap"
        /\ ApplyDelta(b, d).book = Advance(u, d.seq)
    BY <2>1
  <2> QED BY <1>2, <2>2, <2>3, <2>4, Zenon
<1>3. CASE ~IsGap(b, d.seq) /\ d.action # "upsert" /\ d.id \in DOMAIN b.orders
  <2>1. ApplyDelta(b, d) = [book |-> Advance(e, d.seq), err |-> "ok"]
    BY <1>3 DEF ApplyDelta
  <2>2. e \in Books /\ e.orders = Without(b.orders, d.id)
    BY <1>3, DeleteGood, DeleteOrders DEF GoodBook
  <2> HIDE DEF e
  <2>3. /\ Advance(e, d.seq).orders = e.orders
        /\ Advance(e, d.seq).lastSeq = d.seq /\ Advance(e, d.seq).haveLastSeq = TRUE
    BY <2>2, AdvanceFields, Zenon
  <2>4. /\ ApplyDelta(b, d).err = "ok" /\ ApplyDelta(b, d).err # "gap"
        /\ ApplyDelta(b, d).book = Advance(e, d.seq)
    BY <2>1
  <2> QED BY <1>3, <2>2, <2>3, <2>4, Zenon
<1>4. CASE ~IsGap(b, d.seq) /\ d.action # "upsert" /\ d.id \notin DOMAIN b.orders
  <2>1. ApplyDelta(b, d) = [book |-> Advance(b, d.seq), err |-> "unknown"]
    BY <1>4 DEF ApplyDelta
  <2> QED BY <2>1
<1> QED BY <1>1, <1>2, <1>3, <1>4

-----------------------------------------------------------------------------
(* What a snapshot makes of the orders                                      *)

\* No order is listed twice.
Unique(entries) == \A i, j \in DOMAIN entries : entries[i].id = entries[j].id => i = j

\* These are the orders the first k entries list.
ListsUpTo(orders, entries, k) ==
  /\ DOMAIN orders = {entries[i].id : i \in 1..k}
  /\ \A i \in 1..k : orders[entries[i].id] = OrderOf(entries[i])

\* After k rounds of LoadSnapshot's loop, the orders are the first k entries.
LEMMA AfterEntriesOrders ==
  ASSUME NEW b, GoodBook(b), b.orders = <<>>,
         NEW entries \in Seq(Entry), Unique(entries), NEW k \in 0..Len(entries)
  PROVE  ListsUpTo(AfterEntries(b, entries)[k].orders, entries, k)
<1> DEFINE f == AfterEntries(b, entries)
           S == {i \in Nat : i <= Len(entries) => ListsUpTo(f[i].orders, entries, i)}
<1>0. Len(entries) \in Nat /\ DOMAIN entries = 1..Len(entries)
  OBVIOUS
<1>1. \A i \in 0..Len(entries) :
         f[i] = IF i = 0 THEN b ELSE AddEntry(f[i - 1], entries[i])
  BY AfterEntriesIsLoop DEF IsLoop
<1>1a. \A i \in 0..Len(entries) : GoodBook(f[i])
  BY AfterEntriesGood
<1> HIDE DEF f
<1>2. 0 \in S
  <2>1. f[0] = b
    BY <1>0, <1>1
  <2>2. DOMAIN b.orders = {} /\ 1..0 = {}
    OBVIOUS
  <2> QED BY <2>1, <2>2 DEF ListsUpTo
<1>3. ASSUME NEW i \in Nat, i \in S PROVE i + 1 \in S
  <2> SUFFICES ASSUME i + 1 <= Len(entries) PROVE ListsUpTo(f[i + 1].orders, entries, i + 1)
    OBVIOUS
  <2> DEFINE e == entries[i + 1]
             p == PutOrder(f[i], e.id, OrderOf(e))
  <2>1. ListsUpTo(f[i].orders, entries, i) /\ GoodBook(f[i])
    BY <1>0, <1>1a, <1>3
  <2>2. f[i + 1] = AddEntry(f[i], e)
    BY <1>0, <1>1
  <2>3. e \in Entry
    BY <1>0
  <2>4. e.id \in OrderIds /\ OrderOf(e) \in OrderState
    BY <2>3 DEF Entry, OrderOf, OrderState
  <2>5. p \in Books /\ p.orders = With(f[i].orders, e.id, OrderOf(e))
    BY <2>1, <2>4, PutOrderGood, PutOrderOrders DEF GoodBook
  <2>6. f[i + 1].orders = With(f[i].orders, e.id, OrderOf(e))
    BY <2>2, <2>5, AddToLevelOrders DEF AddEntry
  <2>7. \A j \in 1..i : entries[j].id # e.id
    BY <1>0 DEF Unique
  <2>8. 1..(i + 1) = (1..i) \cup {i + 1}
    OBVIOUS
  <2>9. DOMAIN f[i + 1].orders = {entries[j].id : j \in 1..(i + 1)}
    <3>1. DOMAIN f[i + 1].orders = {entries[j].id : j \in 1..i} \cup {e.id}
      BY <2>1, <2>6 DEF ListsUpTo, With
    <3> QED BY <3>1, <2>8
  <2>10. ASSUME NEW j \in 1..(i + 1)
         PROVE  f[i + 1].orders[entries[j].id] = OrderOf(entries[j])
    <3>1. CASE j = i + 1
      BY <3>1, <2>6 DEF With
    <3>2. CASE j \in 1..i
      <4>1. /\ entries[j].id \in DOMAIN f[i].orders
            /\ f[i].orders[entries[j].id] = OrderOf(entries[j])
        BY <2>1, <3>2 DEF ListsUpTo
      <4> QED BY <4>1, <3>2, <2>6, <2>7 DEF With
    <3> QED BY <3>1, <3>2, <2>8
  <2> QED BY <2>9, <2>10 DEF ListsUpTo
<1> HIDE DEF S
<1>4. S \subseteq Nat
  BY DEF S
<1>5. S = Nat
  BY <1>2, <1>3, <1>4, SetInduction
<1>6. k \in S /\ k <= Len(entries)
  BY <1>0, <1>5
<1> QED BY <1>6 DEF S, f

\* LoadSnapshot leaves exactly the orders the snapshot lists.
LEMMA LoadSnapshotOrders ==
  ASSUME NEW b, GoodBook(b), NEW entries \in Seq(Entry), Unique(entries), NEW seq
  PROVE  /\ ListsUpTo(LoadSnapshot(b, entries, seq).orders, entries, Len(entries))
         /\ LoadSnapshot(b, entries, seq).lastSeq = seq
         /\ LoadSnapshot(b, entries, seq).haveLastSeq = TRUE
<1> DEFINE c == AfterEntries(Clear(b), entries)[Len(entries)]
<1>1. GoodBook(Clear(b)) /\ Clear(b).orders = <<>>
  BY ClearGood, ClearFields DEF GoodBook
<1>2. Len(entries) \in 0..Len(entries)
  OBVIOUS
<1>3. GoodBook(c) /\ ListsUpTo(c.orders, entries, Len(entries))
  BY <1>1, <1>2, AfterEntriesGood, AfterEntriesOrders
<1> HIDE DEF c
<1>4. LoadSnapshot(b, entries, seq) = Advance(c, seq)
  BY DEF LoadSnapshot, c
<1>5. c \in Books
  BY <1>3 DEF GoodBook
<1>6. /\ Advance(c, seq).orders = c.orders
      /\ Advance(c, seq).lastSeq = seq /\ Advance(c, seq).haveLastSeq = TRUE
  BY <1>5, AdvanceFields, Zenon
<1> QED BY <1>3, <1>4, <1>6, Zenon
=============================================================================
