-------------------------------- MODULE Engine -------------------------------
(***************************************************************************)
(* The local order book of one instrument: orderbook/engine.go.            *)
(*                                                                         *)
(* A book is a value: the record holds every field of the Go struct Engine *)
(* and each method is an operator from the book before the call to the     *)
(* book after it.  OrderBook lets any caller make any sequence of calls;   *)
(* BookFeed drives the same operators from the market-data feed.           *)
(*                                                                         *)
(* A Go map read of a price that has no level gives 0, and addToLevel      *)
(* never stores a size <= 0, so a side's levels are a total function in    *)
(* which 0 means "no level".                                               *)
(***************************************************************************)
EXTENDS Integers, Sequences, FiniteSets

CONSTANTS OrderIds,     \* order identifiers
          MinPrice, MaxPrice,   \* the range of a price mantissa (int64)
          Sizes,        \* resting sizes an update may carry, 0 included
          Seqs          \* sequence numbers a caller may pass

Sides  == {"bid", "ask"}
Prices == MinPrice..MaxPrice

OrderState == [side : Sides, price : Prices, size : Sizes]
Entry      == [id : OrderIds, side : Sides, price : Prices, size : Sizes]

\* The arguments of ApplyDelta; a delete does not look at the side, the price
\* and the size.
Delta == [action : {"upsert"}, id : OrderIds, side : Sides, price : Prices,
          size : Sizes, seq : Seqs]
         \cup [action : {"delete"}, id : OrderIds, seq : Seqs]

ASSUME PriceRange   == MinPrice \in Int /\ MaxPrice \in Int
ASSUME SizesNatural == Sizes \subseteq Nat
ASSUME SeqsNatural  == Seqs \subseteq Nat

-----------------------------------------------------------------------------
(* Levels and the cached best prices                                        *)

\* p is a better price than q on this side of the book.
Better(side, p, q) == IF side = "bid" THEN p > q ELSE p < q

\* The prices that have a level.
Occupied(b, side) == {p \in Prices : b.levels[side][p] > 0}

\* The scan of recomputeBest over a non-empty map of levels.
BestOf(side, ps) == CHOOSE p \in ps : \A q \in ps : ~Better(side, q, p)

RecomputeBest(b, side) ==
  IF Occupied(b, side) = {}
  THEN [b EXCEPT !.haveBest[side] = FALSE]
  ELSE [b EXCEPT !.haveBest[side] = TRUE,
                 !.best[side] = BestOf(side, Occupied(b, side))]

\* Mutant: the cached best is kept when its level is removed.
KeepStaleBest(b, side, price) == b

InvalidateBestIfMatches(b, side, price) ==
  IF b.haveBest[side] /\ price = b.best[side] THEN RecomputeBest(b, side) ELSE b

UpdateBestOnUpsert(b, side, price) ==
  IF ~b.haveBest[side] \/ Better(side, price, b.best[side])
  THEN [b EXCEPT !.haveBest[side] = TRUE, !.best[side] = price]
  ELSE b

AddToLevel(b, side, price, delta) ==
  LET newSize == b.levels[side][price] + delta
  IN  IF newSize <= 0
      THEN InvalidateBestIfMatches([b EXCEPT !.levels[side][price] = 0], side, price)
      ELSE UpdateBestOnUpsert([b EXCEPT !.levels[side][price] = newSize], side, price)

-----------------------------------------------------------------------------
(* The methods of Engine                                                    *)

NewEngine ==
  [orders |-> <<>>,
   levels |-> [s \in Sides |-> [p \in Prices |-> 0]],
   best |-> [s \in Sides |-> 0], haveBest |-> [s \in Sides |-> FALSE],
   lastSeq |-> 0, haveLastSeq |-> FALSE]

OrderOf(e) == [side |-> e.side, price |-> e.price, size |-> e.size]

\* Drops every order and level; the sequence tracker is left alone, and the
\* cached prices stay behind their cleared flags.
Clear(b) ==
  [b EXCEPT !.orders   = <<>>,
            !.levels   = [s \in Sides |-> [p \in Prices |-> 0]],
            !.haveBest = [s \in Sides |-> FALSE]]

\* Mutant: the tracker holds the next expected number, not the last one.
AdvancePast(b, seq) == [b EXCEPT !.lastSeq = seq + 1, !.haveLastSeq = TRUE]

\* The tail of every call that accepts a sequence number.
Advance(b, seq) == [b EXCEPT !.lastSeq = seq, !.haveLastSeq = TRUE]

PutOrder(b, id, o) ==
  [b EXCEPT !.orders = [i \in DOMAIN @ \cup {id} |-> IF i = id THEN o ELSE @[i]]]
DropOrder(b, id) == [b EXCEPT !.orders = [i \in DOMAIN @ \ {id} |-> @[i]]]

\* Take the order's old size off its old level, if it is known.
Unrest(b, id) ==
  IF id \in DOMAIN b.orders
  THEN AddToLevel(b, b.orders[id].side, b.orders[id].price, -b.orders[id].size)
  ELSE b

\* Mutant: a replaced order is not taken off the level it rested on.
UpsertWithoutUnrest(b, id, o) == AddToLevel(PutOrder(b, id, o), o.side, o.price, o.size)

Upsert(b, id, o) == AddToLevel(PutOrder(Unrest(b, id), id, o), o.side, o.price, o.size)

Delete(b, id) ==
  AddToLevel(DropOrder(b, id), b.orders[id].side, b.orders[id].price, -b.orders[id].size)

IsGap(b, seq) == b.haveLastSeq /\ seq # b.lastSeq + 1

\* ApplyDelta: a sequence gap leaves the book alone, a delete of an unknown
\* order only advances the tracker.
ApplyDelta(b, d) ==
  IF IsGap(b, d.seq) THEN [book |-> b, err |-> "gap"]
  ELSE IF d.action = "upsert"
       THEN [book |-> Advance(Upsert(b, d.id, OrderOf(d)), d.seq), err |-> "ok"]
       ELSE IF d.id \in DOMAIN b.orders
            THEN [book |-> Advance(Delete(b, d.id), d.seq), err |-> "ok"]
            ELSE [book |-> Advance(b, d.seq), err |-> "unknown"]

\* One round of LoadSnapshot's loop.
AddEntry(b, e) == AddToLevel(PutOrder(b, e.id, OrderOf(e)), e.side, e.price, e.size)

\* The loop of LoadSnapshot, as a recursive function so that it can be reasoned
\* about: the book after the first i entries.
AfterEntries(b, entries) ==
  LET after[i \in 0..Len(entries)] ==
        IF i = 0 THEN b ELSE AddEntry(after[i - 1], entries[i])
  IN  after

LoadSnapshot(b, entries, seq) ==
  Advance(AfterEntries(Clear(b), entries)[Len(entries)], seq)

-----------------------------------------------------------------------------
(* The readers of Engine                                                    *)

\* BestBid, BestAsk: the cached price and the size of its level, or nothing.
Best(b, side) ==
  IF b.haveBest[side]
  THEN <<[price |-> b.best[side], size |-> b.levels[side][b.best[side]]]>>
  ELSE <<>>

\* Levels with n <= 0: every level, best price first.
Levels(b, side) ==
  LET rank(p) == Cardinality({q \in Occupied(b, side) : Better(side, q, p)}) + 1
      at(k)   == CHOOSE p \in Occupied(b, side) : rank(p) = k
  IN  [k \in 1..Cardinality(Occupied(b, side)) |->
         [price |-> at(k), size |-> b.levels[side][at(k)]]]

-----------------------------------------------------------------------------
(* What a book looks like                                                   *)

Books ==
  [orders : UNION {[S -> OrderState] : S \in SUBSET OrderIds},
   levels : [Sides -> [Prices -> Nat]],
   best : [Sides -> Prices \cup {0}], haveBest : [Sides -> BOOLEAN],
   lastSeq : Seqs \cup {0}, haveLastSeq : BOOLEAN]

\* The cached best price of a side is the best price that has a level, and is
\* absent exactly when the side is empty.
BestIsTopOf(b, side) ==
  IF b.haveBest[side]
  THEN /\ b.best[side] \in Occupied(b, side)
       /\ \A q \in Occupied(b, side) : ~Better(side, q, b.best[side])
  ELSE Occupied(b, side) = {}
=============================================================================
