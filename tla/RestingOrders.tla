---------------------------- MODULE RestingOrders ----------------------------
(***************************************************************************)
(* What a caller of the order book relies on, with no levels and no caches *)
(* of any kind: a map of resting orders, the sequence number it stands at, *)
(* and the quotes a reader sees, which are recomputed from the orders.     *)
(* orderbook/engine.go promises exactly this at O(1) per update.           *)
(***************************************************************************)
EXTENDS Integers, Sequences, FiniteSetsExt

CONSTANTS OrderIds, Prices, Sizes, Seqs, Snapshots

VARIABLES resting,    \* order id -> [side, price, size], for the orders in the book
          cursor,     \* <<>> before the first number is seen, then <<number>>
          quotes      \* per side: the levels best first, and the best of them

vars == <<resting, cursor, quotes>>

Sides == {"bid", "ask"}

At(orders, side, p) == {i \in DOMAIN orders : orders[i].side = side /\ orders[i].price = p}

\* The total size resting at a price.
Total(orders, side, p) == MapThenSumSet(LAMBDA i : orders[i].size, At(orders, side, p))

Outranks(side, p, q) == IF side = "bid" THEN p > q ELSE p < q

\* The levels are every price with something resting at it, once and best first.
ListsLevels(levels, orders, side) ==
  /\ levels \in Seq([price : Prices, size : Nat])
  /\ {levels[k].price : k \in DOMAIN levels} = {p \in Prices : Total(orders, side, p) > 0}
  /\ \A k \in DOMAIN levels : levels[k].size = Total(orders, side, levels[k].price)
  /\ \A j, k \in DOMAIN levels : j < k => Outranks(side, levels[j].price, levels[k].price)

Quoted(orders, q) ==
  \A side \in Sides :
    /\ ListsLevels(q[side].levels, orders, side)
    /\ q[side].best = IF q[side].levels = <<>> THEN <<>> ELSE <<q[side].levels[1]>>

Publish(orders) == resting' = orders /\ Quoted(resting', quotes')

\* The sequence number moves to seq, which is the next one.
Advance(seq) == cursor' = <<seq>> /\ (cursor # <<>> => seq = cursor[1] + 1)

Init == resting = <<>> /\ cursor = <<>> /\ Quoted(<<>>, quotes)

\* The update puts an order, replacing the one with its identifier.
Put(id, o) ==
  Publish([i \in DOMAIN resting \cup {id} |-> IF i = id THEN o ELSE resting[i]])

\* The update removes an order; an unknown one is already removed.
Discard(id) == Publish([i \in DOMAIN resting \ {id} |-> resting[i]])

\* A snapshot replaces the orders and the sequence number together.
Replace(seq, entries) ==
  LET listed == {entries[k].id : k \in DOMAIN entries}
      entry(i) == entries[CHOOSE k \in DOMAIN entries : entries[k].id = i]
  IN  /\ cursor' = <<seq>>
      /\ Publish([i \in listed |-> [side |-> entry(i).side, price |-> entry(i).price,
                                     size |-> entry(i).size]])

\* The orders are dropped and the sequence number stays.
Empty == cursor' = cursor /\ Publish(<<>>)

Next ==
  \/ /\ \E seq \in Seqs : Advance(seq)
     /\ \E id \in OrderIds :
          \/ Discard(id)
          \/ \E s \in Sides, p \in Prices, n \in Sizes :
                Put(id, [side |-> s, price |-> p, size |-> n])
  \/ \E seq \in Seqs, entries \in Snapshots : Replace(seq, entries)
  \/ Empty

Spec == Init /\ [][Next]_vars
=============================================================================
