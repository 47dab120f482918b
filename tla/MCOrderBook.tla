----------------------------- MODULE MCOrderBook -----------------------------
(* TLC instance of OrderBook: every sequence of calls with a few orders at a  *)
(* few prices, and its refinement of RestingOrders.                           *)
EXTENDS OrderBook, TLC

CONSTANTS o1, o2, o3, MaxSeq

MCOrderIds == {o1, o2, o3}
MCSizes    == {0, 1}
MCSeqs     == 0..MaxSeq

\* The empty snapshot, and snapshots of orders that share a price, that rest on
\* opposite sides, and of which one has size 0.
E(i, s, p, n) == [id |-> i, side |-> s, price |-> p, size |-> n]
MCSnapshots ==
  {<<>>, <<E(o1, "bid", 11, 1), E(o2, "bid", 11, 1), E(o3, "bid", 12, 1)>>,
   <<E(o2, "ask", 12, 1), E(o1, "bid", 11, 1), E(o3, "ask", 11, 0)>>}

Symmetry == Permutations(MCOrderIds)
=============================================================================
