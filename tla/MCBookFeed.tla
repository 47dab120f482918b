------------------------------ MODULE MCBookFeed ------------------------------
(***************************************************************************)
(* TLC instance of BookFeed: two orders, a bid and an ask, and a few       *)
(* changes.  What is under way there are decoded packets; SimbaDecoder is  *)
(* checked beside it, for datagrams of every length up to two entries.     *)
(***************************************************************************)
EXTENDS BookFeed, SimbaDecoder, TLC

CONSTANTS o1, o2

MCOrderIds == {o1, o2}
MCSizes    == {1, 2}
MCSeqs     == 0..MaxRpt
MCQuotes   == {[side |-> "bid", price |-> 10, size |-> 1],
               [side |-> "ask", price |-> 11, size |-> 2]}

MCDatagrams ==
  [size : 0..180, incremental : BOOLEAN,
   template : {"Heartbeat", "SequenceReset", "EmptyBook", "BestPrices", "OrderUpdate",
               "OrderExecution", "OrderBookSnapshot", "SecurityDefinition", "other"},
   blockLength : {0, 16, 18, 74}, groupLength : {36, 57, 59}, numInGroup : 0..2]

\* Evaluated before the run; BookFeedProofs proves it for every datagram.  Some of
\* these make the decoder read behind their end.
ASSUME DecoderReads == /\ \A p \in MCDatagrams : /\ ReadsStayInside(p) <=> ~Overruns(p)
                                               /\ Known(p) => NeverTorn(p)
                       /\ \E p \in MCDatagrams : Overruns(p)
=============================================================================
