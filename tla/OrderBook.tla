------------------------------ MODULE OrderBook ------------------------------
(***************************************************************************)
(* The engine of orderbook/engine.go under any caller: any sequence of     *)
(* ApplyDelta, LoadSnapshot and Clear, one call at a time.  The engine has *)
(* no lock of its own; engine.go:24-28 leaves it to the caller to          *)
(* serialize the calls.                                                    *)
(***************************************************************************)
EXTENDS Engine

CONSTANT Snapshots      \* the entry lists LoadSnapshot may be given

\* A snapshot lists each resting order once.
ASSUME SnapshotsWellFormed ==
  /\ Snapshots \subseteq Seq(Entry)
  /\ \A snap \in Snapshots : \A i, j \in DOMAIN snap :
        snap[i].id = snap[j].id => i = j

VARIABLES book,     \* the Engine
          err       \* what the last call returned: "ok", "gap", "unknown"

vars == <<book, err>>

-----------------------------------------------------------------------------
(* Behaviours: any caller, one call at a time                               *)

Init == book = NewEngine /\ err = "ok"

DoApplyDelta(d) ==
  /\ book' = ApplyDelta(book, d).book
  /\ err'  = ApplyDelta(book, d).err

DoLoadSnapshot(entries, seq) ==
  /\ book' = LoadSnapshot(book, entries, seq)
  /\ err'  = "ok"

DoClear ==
  /\ book' = Clear(book)
  /\ err'  = "ok"

Next ==
  \/ \E d \in Delta : DoApplyDelta(d)
  \/ \E entries \in Snapshots, seq \in Seqs : DoLoadSnapshot(entries, seq)
  \/ DoClear

Spec == Init /\ [][Next]_vars

-----------------------------------------------------------------------------
(* Properties                                                               *)

\* The engine's fields keep the types of the Go struct, and a level never
\* holds a negative size.
TypeOK == book \in Books /\ err \in {"ok", "gap", "unknown"}

\* BestBid and BestAsk answer the best price that has a level, and nothing when
\* the side is empty.  The cache is maintained piecemeal by updateBestOnUpsert
\* and invalidateBestIfMatches on every change of a level.
BestIsTop == \A side \in Sides : BestIsTopOf(book, side)

\* The engine implements the map of resting orders: after every call its
\* incrementally kept levels and cached best prices are what recomputing them
\* from the orders would give, and only an in-sequence update changes the orders.
Abstract ==
  INSTANCE RestingOrders WITH
    resting <- book.orders,
    cursor  <- IF book.haveLastSeq THEN <<book.lastSeq>> ELSE <<>>,
    quotes  <- [s \in Sides |-> [levels |-> Levels(book, s), best |-> Best(book, s)]]

ImplementsRestingOrders == Abstract!Spec
=============================================================================
