------------------------------- MODULE BookFeed -------------------------------
(***************************************************************************)
(* WatchOrderBook's packet handler (forts/stream.go:153-226) driving the   *)
(* engine from the exchange's multicast feed.                              *)
(*                                                                         *)
(* The exchange is modelled from how the code uses it: it keeps the true   *)
(* book of the instrument and numbers the changes of it (RptSeq), sends    *)
(* each change once, broadcasts snapshots of the whole book periodically   *)
(* and, for this or for another instrument, EmptyBook messages that do not *)
(* say which instrument they are about.  The feed also carries the other   *)
(* instruments.  A packet may hold several messages.  The packets reach    *)
(* the client through a datagram socket that may lose, repeat or reorder   *)
(* them; one that DecodePacket refuses is as good as lost.                 *)
(*                                                                         *)
(* The configuration names groups of their own for the snapshots           *)
(* (config.go:140-146), and no code joins them.  SnapshotGroup says where  *)
(* the exchange sends them: as configured, they never reach the client;    *)
(* "incremental" stands for a feed that has them in the group that is      *)
(* joined, the only one on which the handling of snapshots ever runs.      *)
(***************************************************************************)
EXTENDS Engine, SequencesExt

CONSTANTS MaxRpt,          \* bound on the numbered changes of the instrument
          MaxWire,         \* bound on the packets under way to the client
          MaxFaults,       \* bound on lost, repeated and reordered packets
          MaxEmptyBooks,   \* bound on EmptyBook messages about other instruments
          MaxTechnical,    \* bound on technical trades of the instrument
          MaxForeign,      \* bound on messages about other instruments' orders
          MaxPacked,       \* bound on packets with two messages
          MaxDisturbed,    \* bound on all of the five taken together
          PerPacket,       \* how many entries of a snapshot fit into a packet
          Quotes,          \* the [side, price, size] an order may have
          SnapshotGroup    \* the group with the snapshots: "incremental" or "snapshot"

ASSUME QuotesAreOrders == Quotes \subseteq OrderState
ASSUME PacketHoldsOne  == PerPacket \in Nat \ {0}
ASSUME FeedBounds      == MaxRpt \in Nat /\ MaxWire \in Nat
\* The engine's numbers are as wide as the exchange's (uint32).
ASSUME NumbersFit      == 0..MaxRpt \subseteq Seqs
ASSUME NullIsNoId      == "null" \notin OrderIds

\* The groups WatchOrderBook joins: only Config.SIMBA.IncrementalGroupA.
Joined == {"incremental"}

VARIABLES truth,      \* the true resting orders after each number: truth[n + 1]
          wire,       \* packets under way, oldest first
          book,       \* the client's Engine
          synced,     \* history: a snapshot was loaded, to its last packet, and no
                      \* Clear has followed
          awaiting,   \* history: a gap was detected and no snapshot has followed
          spent       \* how much of each bound the environment has used

feedVars == <<truth, wire, book, synced, awaiting, spent>>

Rpt  == Len(truth) - 1
Live == truth[Len(truth)]

Spend(what, bound) ==
  /\ spent[what] < bound
  /\ spent.faults + spent.empty + spent.technical + spent.foreign + spent.packed
       < MaxDisturbed
  /\ spent' = [spent EXCEPT ![what] = @ + 1]

-----------------------------------------------------------------------------
(* The exchange                                                             *)

SendAll(ps) == Len(wire) + Len(ps) <= MaxWire /\ wire' = wire \o ps
Send(ms)    == SendAll(<<ms>>)

\* The changes an order may undergo, with what the exchange says of them: it is
\* entered, changed, executed or removed.
Upserts(orders, n, id) ==
  {[orders |-> [i \in DOMAIN orders \cup {id} |-> IF i = id THEN q ELSE orders[i]],
    says   |-> [type |-> "update", own |-> TRUE, action |-> "upsert", id |-> id,
                side |-> q.side, price |-> q.price, size |-> q.size, seq |-> n]] :
     q \in {p \in Quotes : id \in DOMAIN orders => orders[id] # p}}
Deletes(orders, n, id) ==
  {[orders |-> [i \in DOMAIN orders \ {d} |-> orders[i]],
    says   |-> [type |-> "update", own |-> TRUE, action |-> "delete", id |-> d, seq |-> n]] :
     d \in DOMAIN orders \cap {id}}
Changes(orders, n, id) == Upserts(orders, n, id) \cup Deletes(orders, n, id)

\* A numbered change.
XUpdate(id) ==
  /\ Rpt < MaxRpt
  /\ \E c \in Changes(Live, Rpt + 1, id) :
       truth' = Append(truth, c.orders) /\ Send(<<c.says>>)
  /\ UNCHANGED <<book, synced, awaiting, spent>>

\* Two of them at once, in one packet.
XPacked(id1, id2) ==
  /\ Rpt + 1 < MaxRpt
  /\ Spend("packed", MaxPacked)
  /\ \E c \in Changes(Live, Rpt + 1, id1) : \E d \in Changes(c.orders, Rpt + 2, id2) :
       truth' = truth \o <<c.orders, d.orders>> /\ Send(<<c.says, d.says>>)
  /\ UNCHANGED <<book, synced, awaiting>>

\* An OrderExecution without a price: it takes a number and changes no order.
XTechnicalTrade ==
  /\ Rpt < MaxRpt
  /\ Spend("technical", MaxTechnical)
  /\ truth' = Append(truth, Live)
  /\ Send(<<[type |-> "technical", own |-> TRUE]>>)
  /\ UNCHANGED <<book, synced, awaiting>>

\* The packets of a snapshot of these entries, the last one flagged as such.
Fragments(entries) ==
  LET count == IF entries = <<>> THEN 1 ELSE (Len(entries) + PerPacket - 1) \div PerPacket
      upTo(k) == IF k = count THEN Len(entries) ELSE k * PerPacket
  IN  [k \in 1..count |->
         <<[type |-> "snapshot", own |-> TRUE, seq |-> Rpt, last |-> k = count,
            entries |-> SubSeq(entries, (k - 1) * PerPacket + 1, upTo(k))]>>]

\* The resting orders as the entries of a snapshot.
Listing(orders) ==
  LET ids == SetToSeq(DOMAIN orders)
  IN  [k \in DOMAIN ids |-> [id |-> ids[k], side |-> orders[ids[k]].side,
                             price |-> orders[ids[k]].price, size |-> orders[ids[k]].size]]

\* The entry, of type EmptyBook and without an id, that says there is no order.
NoOrder == [id |-> "null", side |-> "empty", price |-> 0, size |-> 0]

\* Without orders, a snapshot has no entry or that one.
Listings(orders) ==
  {Listing(orders)} \cup IF DOMAIN orders = {} THEN {<<NoOrder>>} ELSE {}

\* The periodic snapshot reaches the client only on a group it has joined.
XSnapshot ==
  /\ SnapshotGroup \in Joined
  /\ \E entries \in Listings(Live) : SendAll(Fragments(entries))
  /\ UNCHANGED <<truth, book, synced, awaiting, spent>>

\* Another instrument: an order of it is removed, or a snapshot of it is sent, with
\* a number of its own that would fit this instrument too.
XForeign ==
  /\ Spend("foreign", MaxForeign)
  /\ \/ \E id \in OrderIds :
          Send(<<[type |-> "update", own |-> FALSE, action |-> "delete", id |-> id,
                  seq |-> Rpt + 1]>>)
     \/ Send(<<[type |-> "snapshot", own |-> FALSE, seq |-> Rpt, last |-> TRUE,
                entries |-> <<>>]>>)
  /\ UNCHANGED <<truth, book, synced, awaiting>>

\* EmptyBook about this instrument is sent while it has no order; about another
\* instrument, at any time.
XEmptyBook ==
  /\ \/ DOMAIN Live = {} /\ UNCHANGED spent
     \/ Spend("empty", MaxEmptyBooks)
  /\ Send(<<[type |-> "empty"]>>)
  /\ UNCHANGED <<truth, book, synced, awaiting>>

-----------------------------------------------------------------------------
(* The packet handler: the book after a packet                              *)

\* applyOrderUpdateDelta and applyOrderExecutionDelta: any error clears.
ApplyOrClear(b, d) ==
  LET r == ApplyDelta(b, d) IN IF r.err = "ok" THEN r.book ELSE Clear(r.book)

\* Mutant: the handler does not compare the SecurityID.
AnyInstrument(p) == TRUE

\* Only EmptyBook is handled whatever instrument it is about.
Concerns(p) == p.type = "empty" \/ p.own

\* loadOrderBookSnapshot: entries without an order are skipped.
Skipped(e) == e.side = "empty" \/ e.id = "null"

Kept(entries) ==
  LET kept[i \in 0..Len(entries)] ==
        IF i = 0 THEN <<>>
        ELSE IF Skipped(entries[i]) THEN kept[i - 1] ELSE Append(kept[i - 1], entries[i])
  IN  kept[Len(entries)]

\* handleSIMBAPacket.  An execution without a price returns before ApplyDelta, and
\* every packet of a snapshot is loaded as if it were the whole of it.
Handle(b, p) ==
  IF ~Concerns(p) THEN b
  ELSE CASE p.type = "update"    -> ApplyOrClear(b, p)
         [] p.type = "technical" -> b
         [] p.type = "snapshot"  -> LoadSnapshot(b, Kept(p.entries), p.seq)
         [] p.type = "empty"     -> Clear(b)

Cleared(b, p) == \/ p.type = "empty"
                 \/ p.type = "update" /\ ApplyDelta(b, p).err # "ok"

\* DecodePacket decodes one message; whatever follows it in the datagram is left.
Decoded(packet) == Head(packet)

ReceiveMessage(p) ==
  /\ book' = Handle(book, p)
  /\ IF Concerns(p)
     THEN /\ synced' = IF p.type = "snapshot" THEN p.last ELSE synced /\ ~Cleared(book, p)
          /\ awaiting' = IF p.type = "snapshot" THEN FALSE
                         ELSE awaiting \/ (p.type = "update" /\ IsGap(book, p.seq))
     ELSE UNCHANGED <<synced, awaiting>>
  /\ UNCHANGED truth

Receive(packet) == ReceiveMessage(Decoded(packet))

-----------------------------------------------------------------------------
(* The socket                                                               *)

Deliver ==
  /\ wire # <<>>
  /\ Receive(Head(wire))
  /\ wire' = Tail(wire)
  /\ UNCHANGED spent

Lose ==
  /\ wire # <<>>
  /\ wire' = Tail(wire)
  /\ Spend("faults", MaxFaults)
  /\ UNCHANGED <<truth, book, synced, awaiting>>

Repeat ==
  /\ wire # <<>>
  /\ Receive(Head(wire))
  /\ UNCHANGED wire
  /\ Spend("faults", MaxFaults)

Overtake ==
  /\ Len(wire) > 1
  /\ Receive(wire[2])
  /\ wire' = <<wire[1]>> \o SubSeq(wire, 3, Len(wire))
  /\ Spend("faults", MaxFaults)

-----------------------------------------------------------------------------
FeedInit ==
  /\ truth = <<<<>>>>
  /\ wire = <<>>
  /\ book = NewEngine
  /\ synced = FALSE
  /\ awaiting = FALSE
  /\ spent = [faults |-> 0, empty |-> 0, technical |-> 0, foreign |-> 0, packed |-> 0]

Exchange == \/ XTechnicalTrade \/ XSnapshot \/ XEmptyBook \/ XForeign
            \/ \E id \in OrderIds : XUpdate(id) \/ \E id2 \in OrderIds : XPacked(id, id2)
Socket   == Deliver \/ Lose \/ Repeat \/ Overtake

FeedNext == Exchange \/ Socket

FeedSpec == FeedInit /\ [][FeedNext]_feedVars

\* The reader keeps reading, and the exchange keeps broadcasting its snapshots: on a
\* group that is joined they arrive again and again, on another one never.
FairFeedSpec == FeedSpec /\ WF_feedVars(Deliver) /\ SF_feedVars(XSnapshot)

-----------------------------------------------------------------------------
(* Properties                                                               *)

FeedTypeOK ==
  /\ truth \in Seq(UNION {[S -> Quotes] : S \in SUBSET OrderIds})
  /\ Len(wire) <= MaxWire
  /\ book \in Books
  /\ synced \in BOOLEAN /\ awaiting \in BOOLEAN

\* From a snapshot that was loaded (one that arrived, so on a group that is joined) to
\* the next Clear, the client's orders are exactly those the exchange had at the number
\* the book stands at, whatever the socket loses, repeats or reorders in between and
\* whatever else the feed carries (stream.go:161-172, "rebuilt from the next
\* OrderBookSnapshot cycle", 15-17).
BookIsTruth == book.orders = truth[book.lastSeq + 1]

SyncedBookIsTrue == synced => BookIsTruth

\* After a gap the engine is "simply Clear()-ed and rebuilt from the next
\* OrderBookSnapshot cycle" (stream.go:15-17): the client ends up with the exchange's
\* book again.  As the feed is configured no snapshot ever arrives.
GapIsRecovered == awaiting ~> (synced /\ BookIsTruth)

\* Clearing on every EmptyBook "is safe (worst case: an extra resync wait)"
\* (stream.go:174-179): a book that shows orders shows the true ones.
EmptyBookIsSafe == book.orders # <<>> => BookIsTruth

=============================================================================
