----------------------------- MODULE BookFeedProofs ----------------------------
(***************************************************************************)
(* Proofs about the order-book feed: its variables keep their types and    *)
(* the client's best prices are right, whatever the socket does; a synced  *)
(* book is the exchange's, as long as the resting orders fit into one      *)
(* packet of a snapshot; and the decoder in front of it leaves a datagram  *)
(* in one case only, and tears no message apart.                           *)
(*                                                                         *)
(* The argument about the synced book: every message under way is faithful *)
(* to the truth, an update being the step between the orders before its    *)
(* number and those after it and a snapshot the list of the orders at its  *)
(* number, and the exchange only adds to the truth; so a book that shows   *)
(* the truth at its number is taken to the truth at the next one by the    *)
(* only update it accepts, and any snapshot makes it show the truth again. *)
(***************************************************************************)
EXTENDS BookFeed, SimbaDecoder, EngineProofs, FiniteSetTheorems

-----------------------------------------------------------------------------
(* The truth and the messages                                               *)

\* The orders that may rest at a time: finitely many.
Orders == UNION {[S -> Quotes] : S \in {T \in SUBSET OrderIds : IsFiniteSet(T)}}

\* What an entry of a snapshot may be.
SnapshotEntry == Entry \cup {NoOrder}

\* What the exchange sends.
Upserted  == [type : {"update"}, own : BOOLEAN, action : {"upsert"}, id : OrderIds,
              side : Sides, price : Prices, size : Sizes, seq : Nat]
Deleted   == [type : {"update"}, own : BOOLEAN, action : {"delete"}, id : OrderIds, seq : Nat]
Technical == [type : {"technical"}, own : {TRUE}]
Fragment  == [type : {"snapshot"}, own : BOOLEAN, seq : Nat, last : BOOLEAN,
              entries : Seq(SnapshotEntry)]
Emptied   == [type : {"empty"}]
Messages  == Upserted \cup Deleted \cup Technical \cup Fragment \cup Emptied
Packets   == Seq(Messages) \ {<<>>}

IsTruth(t) == t \in Seq(Orders) /\ Len(t) \in 1..MaxRpt + 1

\* A message about this instrument carries a number the exchange has reached.
Numbered(t, m) == m.type \in {"update", "snapshot"} /\ m.own => m.seq \in 0..Len(t) - 1

\* An update is the step between the orders before its number and those after it;
\* a snapshot lists the orders at its number.
Faithful(t, m) ==
  /\ m.type = "update" /\ m.own =>
        /\ m.seq \in 1..Len(t) - 1
        /\ m.action = "upsert" => t[m.seq + 1] = With(t[m.seq], m.id, OrderOf(m))
        /\ m.action # "upsert" => t[m.seq + 1] = Without(t[m.seq], m.id)
  /\ m.type = "snapshot" /\ m.own =>
        /\ m.seq \in 0..Len(t) - 1
        /\ Unique(Kept(m.entries))
        /\ ListsUpTo(t[m.seq + 1], Kept(m.entries), Len(Kept(m.entries)))

\* The exchange only adds to the truth.
Extends(u, t) == Len(t) <= Len(u) /\ \A i \in 1..Len(t) : u[i] = t[i]

LEMMA NumberedStays ==
  ASSUME NEW t, IsTruth(t), NEW u, IsTruth(u), Extends(u, t), NEW m, Numbered(t, m)
  PROVE  Numbered(u, m)
<1>1. Len(t) \in Nat /\ Len(u) \in Nat /\ Len(t) <= Len(u)
  BY FeedBounds DEF IsTruth, Extends
<1>2. \A n \in 0..Len(t) - 1 : n \in 0..Len(u) - 1
  BY <1>1
<1> QED BY <1>2, Zenon DEF Numbered

LEMMA FaithfulStays ==
  ASSUME NEW t, IsTruth(t), NEW u, IsTruth(u), Extends(u, t), NEW m, Faithful(t, m)
  PROVE  Faithful(u, m)
<1>1. Len(t) \in Nat /\ Len(u) \in Nat /\ Len(t) <= Len(u)
  BY FeedBounds DEF IsTruth, Extends
<1>2. \A n \in 0..Len(t) - 1 : n \in 0..Len(u) - 1 /\ u[n + 1] = t[n + 1]
  BY <1>1 DEF Extends
<1>3. \A n \in 1..Len(t) - 1 : n \in 1..Len(u) - 1 /\ u[n] = t[n] /\ u[n + 1] = t[n + 1]
  BY <1>1 DEF Extends
<1> QED BY <1>2, <1>3, Zenon DEF Faithful

LEMMA OrdersInTruth ==
  ASSUME NEW t, IsTruth(t), NEW n \in 1..Len(t)
  PROVE  t[n] \in Orders
BY FeedBounds DEF IsTruth

LEMMA WithIsOrders ==
  ASSUME NEW orders \in Orders, NEW id \in OrderIds, NEW q \in Quotes
  PROVE  With(orders, id, q) \in Orders
<1>1. PICK S \in SUBSET OrderIds : IsFiniteSet(S) /\ orders \in [S -> Quotes]
  BY DEF Orders
<1>2. With(orders, id, q) \in [S \cup {id} -> Quotes] /\ S \cup {id} \in SUBSET OrderIds
  BY <1>1 DEF With
<1>3. IsFiniteSet(S \cup {id})
  BY <1>1, FS_AddElement
<1> QED BY <1>2, <1>3 DEF Orders

LEMMA WithoutIsOrders ==
  ASSUME NEW orders \in Orders, NEW id
  PROVE  Without(orders, id) \in Orders
<1>1. PICK S \in SUBSET OrderIds : IsFiniteSet(S) /\ orders \in [S -> Quotes]
  BY DEF Orders
<1>2. Without(orders, id) \in [S \ {id} -> Quotes] /\ S \ {id} \in SUBSET OrderIds
  BY <1>1 DEF Without
<1>3. IsFiniteSet(S \ {id})
  BY <1>1, FS_RemoveElement
<1> QED BY <1>2, <1>3 DEF Orders

\* A change takes the orders to what the message says of it.
LEMMA ChangeSays ==
  ASSUME NEW orders \in Orders, NEW n \in Nat, NEW id \in OrderIds,
         NEW c \in Changes(orders, n, id)
  PROVE  /\ c.orders \in Orders
         /\ c.says \in Messages
         /\ c.says.type = "update" /\ c.says.seq = n
         /\ c.says.action = "upsert" => c.orders = With(orders, c.says.id, OrderOf(c.says))
         /\ c.says.action # "upsert" => c.orders = Without(orders, c.says.id)
<1>1. CASE c \in Upserts(orders, n, id)
  <2>1. PICK q \in Quotes :
          c = [orders |-> With(orders, id, q),
               says |-> [type |-> "update", own |-> TRUE, action |-> "upsert", id |-> id,
                         side |-> q.side, price |-> q.price, size |-> q.size, seq |-> n]]
    BY <1>1 DEF Upserts, With
  <2>2. q \in OrderState /\ q = [side |-> q.side, price |-> q.price, size |-> q.size]
        /\ q.side \in Sides /\ q.price \in Prices /\ q.size \in Sizes
    BY QuotesAreOrders DEF OrderState
  <2> DEFINE says == [type |-> "update", own |-> TRUE, action |-> "upsert", id |-> id,
                      side |-> q.side, price |-> q.price, size |-> q.size, seq |-> n]
  <2>3. says \in Upserted
    BY <2>2 DEF Upserted
  <2>4. /\ says.type = "update" /\ says.seq = n /\ says.action = "upsert" /\ says.id = id
        /\ OrderOf(says) = q
    BY <2>2 DEF OrderOf
  <2>5. c.orders = With(orders, id, q) /\ c.says = says
    BY <2>1
  <2> HIDE DEF says
  <2>6. c.orders \in Orders
    BY <2>5, WithIsOrders
  <2>7. c.says \in Messages
    BY <2>3, <2>5, Zenon DEF Messages
  <2> QED BY <2>4, <2>5, <2>6, <2>7, Zenon
<1>2. CASE c \in Deletes(orders, n, id)
  <2>1. c = [orders |-> Without(orders, id),
             says |-> [type |-> "update", own |-> TRUE, action |-> "delete", id |-> id,
                       seq |-> n]]
    BY <1>2 DEF Deletes, Without
  <2> DEFINE says == [type |-> "update", own |-> TRUE, action |-> "delete", id |-> id,
                      seq |-> n]
  <2>3. says \in Deleted
    BY DEF Deleted
  <2>4. /\ says.type = "update" /\ says.seq = n /\ says.action # "upsert" /\ says.id = id
    OBVIOUS
  <2>5. c.orders = Without(orders, id) /\ c.says = says
    BY <2>1
  <2> HIDE DEF says
  <2>6. c.orders \in Orders
    BY <2>5, WithoutIsOrders
  <2>7. c.says \in Messages
    BY <2>3, <2>5, Zenon DEF Messages
  <2> QED BY <2>4, <2>5, <2>6, <2>7, Zenon
<1> QED BY <1>1, <1>2 DEF Changes

-----------------------------------------------------------------------------
(* What the exchange sends                                                  *)

AllNumbered(t, ps) == \A i \in 1..Len(ps) : Numbered(t, Head(ps[i]))
AllFaithful(t, ps) == \A i \in 1..Len(ps) : Faithful(t, Head(ps[i]))

\* A step of the exchange that sends these packets.
Sends(ps) ==
  /\ IsTruth(truth') /\ Extends(truth', truth)
  /\ ps \in Seq(Packets) /\ SendAll(ps)
  /\ AllNumbered(truth', ps)
  /\ UNCHANGED <<book, synced, awaiting>>

\* The orders the exchange has now fit into one packet of a snapshot.
Fits == Cardinality(DOMAIN Live) <= PerPacket

\* One packet whose first message is m.
LEMMA OnePacket ==
  ASSUME NEW t, NEW ms \in Packets, Numbered(t, Head(ms))
  PROVE  /\ <<ms>> \in Seq(Packets) /\ AllNumbered(t, <<ms>>)
         /\ Faithful(t, Head(ms)) => AllFaithful(t, <<ms>>)
<1>1. <<ms>> \in Seq(Packets) /\ Len(<<ms>>) = 1 /\ <<ms>>[1] = ms /\ 1..1 = {1}
  OBVIOUS
<1>2. \A i \in 1..Len(<<ms>>) : <<ms>>[i] = ms
  BY <1>1
<1> HIDE DEF Numbered, Faithful
<1> QED BY <1>1, <1>2, Zenon DEF AllNumbered, AllFaithful

LEMMA LiveIsOrders ==
  ASSUME IsTruth(truth)
  PROVE  Live \in Orders /\ Len(truth) \in Nat /\ Rpt \in 0..MaxRpt /\ Rpt + 1 = Len(truth)
BY FeedBounds DEF Live, IsTruth, Rpt

\* The truth with more orders behind it.
LEMMA TruthGrows ==
  ASSUME IsTruth(truth), NEW os \in Seq(Orders), Len(truth) + Len(os) <= MaxRpt + 1
  PROVE  /\ IsTruth(truth \o os) /\ Extends(truth \o os, truth)
         /\ Len(truth \o os) = Len(truth) + Len(os)
         /\ \A i \in 1..Len(os) : (truth \o os)[Len(truth) + i] = os[i]
BY FeedBounds DEF IsTruth, Extends

LEMMA TruthStays ==
  ASSUME IsTruth(truth)
  PROVE  Extends(truth, truth)
BY FeedBounds DEF IsTruth, Extends

\* A change at the next number is what the truth makes of it.
LEMMA ChangeIsFaithful ==
  ASSUME IsTruth(truth), NEW u, IsTruth(u), Extends(u, truth),
         NEW id \in OrderIds, NEW c \in Changes(Live, Rpt + 1, id),
         Len(truth) < Len(u), u[Len(truth) + 1] = c.orders
  PROVE  Numbered(u, c.says) /\ Faithful(u, c.says)
<1>1. /\ Live \in Orders /\ Rpt + 1 \in Nat /\ Len(truth) \in Nat \ {0} /\ Len(u) \in Nat
      /\ Rpt + 1 = Len(truth)
  BY LiveIsOrders, FeedBounds DEF IsTruth
<1>2. /\ c.says.type = "update" /\ c.says.seq = Rpt + 1
      /\ c.says.action = "upsert" => c.orders = With(Live, c.says.id, OrderOf(c.says))
      /\ c.says.action # "upsert" => c.orders = Without(Live, c.says.id)
  BY <1>1, ChangeSays
<1>3. u[Rpt + 1] = Live /\ u[Rpt + 1 + 1] = c.orders
  BY <1>1 DEF Extends, Live
<1>4. Rpt + 1 \in 0..Len(u) - 1 /\ Rpt + 1 \in 1..Len(u) - 1
  BY <1>1
<1>5. Numbered(u, c.says)
  BY <1>2, <1>4, Zenon DEF Numbered
<1>6. c.says.type # "snapshot"
  BY <1>2
<1> QED BY <1>2, <1>3, <1>4, <1>5, <1>6, Zenon DEF Faithful

\* A packet of messages.
LEMMA PacketOfOne ==
  ASSUME NEW m \in Messages
  PROVE  <<m>> \in Packets /\ Head(<<m>>) = m
BY DEF Packets

LEMMA PacketOfTwo ==
  ASSUME NEW m \in Messages, NEW n \in Messages
  PROVE  <<m, n>> \in Packets /\ Head(<<m, n>>) = m
BY DEF Packets

LEMMA UpdateSends ==
  ASSUME IsTruth(truth), NEW id \in OrderIds, XUpdate(id)
  PROVE  \E ps : Sends(ps) /\ AllFaithful(truth', ps)
<1>1. PICK c \in Changes(Live, Rpt + 1, id) :
        truth' = Append(truth, c.orders) /\ Send(<<c.says>>)
  BY DEF XUpdate
<1>2. Live \in Orders /\ Rpt + 1 \in Nat /\ Rpt + 1 = Len(truth) /\ Rpt < MaxRpt /\ Rpt \in Int
  BY LiveIsOrders DEF XUpdate
<1>3. c.orders \in Orders /\ c.says \in Messages
  BY <1>2, ChangeSays
<1>4. truth' = truth \o <<c.orders>> /\ <<c.orders>> \in Seq(Orders) /\ Len(<<c.orders>>) = 1
      /\ <<c.orders>>[1] = c.orders
  BY <1>1, <1>3 DEF IsTruth
<1>5. Len(truth) + 1 <= MaxRpt + 1
  BY <1>2, FeedBounds
<1>6. /\ IsTruth(truth') /\ Extends(truth', truth) /\ Len(truth') = Len(truth) + 1
      /\ truth'[Len(truth) + 1] = c.orders
  <2>1. 1 \in 1..Len(<<c.orders>>)
    BY <1>4
  <2> QED BY <1>4, <1>5, <2>1, TruthGrows
<1>7. Numbered(truth', c.says) /\ Faithful(truth', c.says)
  BY <1>2, <1>6, ChangeIsFaithful
<1>8. <<c.says>> \in Packets /\ Head(<<c.says>>) = c.says
  BY <1>3, PacketOfOne
<1>9. /\ <<<<c.says>>>> \in Seq(Packets) /\ AllNumbered(truth', <<<<c.says>>>>)
      /\ AllFaithful(truth', <<<<c.says>>>>)
  BY <1>7, <1>8, OnePacket
<1>10. Sends(<<<<c.says>>>>)
  BY <1>1, <1>6, <1>9 DEF Sends, Send, XUpdate
<1> QED BY <1>9, <1>10

LEMMA PackedSends ==
  ASSUME IsTruth(truth), NEW id1 \in OrderIds, NEW id2 \in OrderIds, XPacked(id1, id2)
  PROVE  \E ps : Sends(ps) /\ AllFaithful(truth', ps)
<1>1. PICK c \in Changes(Live, Rpt + 1, id1) : \E d \in Changes(c.orders, Rpt + 2, id2) :
        truth' = truth \o <<c.orders, d.orders>> /\ Send(<<c.says, d.says>>)
  BY DEF XPacked
<1>1a. PICK d \in Changes(c.orders, Rpt + 2, id2) :
        truth' = truth \o <<c.orders, d.orders>> /\ Send(<<c.says, d.says>>)
  BY <1>1
<1>2. /\ Live \in Orders /\ Rpt + 1 \in Nat /\ Rpt + 2 \in Nat /\ Rpt + 1 = Len(truth)
      /\ Rpt + 1 < MaxRpt /\ Rpt \in Int
  BY LiveIsOrders DEF XPacked
<1>3. c.orders \in Orders /\ c.says \in Messages
  BY <1>2, ChangeSays
<1>3a. d.orders \in Orders /\ d.says \in Messages
  BY <1>2, <1>3, ChangeSays
<1> DEFINE os == <<c.orders, d.orders>>
           ms == <<c.says, d.says>>
<1>4. os \in Seq(Orders) /\ Len(os) = 2 /\ os[1] = c.orders
  BY <1>3, <1>3a
<1>5. Len(truth) + 2 <= MaxRpt + 1
  BY <1>2, FeedBounds
<1>6. /\ IsTruth(truth') /\ Extends(truth', truth) /\ Len(truth') = Len(truth) + 2
      /\ truth'[Len(truth) + 1] = c.orders
  <2> HIDE DEF os
  <2>1. truth' = truth \o os
    BY <1>1a DEF os
  <2>2. 1 \in 1..Len(os)
    BY <1>4
  <2> QED BY <1>4, <1>5, <2>1, <2>2, TruthGrows
<1>6a. Len(truth) < Len(truth')
  BY <1>6, <1>2
<1>7. Numbered(truth', c.says) /\ Faithful(truth', c.says)
  BY <1>6, <1>6a, ChangeIsFaithful
<1>8. ms \in Packets /\ Head(ms) = c.says
  BY <1>3, <1>3a, PacketOfTwo
<1>8a. Send(ms)
  BY <1>1a
<1> HIDE DEF ms
<1>9. /\ <<ms>> \in Seq(Packets) /\ AllNumbered(truth', <<ms>>)
      /\ AllFaithful(truth', <<ms>>)
  BY <1>7, <1>8, OnePacket
<1>10. Sends(<<ms>>)
  BY <1>6, <1>8a, <1>9 DEF Sends, Send, XPacked
<1> QED BY <1>9, <1>10

LEMMA TechnicalTradeSends ==
  ASSUME IsTruth(truth), XTechnicalTrade
  PROVE  \E ps : Sends(ps) /\ AllFaithful(truth', ps)
<1> DEFINE m == [type |-> "technical", own |-> TRUE]
<1>1. m \in Technical /\ m.type = "technical" /\ m.type # "update" /\ m.type # "snapshot"
      /\ m.type \notin {"update", "snapshot"}
  BY DEF Technical
<1>2. truth' = Append(truth, Live) /\ Send(<<m>>) /\ Rpt < MaxRpt
      /\ UNCHANGED <<book, synced, awaiting>>
  BY DEF XTechnicalTrade
<1> HIDE DEF m
<1>3. m \in Messages /\ (\A t : Numbered(t, m) /\ Faithful(t, m))
  BY <1>1, Zenon DEF Messages, Numbered, Faithful
<1>4. Live \in Orders /\ Rpt + 1 = Len(truth) /\ Rpt \in Int
  BY LiveIsOrders
<1>5. truth' = truth \o <<Live>> /\ <<Live>> \in Seq(Orders) /\ Len(<<Live>>) = 1
      /\ Len(truth) + 1 <= MaxRpt + 1
  <2>1. Len(truth) + 1 <= MaxRpt + 1
    BY <1>2, <1>4, FeedBounds
  <2>2. truth' = truth \o <<Live>> /\ <<Live>> \in Seq(Orders) /\ Len(<<Live>>) = 1
    BY <1>2, <1>4 DEF IsTruth
  <2> QED BY <2>1, <2>2
<1>6. IsTruth(truth') /\ Extends(truth', truth)
  BY <1>5, TruthGrows
<1>7. <<m>> \in Packets /\ Head(<<m>>) = m
  BY <1>3, PacketOfOne
<1>8. /\ <<<<m>>>> \in Seq(Packets) /\ AllNumbered(truth', <<<<m>>>>)
      /\ AllFaithful(truth', <<<<m>>>>)
  BY <1>3, <1>7, OnePacket
<1>9. Sends(<<<<m>>>>)
  BY <1>2, <1>6, <1>8 DEF Sends, Send
<1> QED BY <1>8, <1>9

\* A message that is not about this instrument, or about no instrument.
LEMMA OtherSends ==
  ASSUME IsTruth(truth), NEW m \in Messages, \A t : Numbered(t, m) /\ Faithful(t, m),
         Send(<<m>>), UNCHANGED <<truth, book, synced, awaiting>>
  PROVE  \E ps : Sends(ps) /\ AllFaithful(truth', ps)
<1>1. IsTruth(truth') /\ Extends(truth', truth)
  <2>1. truth' = truth
    OBVIOUS
  <2> QED BY <2>1, TruthStays, Zenon
<1>2. <<m>> \in Packets /\ Head(<<m>>) = m
  BY PacketOfOne
<1>3. /\ <<<<m>>>> \in Seq(Packets) /\ AllNumbered(truth', <<<<m>>>>)
      /\ AllFaithful(truth', <<<<m>>>>)
  BY <1>2, OnePacket
<1>4. Sends(<<<<m>>>>)
  BY <1>1, <1>3 DEF Sends, Send
<1> QED BY <1>3, <1>4

LEMMA ForeignSends ==
  ASSUME IsTruth(truth), XForeign
  PROVE  \E ps : Sends(ps) /\ AllFaithful(truth', ps)
<1>0. Rpt \in Nat /\ Rpt + 1 \in Nat
  BY LiveIsOrders
<1>1. ASSUME NEW id \in OrderIds,
             Send(<<[type |-> "update", own |-> FALSE, action |-> "delete", id |-> id,
                     seq |-> Rpt + 1]>>)
      PROVE  \E ps : Sends(ps) /\ AllFaithful(truth', ps)
  <2> DEFINE m == [type |-> "update", own |-> FALSE, action |-> "delete", id |-> id,
                   seq |-> Rpt + 1]
  <2>1. m \in Deleted /\ ~m.own
    BY <1>0 DEF Deleted
  <2>2. Send(<<m>>)
    BY <1>1
  <2> HIDE DEF m
  <2>3. m \in Messages /\ \A t : Numbered(t, m) /\ Faithful(t, m)
    BY <2>1, Zenon DEF Messages, Numbered, Faithful
  <2> QED BY <2>2, <2>3, OtherSends DEF XForeign
<1>2. ASSUME Send(<<[type |-> "snapshot", own |-> FALSE, seq |-> Rpt, last |-> TRUE,
                     entries |-> <<>>]>>)
      PROVE  \E ps : Sends(ps) /\ AllFaithful(truth', ps)
  <2> DEFINE m == [type |-> "snapshot", own |-> FALSE, seq |-> Rpt, last |-> TRUE,
                   entries |-> <<>>]
  <2>1. m \in Fragment /\ ~m.own
    BY <1>0 DEF Fragment
  <2>2. Send(<<m>>)
    BY <1>2
  <2> HIDE DEF m
  <2>3. m \in Messages /\ \A t : Numbered(t, m) /\ Faithful(t, m)
    BY <2>1, Zenon DEF Messages, Numbered, Faithful
  <2> QED BY <2>2, <2>3, OtherSends DEF XForeign
<1> QED BY <1>1, <1>2 DEF XForeign

LEMMA EmptyBookSends ==
  ASSUME IsTruth(truth), XEmptyBook
  PROVE  \E ps : Sends(ps) /\ AllFaithful(truth', ps)
<1> DEFINE m == [type |-> "empty"]
<1>1. m \in Emptied /\ m.type # "update" /\ m.type # "snapshot"
      /\ m.type \notin {"update", "snapshot"}
  BY DEF Emptied
<1>2. Send(<<m>>)
  BY DEF XEmptyBook
<1> HIDE DEF m
<1>3. m \in Messages /\ \A t : Numbered(t, m) /\ Faithful(t, m)
  BY <1>1, Zenon DEF Messages, Numbered, Faithful
<1> QED BY <1>2, <1>3, OtherSends DEF XEmptyBook

-----------------------------------------------------------------------------
(* Snapshots                                                                *)

\* SetToSeq lists each element of a finite set once.
LEMMA SetToSeqLists ==
  ASSUME NEW S, IsFiniteSet(S)
  PROVE  /\ Cardinality(S) \in Nat
         /\ SetToSeq(S) \in [1..Cardinality(S) -> S]
         /\ IsInjective(SetToSeq(S))
         /\ \A s \in S : \E k \in 1..Cardinality(S) : SetToSeq(S)[k] = s
<1>1. Cardinality(S) \in Nat
  BY FS_CardinalityType
<1>2. PICK f : f \in Bijection(1..Cardinality(S), S)
  BY FS_CardinalityType DEF ExistsBijection
<1>3. f \in [1..Cardinality(S) -> S] /\ IsInjective(f)
  BY <1>2 DEF Bijection, Injection, IsInjective
<1> DEFINE g == SetToSeq(S)
<1>4. g \in [1..Cardinality(S) -> S] /\ IsInjective(g)
  BY <1>3, Zenon DEF SetToSeq
<1>5. g \in Injection(1..Cardinality(S), S)
  BY <1>4 DEF Injection, IsInjective
<1>6. g \in Surjection(1..Cardinality(S), S)
  <2>1. Cardinality(1..Cardinality(S)) = Cardinality(S)
    BY <1>1, FS_Interval
  <2> QED BY <2>1, <1>5, FS_Injection
<1> QED BY <1>1, <1>4, <1>6 DEF Surjection

\* f is the loop of loadOrderBookSnapshot run over the first n entries.
IsSift(f, entries, n) ==
  f = [i \in 0..n |->
         IF i = 0 THEN <<>>
         ELSE IF Skipped(entries[i]) THEN f[i - 1] ELSE Append(f[i - 1], entries[i])]

\* The loop is defined for every number of rounds.
LEMMA SiftExists ==
  ASSUME NEW entries, NEW n \in Nat
  PROVE  \E f : IsSift(f, entries, n)
<1> DEFINE S == {k \in Nat : \E f : IsSift(f, entries, k)}
           After(g, i) == IF i = 0 THEN <<>>
                          ELSE IF Skipped(entries[i]) THEN g[i - 1]
                               ELSE Append(g[i - 1], entries[i])
<1>1. 0 \in S
  <2>1. IsSift([i \in 0..0 |-> <<>>], entries, 0)
    BY DEF IsSift
  <2> QED BY <2>1
<1>2. ASSUME NEW k \in Nat, k \in S PROVE k + 1 \in S
  <2>1. PICK f : IsSift(f, entries, k)
    BY <1>2
  <2> DEFINE g == [i \in 0..(k + 1) |-> IF i <= k THEN f[i] ELSE After(f, k + 1)]
  <2>2. \A i \in 0..k : f[i] = After(f, i)
    BY <2>1 DEF IsSift
  <2>3. ASSUME NEW i \in 0..(k + 1)
        PROVE  g[i] = After(g, i)
    <3>1. CASE i = 0
      BY <3>1, <2>2
    <3>2. CASE i \in 1..k
      <4>1. g[i] = f[i] /\ g[i - 1] = f[i - 1]
        BY <3>2
      <4>2. f[i] = After(f, i)
        BY <3>2, <2>2
      <4> QED BY <4>1, <4>2, <3>2
    <3>3. CASE i = k + 1
      <4>1. g[i] = After(f, k + 1) /\ g[i - 1] = f[k] /\ k + 1 - 1 = k
        BY <3>3
      <4> QED BY <4>1, <3>3
    <3> QED BY <3>1, <3>2, <3>3
  <2>4. IsSift(g, entries, k + 1)
    <3> DEFINE h == [i \in 0..(k + 1) |-> After(g, i)]
    <3>1. \A i \in 0..(k + 1) : g[i] = h[i]
      BY <2>3
    <3>2. g = h
      BY <3>1
    <3> QED BY <3>2 DEF IsSift
  <2> QED BY <2>4
<1> HIDE DEF S
<1>3. S \subseteq Nat
  BY DEF S
<1>4. S = Nat
  BY <1>1, <1>2, <1>3, SetInduction
<1>5. n \in S
  BY <1>4
<1> QED BY <1>5 DEF S

\* The recursive definition of Kept means what it says.
LEMMA KeptIsSift ==
  ASSUME NEW entries \in Seq(SnapshotEntry)
  PROVE  \E f : IsSift(f, entries, Len(entries)) /\ Kept(entries) = f[Len(entries)]
<1> DEFINE g == CHOOSE f : IsSift(f, entries, Len(entries))
<1>0. Len(entries) \in Nat
  OBVIOUS
<1>1. \E f : IsSift(f, entries, Len(entries))
  BY <1>0, SiftExists
<1>2. Kept(entries) = g[Len(entries)]
  BY DEF Kept, IsSift
<1>3. IsSift(g, entries, Len(entries))
  BY <1>1
<1> HIDE DEF g
<1> QED BY <1>2, <1>3

LEMMA OrderIsKept ==
  /\ \A e \in Entry : ~Skipped(e)
  /\ Skipped(NoOrder)
BY NullIsNoId DEF Entry, Sides, Skipped, NoOrder

\* Whatever a snapshot holds, orders are what is loaded.
LEMMA KeptAreOrders ==
  ASSUME NEW entries \in Seq(SnapshotEntry)
  PROVE  Kept(entries) \in Seq(Entry)
<1> DEFINE n == Len(entries)
<1>0. n \in Nat
  OBVIOUS
<1>1. PICK f : IsSift(f, entries, n) /\ Kept(entries) = f[n]
  BY KeptIsSift
<1>2. \A i \in 0..n : f[i] = IF i = 0 THEN <<>>
                              ELSE IF Skipped(entries[i]) THEN f[i - 1]
                                   ELSE Append(f[i - 1], entries[i])
  BY <1>1 DEF IsSift
<1> DEFINE S == {i \in Nat : i <= n => f[i] \in Seq(Entry)}
<1>3. 0 \in S
  <2>1. f[0] = <<>> /\ <<>> \in Seq(Entry)
    BY <1>0, <1>2
  <2> QED BY <2>1
<1>4. ASSUME NEW i \in Nat, i \in S PROVE i + 1 \in S
  <2> SUFFICES ASSUME i + 1 <= n PROVE f[i + 1] \in Seq(Entry)
    OBVIOUS
  <2>1. f[i] \in Seq(Entry)
    BY <1>0, <1>4
  <2>2. f[i + 1] = IF Skipped(entries[i + 1]) THEN f[i] ELSE Append(f[i], entries[i + 1])
    BY <1>0, <1>2
  <2>3. entries[i + 1] \in SnapshotEntry
    BY <1>0
  <2>4. ~Skipped(entries[i + 1]) => entries[i + 1] \in Entry
    BY <2>3, OrderIsKept DEF SnapshotEntry
  <2> QED BY <2>1, <2>2, <2>4
<1> HIDE DEF S
<1>5. S \subseteq Nat
  BY DEF S
<1>6. S = Nat
  BY <1>3, <1>4, <1>5, SetInduction
<1>7. n \in S /\ n <= n
  BY <1>0, <1>6
<1> QED BY <1>1, <1>7 DEF S

\* Of a list of orders nothing is skipped.
LEMMA OrdersAreKept ==
  ASSUME NEW entries \in Seq(Entry)
  PROVE  Kept(entries) = entries
<1> DEFINE n == Len(entries)
<1>0. n \in Nat /\ entries \in Seq(SnapshotEntry)
  BY DEF SnapshotEntry
<1>1. PICK f : IsSift(f, entries, n) /\ Kept(entries) = f[n]
  BY <1>0, KeptIsSift
<1>2. \A i \in 0..n : f[i] = IF i = 0 THEN <<>>
                              ELSE IF Skipped(entries[i]) THEN f[i - 1]
                                   ELSE Append(f[i - 1], entries[i])
  BY <1>1 DEF IsSift
<1> DEFINE S == {i \in Nat : i <= n => f[i] = SubSeq(entries, 1, i)}
<1>3. 0 \in S
  <2>1. SubSeq(entries, 1, 0) = <<>>
    OBVIOUS
  <2>2. f[0] = <<>>
    BY <1>0, <1>2
  <2> QED BY <2>1, <2>2
<1>4. ASSUME NEW i \in Nat, i \in S PROVE i + 1 \in S
  <2> SUFFICES ASSUME i + 1 <= n PROVE f[i + 1] = SubSeq(entries, 1, i + 1)
    OBVIOUS
  <2>1. f[i] = SubSeq(entries, 1, i)
    BY <1>0, <1>4
  <2>2. f[i + 1] = IF Skipped(entries[i + 1]) THEN f[i] ELSE Append(f[i], entries[i + 1])
    BY <1>0, <1>2
  <2>3. entries[i + 1] \in Entry
    BY <1>0
  <2>4. f[i + 1] = Append(f[i], entries[i + 1])
    BY <2>2, <2>3, OrderIsKept
  <2>5. Append(SubSeq(entries, 1, i), entries[i + 1]) = SubSeq(entries, 1, i + 1)
    BY <1>0
  <2> QED BY <2>1, <2>4, <2>5
<1> HIDE DEF S
<1>5. S \subseteq Nat
  BY DEF S
<1>6. S = Nat
  BY <1>3, <1>4, <1>5, SetInduction
<1>7. n \in S /\ n <= n
  BY <1>0, <1>6
<1>8. f[n] = SubSeq(entries, 1, n)
  BY <1>7 DEF S
<1> QED BY <1>1, <1>8

\* Of a snapshot that says there is no order nothing is kept.
LEMMA NoOrderIsSkipped ==
  Kept(<<NoOrder>>) = <<>>
<1> DEFINE es == <<NoOrder>>
<1>1. es \in Seq(SnapshotEntry) /\ Len(es) = 1 /\ es[1] = NoOrder
  BY DEF SnapshotEntry
<1> HIDE DEF es
<1>2. PICK f : IsSift(f, es, 1) /\ Kept(es) = f[1]
  BY <1>1, KeptIsSift
<1>3. \A i \in 0..1 : f[i] = IF i = 0 THEN <<>>
                              ELSE IF Skipped(es[i]) THEN f[i - 1]
                                   ELSE Append(f[i - 1], es[i])
  BY <1>2 DEF IsSift
<1>4. f[0] = <<>> /\ f[1] = f[0]
  BY <1>1, <1>3, OrderIsKept
<1> QED BY <1>2, <1>4 DEF es

LEMMA ListingLists ==
  ASSUME NEW orders \in Orders
  PROVE  /\ Listing(orders) \in Seq(Entry)
         /\ Len(Listing(orders)) = Cardinality(DOMAIN orders)
         /\ Unique(Listing(orders))
         /\ ListsUpTo(orders, Listing(orders), Len(Listing(orders)))
<1> DEFINE ids == SetToSeq(DOMAIN orders)
           n   == Cardinality(DOMAIN orders)
           es  == Listing(orders)
<1>1. PICK S \in SUBSET OrderIds : IsFiniteSet(S) /\ orders \in [S -> Quotes]
  BY DEF Orders
<1>2. IsFiniteSet(DOMAIN orders) /\ DOMAIN orders \subseteq OrderIds
  BY <1>1
<1>3. /\ n \in Nat /\ ids \in [1..n -> DOMAIN orders] /\ IsInjective(ids)
      /\ \A s \in DOMAIN orders : \E k \in 1..n : ids[k] = s
  BY <1>2, SetToSeqLists
<1> HIDE DEF ids, n
<1>4. es = [k \in 1..n |-> [id |-> ids[k], side |-> orders[ids[k]].side,
                            price |-> orders[ids[k]].price, size |-> orders[ids[k]].size]]
  BY <1>3 DEF Listing, ids
<1> HIDE DEF es
<1>5. ASSUME NEW k \in 1..n
      PROVE  es[k] \in Entry /\ es[k].id = ids[k] /\ OrderOf(es[k]) = orders[es[k].id]
  <2>1. ids[k] \in DOMAIN orders /\ ids[k] \in OrderIds
    BY <1>2, <1>3
  <2>2. orders[ids[k]] \in OrderState
    BY <1>1, <2>1, QuotesAreOrders
  <2> DEFINE q == orders[ids[k]]
  <2>3. q.side \in Sides /\ q.price \in Prices /\ q.size \in Sizes
        /\ q = [side |-> q.side, price |-> q.price, size |-> q.size]
    BY <2>2 DEF OrderState
  <2>4. es[k] = [id |-> ids[k], side |-> q.side, price |-> q.price, size |-> q.size]
    BY <1>4
  <2> HIDE DEF q
  <2>5. es[k] \in Entry /\ es[k].id = ids[k] /\ OrderOf(es[k]) = q
    BY <2>1, <2>3, <2>4 DEF Entry, OrderOf
  <2> QED BY <2>5 DEF q
<1>6. es \in Seq(Entry) /\ Len(es) = n /\ DOMAIN es = 1..n
  BY <1>3, <1>4, <1>5
<1>7. Unique(es)
  <2>1. ASSUME NEW i \in 1..n, NEW j \in 1..n, es[i].id = es[j].id PROVE i = j
    <3>1. ids[i] = ids[j]
      BY <1>5, <2>1
    <3> QED BY <3>1, <1>3 DEF IsInjective
  <2> QED BY <2>1, <1>6 DEF Unique
<1>8. DOMAIN orders = {es[i].id : i \in 1..n}
  <2>1. ASSUME NEW s \in DOMAIN orders PROVE \E i \in 1..n : es[i].id = s
    BY <1>3, <1>5
  <2>2. ASSUME NEW i \in 1..n PROVE es[i].id \in DOMAIN orders
    BY <1>3, <1>5
  <2> QED BY <2>1, <2>2, Zenon
<1> QED BY <1>5, <1>6, <1>7, <1>8 DEF ListsUpTo, es, n

\* What is loaded of any snapshot of the orders lists them.
LEMMA ListingsList ==
  ASSUME NEW orders \in Orders, NEW entries \in Listings(orders)
  PROVE  /\ entries \in Seq(SnapshotEntry)
         /\ Len(entries) <= PerPacket \/ Len(entries) = Cardinality(DOMAIN orders)
         /\ Unique(Kept(entries))
         /\ ListsUpTo(orders, Kept(entries), Len(Kept(entries)))
<1>1. CASE entries = Listing(orders)
  <2>1. /\ entries \in Seq(Entry) /\ Len(entries) = Cardinality(DOMAIN orders)
        /\ Unique(entries) /\ ListsUpTo(orders, entries, Len(entries))
    BY <1>1, ListingLists
  <2>2. Kept(entries) = entries
    BY <2>1, OrdersAreKept
  <2>3. entries \in Seq(SnapshotEntry)
    BY <2>1 DEF SnapshotEntry
  <2> QED BY <2>1, <2>2, <2>3, Zenon
<1>2. CASE DOMAIN orders = {} /\ entries = <<NoOrder>>
  <2>1. entries \in Seq(SnapshotEntry) /\ Len(entries) = 1 /\ 1 <= PerPacket
    BY <1>2, PacketHoldsOne DEF SnapshotEntry
  <2>2. Kept(entries) = <<>> /\ Len(<<>>) = 0 /\ 1..0 = {}
    BY <1>2, NoOrderIsSkipped
  <2>3. Unique(<<>>)
    BY DEF Unique
  <2>4. ListsUpTo(orders, <<>>, 0)
    BY <1>2 DEF ListsUpTo
  <2> QED BY <2>1, <2>2, <2>3, <2>4
<1> QED BY <1>1, <1>2 DEF Listings

\* How many packets a list of entries takes, and where each of them ends.
LEMMA CutsLieInside ==
  ASSUME NEW n \in Nat, NEW k \in Nat \ {0},
         k < (n + PerPacket - 1) \div PerPacket
  PROVE  k * PerPacket \in Nat /\ k * PerPacket <= n
<1> DEFINE q == (n + PerPacket - 1) \div PerPacket
<1>1. PerPacket \in Nat \ {0}
  BY PacketHoldsOne
<1>2. q \in Nat /\ q * PerPacket <= n + PerPacket - 1
  BY <1>1
<1> HIDE DEF q
<1>3. k + 1 <= q
  BY <1>2 DEF q
<1>4. q - k - 1 \in Nat /\ (q - k - 1) * PerPacket \in Nat
  BY <1>1, <1>2, <1>3
<1>5. q * PerPacket = (q - k - 1) * PerPacket + k * PerPacket + PerPacket
  BY <1>1, <1>2
<1> QED BY <1>1, <1>2, <1>4, <1>5

LEMMA CutIsList ==
  ASSUME NEW es \in Seq(SnapshotEntry), NEW i \in Nat \ {0}, NEW j \in Int, j <= Len(es)
  PROVE  SubSeq(es, i, j) \in Seq(SnapshotEntry)
OBVIOUS

\* Every packet of a snapshot holds one fragment of it at the exchange's number.
LEMMA FragmentsArePackets ==
  ASSUME IsTruth(truth), NEW es \in Seq(SnapshotEntry)
  PROVE  /\ Fragments(es) \in Seq(Packets)
         /\ \A i \in 1..Len(Fragments(es)) :
               Head(Fragments(es)[i]).own /\ Head(Fragments(es)[i]).seq = Rpt
<1> DEFINE count == IF es = <<>> THEN 1 ELSE (Len(es) + PerPacket - 1) \div PerPacket
           upTo(k) == IF k = count THEN Len(es) ELSE k * PerPacket
           cut(k) == SubSeq(es, (k - 1) * PerPacket + 1, upTo(k))
           m(k) == [type |-> "snapshot", own |-> TRUE, seq |-> Rpt, last |-> k = count,
                    entries |-> cut(k)]
<1>1. Fragments(es) = [k \in 1..count |-> <<m(k)>>]
  BY DEF Fragments
<1>2. count \in Nat /\ Len(es) \in Nat /\ PerPacket \in Nat \ {0}
  BY PacketHoldsOne
<1>3. Rpt \in Nat
  BY LiveIsOrders
<1>4. ASSUME NEW k \in 1..count
      PROVE  cut(k) \in Seq(SnapshotEntry)
  <2>1. (k - 1) * PerPacket + 1 \in Nat \ {0}
    <3>1. k - 1 \in Nat
      BY <1>2
    <3>2. (k - 1) * PerPacket \in Nat
      BY <1>2, <3>1
    <3> QED BY <3>2
  <2>2. upTo(k) \in Int /\ upTo(k) <= Len(es)
    <3>1. CASE k = count
      BY <3>1, <1>2
    <3>2. CASE k # count
      <4>1. k < (Len(es) + PerPacket - 1) \div PerPacket /\ k \in Nat \ {0}
        BY <1>2, <3>2
      <4>2. upTo(k) = k * PerPacket
        BY <3>2
      <4> HIDE DEF upTo
      <4> QED BY <1>2, <4>1, <4>2, CutsLieInside
    <3> QED BY <3>1, <3>2
  <2> HIDE DEF upTo
  <2> QED BY <2>1, <2>2, CutIsList
<1>5. ASSUME NEW k \in 1..count
      PROVE  /\ m(k) \in Fragment /\ m(k).own /\ m(k).seq = Rpt
  <2>1. cut(k) \in Seq(SnapshotEntry) /\ (k = count) \in BOOLEAN
    BY <1>4
  <2> HIDE DEF cut, count
  <2>2. m(k) \in Fragment
    BY <1>3, <2>1 DEF Fragment
  <2> QED BY <2>2
<1> HIDE DEF m, count
<1>6. ASSUME NEW k \in 1..count
      PROVE  <<m(k)>> \in Packets /\ Head(<<m(k)>>) = m(k)
  <2>1. m(k) \in Messages
    BY <1>5, Zenon DEF Messages
  <2> QED BY <2>1, PacketOfOne
<1>7. Fragments(es) \in Seq(Packets) /\ Len(Fragments(es)) = count
  BY <1>1, <1>2, <1>6
<1> QED BY <1>1, <1>5, <1>6, <1>7

\* A snapshot that fits into one packet.
LEMMA WholeInOnePacket ==
  ASSUME NEW es \in Seq(SnapshotEntry), Len(es) <= PerPacket
  PROVE  /\ Len(Fragments(es)) = 1
         /\ Head(Fragments(es)[1]).type = "snapshot" /\ Head(Fragments(es)[1]).seq = Rpt
         /\ Head(Fragments(es)[1]).entries = es
<1> DEFINE count == IF es = <<>> THEN 1 ELSE (Len(es) + PerPacket - 1) \div PerPacket
           upTo(k) == IF k = count THEN Len(es) ELSE k * PerPacket
           cut(k) == SubSeq(es, (k - 1) * PerPacket + 1, upTo(k))
           m(k) == [type |-> "snapshot", own |-> TRUE, seq |-> Rpt, last |-> k = count,
                    entries |-> cut(k)]
<1>1. count = 1
  <2>1. CASE es = <<>>
    BY <2>1
  <2>2. CASE es # <<>>
    <3>1. Len(es) \in Nat \ {0} /\ PerPacket \in Nat \ {0}
      BY <2>2, PacketHoldsOne
    <3>2. (Len(es) + PerPacket - 1) \div PerPacket = 1
      BY <3>1
    <3> QED BY <2>2, <3>2
  <2> QED BY <2>1, <2>2
<1>2. Fragments(es) = [k \in 1..count |-> <<m(k)>>]
  BY DEF Fragments
<1>3. cut(1) = es
  <2>1. upTo(1) = Len(es)
    BY <1>1
  <2>2. (1 - 1) * PerPacket + 1 = 1
    BY PacketHoldsOne
  <2>3. SubSeq(es, 1, Len(es)) = es
    OBVIOUS
  <2> HIDE DEF upTo
  <2> QED BY <2>1, <2>2, <2>3, Zenon
<1> HIDE DEF cut, count
<1>4. m(1).type = "snapshot" /\ m(1).seq = Rpt /\ m(1).entries = es
  BY <1>3
<1> HIDE DEF m
<1>5. Len(Fragments(es)) = 1 /\ Fragments(es)[1] = <<m(1)>>
  BY <1>1, <1>2
<1>6. Head(Fragments(es)[1]) = m(1)
  BY <1>5
<1> QED BY <1>4, <1>5, <1>6, Zenon

LEMMA SnapshotSends ==
  ASSUME IsTruth(truth), XSnapshot
  PROVE  \E ps : Sends(ps) /\ (Fits => AllFaithful(truth', ps))
<1>0. PICK es \in Listings(Live) :
        SendAll(Fragments(es)) /\ UNCHANGED <<truth, book, synced, awaiting>>
  BY DEF XSnapshot
<1> DEFINE ps == Fragments(es)
<1>1. Live \in Orders /\ Rpt \in 0..MaxRpt /\ Rpt + 1 = Len(truth) /\ Rpt \in 0..Len(truth) - 1
      /\ Len(truth) \in Nat \ {0}
  BY LiveIsOrders, FeedBounds DEF IsTruth
<1>2. /\ es \in Seq(SnapshotEntry)
      /\ Len(es) <= PerPacket \/ Len(es) = Cardinality(DOMAIN Live)
      /\ Unique(Kept(es)) /\ ListsUpTo(Live, Kept(es), Len(Kept(es)))
  BY <1>1, ListingsList
<1>3. /\ ps \in Seq(Packets)
      /\ \A i \in 1..Len(ps) : Head(ps[i]).own /\ Head(ps[i]).seq = Rpt
  BY <1>2, FragmentsArePackets
<1>4. ASSUME Fits
      PROVE  AllFaithful(truth, ps)
  <2> DEFINE m == Head(ps[1])
  <2>1. Len(ps) = 1 /\ m.type = "snapshot" /\ m.seq = Rpt /\ m.entries = es
    BY <1>2, <1>4, WholeInOnePacket DEF Fits
  <2>2. m.type # "update"
    BY <2>1
  <2>3. truth[Rpt + 1] = Live
    BY <1>1 DEF Live
  <2> HIDE DEF ps
  <2>4. Faithful(truth, m)
    <3> HIDE DEF m
    <3> QED BY <1>1, <1>2, <2>1, <2>2, <2>3, Zenon DEF Faithful
  <2>5. \A i \in 1..Len(ps) : i = 1
    BY <2>1
  <2> QED BY <2>4, <2>5, Zenon DEF AllFaithful
<1>5. SendAll(ps)
  BY <1>0
<1> HIDE DEF ps
<1>6. AllNumbered(truth, ps)
  BY <1>1, <1>3, Zenon DEF AllNumbered, Numbered
<1>7. truth' = truth
  BY <1>0
<1>8. IsTruth(truth') /\ Extends(truth', truth) /\ AllNumbered(truth', ps)
      /\ (Fits => AllFaithful(truth', ps))
  BY <1>4, <1>6, <1>7, TruthStays, Zenon
<1>9. Sends(ps)
  BY <1>0, <1>3, <1>5, <1>8 DEF Sends
<1> QED BY <1>8, <1>9

\* Every step of the exchange sends packets, faithful ones while a snapshot fits
\* into one.
LEMMA ExchangeSends ==
  ASSUME IsTruth(truth), Exchange
  PROVE  \E ps : Sends(ps) /\ (Fits => AllFaithful(truth', ps))
<1>1. CASE XTechnicalTrade
  BY <1>1, TechnicalTradeSends
<1>2. CASE XSnapshot
  BY <1>2, SnapshotSends
<1>3. CASE XEmptyBook
  BY <1>3, EmptyBookSends
<1>4. CASE XForeign
  BY <1>4, ForeignSends
<1>5. CASE \E id \in OrderIds : XUpdate(id)
  BY <1>5, UpdateSends
<1>6. CASE \E id, id2 \in OrderIds : XPacked(id, id2)
  BY <1>6, PackedSends
<1> QED BY <1>1, <1>2, <1>3, <1>4, <1>5, <1>6 DEF Exchange

-----------------------------------------------------------------------------
(* The packet handler                                                       *)

\* The types of the feed's variables, as far as the steps rely on them, and the
\* engine's own invariant.
FeedTypes ==
  /\ IsTruth(truth)
  /\ wire \in Seq(Packets) /\ Len(wire) <= MaxWire /\ AllNumbered(truth, wire)
  /\ GoodBook(book)
  /\ synced \in BOOLEAN /\ awaiting \in BOOLEAN

\* What a synced book b shows of the truth t.
Shows(t, b) ==
  /\ b.haveLastSeq /\ b.lastSeq + 1 \in 1..Len(t)
  /\ b.orders = t[b.lastSeq + 1]

\* Whatever is under way is faithful, and so is a synced book.
FeedTruth == AllFaithful(truth, wire) /\ (synced => Shows(truth, book))

LEMMA MessageKinds ==
  ASSUME NEW p \in Messages
  PROVE  /\ p.type \in {"update", "technical", "snapshot", "empty"}
         /\ p.type = "update" => /\ p.id \in OrderIds
                                 /\ p.action = "upsert" => OrderOf(p) \in OrderState
         /\ p.type = "snapshot" => p.entries \in Seq(SnapshotEntry) /\ p.last \in BOOLEAN
<1>1. CASE p \in Upserted
  <2>1. OrderOf(p) \in OrderState
    BY <1>1 DEF Upserted, OrderOf, OrderState
  <2> QED BY <1>1, <2>1 DEF Upserted
<1>2. CASE p \in Deleted
  BY <1>2 DEF Deleted
<1>3. CASE p \in Technical
  BY <1>3 DEF Technical
<1>4. CASE p \in Fragment
  BY <1>4 DEF Fragment
<1>5. CASE p \in Emptied
  BY <1>5 DEF Emptied
<1> QED BY <1>1, <1>2, <1>3, <1>4, <1>5, Zenon DEF Messages

\* The engine takes the number of a message about this instrument.
LEMMA NumberIsSeq ==
  ASSUME NEW t, IsTruth(t), NEW p \in Messages, Numbered(t, p),
         p.type \in {"update", "snapshot"}, p.own
  PROVE  p.seq \in Seqs /\ p.seq \in 0..Len(t) - 1
<1>1. p.seq \in 0..Len(t) - 1
  BY DEF Numbered
<1>2. Len(t) - 1 \in 0..MaxRpt
  BY FeedBounds DEF IsTruth
<1>3. p.seq \in 0..MaxRpt
  BY <1>1, <1>2, FeedBounds
<1> QED BY <1>1, <1>3, NumbersFit

\* The packet handler in each of its cases.
LEMMA HandleCases ==
  ASSUME NEW b, NEW p \in Messages
  PROVE  /\ ~Concerns(p) => Handle(b, p) = b
         /\ Concerns(p) /\ p.type = "update" => p.own /\ Handle(b, p) = ApplyOrClear(b, p)
         /\ Concerns(p) /\ p.type = "technical" => Handle(b, p) = b
         /\ Concerns(p) /\ p.type = "snapshot"
              => p.own /\ Handle(b, p) = LoadSnapshot(b, Kept(p.entries), p.seq)
         /\ Concerns(p) /\ p.type = "empty" => Handle(b, p) = Clear(b)
<1>1. /\ ~Concerns(p) => Handle(b, p) = b
      /\ Concerns(p) /\ p.type = "update" => Handle(b, p) = ApplyOrClear(b, p)
      /\ Concerns(p) /\ p.type = "technical" => Handle(b, p) = b
      /\ Concerns(p) /\ p.type = "snapshot" => Handle(b, p) = LoadSnapshot(b, Kept(p.entries), p.seq)
      /\ Concerns(p) /\ p.type = "empty" => Handle(b, p) = Clear(b)
  <2>1. CASE ~Concerns(p)
    BY <2>1 DEF Handle
  <2>2. CASE Concerns(p) /\ p.type = "update"
    BY <2>2 DEF Handle
  <2>3. CASE Concerns(p) /\ p.type = "technical"
    BY <2>3 DEF Handle
  <2>4. CASE Concerns(p) /\ p.type = "snapshot"
    BY <2>4 DEF Handle
  <2>5. CASE Concerns(p) /\ p.type = "empty"
    BY <2>5 DEF Handle
  <2> QED BY <2>1, <2>2, <2>3, <2>4, <2>5, MessageKinds
<1>2. Concerns(p) /\ p.type # "empty" => p.own
  BY Zenon DEF Concerns
<1>3. (p.type = "update" => p.type # "empty") /\ (p.type = "snapshot" => p.type # "empty")
  OBVIOUS
<1> QED BY <1>1, <1>2, <1>3, Zenon

\* The packet handler keeps the cached best prices right, and every type.
LEMMA HandleGood ==
  ASSUME NEW t, IsTruth(t), NEW b, GoodBook(b), NEW p \in Messages, Numbered(t, p)
  PROVE  GoodBook(Handle(b, p))
<1>1. CASE ~Concerns(p) \/ p.type = "technical"
  BY <1>1, HandleCases, Zenon
<1>2. CASE Concerns(p) /\ p.type = "update"
  <2>1. Handle(b, p) = ApplyOrClear(b, p) /\ p.own
    BY <1>2, HandleCases, Zenon
  <2>2. IsDelta(p)
    BY <1>2, <2>1, NumberIsSeq, MessageKinds DEF IsDelta
  <2>3. GoodBook(ApplyDelta(b, p).book)
    BY <2>2, ApplyDeltaGood
  <2> QED BY <2>1, <2>3, ClearGood DEF ApplyOrClear
<1>3. CASE Concerns(p) /\ p.type = "snapshot"
  <2>1. Handle(b, p) = LoadSnapshot(b, Kept(p.entries), p.seq) /\ p.own
    BY <1>3, HandleCases, Zenon
  <2>2. Kept(p.entries) \in Seq(Entry) /\ p.seq \in Seqs
    BY <1>3, <2>1, NumberIsSeq, MessageKinds, KeptAreOrders
  <2> QED BY <2>1, <2>2, LoadSnapshotGood
<1>4. CASE Concerns(p) /\ p.type = "empty"
  BY <1>4, HandleCases, ClearGood
<1> QED BY <1>1, <1>2, <1>3, <1>4, MessageKinds

LEMMA ReceiveTypes ==
  ASSUME FeedTypes, NEW p \in Messages, Numbered(truth, p), ReceiveMessage(p)
  PROVE  GoodBook(book') /\ synced' \in BOOLEAN /\ awaiting' \in BOOLEAN /\ truth' = truth
<1>1. book' = Handle(book, p) /\ truth' = truth
  BY DEF ReceiveMessage
<1>2. GoodBook(Handle(book, p))
  BY HandleGood DEF FeedTypes
<1>3. synced' \in BOOLEAN /\ awaiting' \in BOOLEAN
  <2>1. CASE Concerns(p) /\ p.type = "snapshot"
    BY <2>1, MessageKinds DEF ReceiveMessage
  <2>2. CASE Concerns(p) /\ p.type # "snapshot"
    BY <2>2, Zenon DEF ReceiveMessage
  <2>3. CASE ~Concerns(p)
    BY <2>3 DEF ReceiveMessage, FeedTypes
  <2> QED BY <2>1, <2>2, <2>3
<1> QED BY <1>1, <1>2, <1>3

\* Two tables of orders that list the same entries are the same.
LEMMA ListedOnce ==
  ASSUME NEW b, GoodBook(b), NEW orders \in Orders, NEW entries, NEW k \in Nat,
         ListsUpTo(b.orders, entries, k), ListsUpTo(orders, entries, k)
  PROVE  b.orders = orders
<1>1. PICK S \in SUBSET OrderIds : b.orders \in [S -> OrderState]
  BY DEF GoodBook, Books
<1>2. PICK T \in SUBSET OrderIds : orders \in [T -> Quotes]
  BY DEF Orders
<1>3. S = T
  BY <1>1, <1>2 DEF ListsUpTo
<1>4. ASSUME NEW s \in S PROVE b.orders[s] = orders[s]
  <2>1. PICK i \in 1..k : entries[i].id = s
    BY <1>1 DEF ListsUpTo
  <2> QED BY <2>1 DEF ListsUpTo
<1> QED BY <1>1, <1>2, <1>3, <1>4

\* A snapshot that lists the orders at its number makes the book show them.
LEMMA SnapshotShows ==
  ASSUME NEW t, IsTruth(t), NEW b, GoodBook(b), NEW p \in Messages,
         Faithful(t, p), Numbered(t, p), p.type = "snapshot", p.own
  PROVE  Shows(t, LoadSnapshot(b, Kept(p.entries), p.seq))
<1> DEFINE es == Kept(p.entries)
           c == LoadSnapshot(b, es, p.seq)
<1>1. es \in Seq(Entry) /\ p.seq \in Seqs /\ p.seq \in 0..Len(t) - 1
  BY NumberIsSeq, MessageKinds, KeptAreOrders
<1>2. Unique(es) /\ ListsUpTo(t[p.seq + 1], es, Len(es))
  BY Zenon DEF Faithful
<1>3. /\ GoodBook(c) /\ ListsUpTo(c.orders, es, Len(es))
      /\ c.lastSeq = p.seq /\ c.haveLastSeq = TRUE
  BY <1>1, <1>2, LoadSnapshotGood, LoadSnapshotOrders, Zenon
<1> HIDE DEF c, es
<1>4. p.seq + 1 \in 1..Len(t)
  BY <1>1, FeedBounds DEF IsTruth
<1>5. t[p.seq + 1] \in Orders /\ Len(es) \in Nat
  BY <1>1, <1>4, OrdersInTruth
<1>6. c.orders = t[p.seq + 1]
  BY <1>2, <1>3, <1>5, ListedOnce
<1>7. c.haveLastSeq
  BY <1>3, Zenon
<1>8. Shows(t, c)
  BY <1>3, <1>4, <1>6, <1>7, Zenon DEF Shows
<1> QED BY <1>8 DEF c, es

\* An update that is applied takes a book that shows the truth to the next number.
LEMMA UpdateShows ==
  ASSUME NEW t, IsTruth(t), NEW b, GoodBook(b), Shows(t, b), NEW p \in Messages,
         Faithful(t, p), Numbered(t, p), p.type = "update", p.own,
         ApplyDelta(b, p).err = "ok"
  PROVE  Shows(t, ApplyDelta(b, p).book)
<1> DEFINE c == ApplyDelta(b, p).book
<1>1. IsDelta(p) /\ p.seq \in Nat
  BY NumberIsSeq, MessageKinds, SeqsNatural DEF IsDelta
<1>2. /\ p.action = "upsert" => c.orders = With(b.orders, p.id, OrderOf(p))
      /\ p.action # "upsert" => c.orders = Without(b.orders, p.id)
      /\ ~IsGap(b, p.seq) /\ c.lastSeq = p.seq /\ c.haveLastSeq
  BY <1>1, ApplyDeltaOrders, Zenon
<1> HIDE DEF c
<1>3. p.seq = b.lastSeq + 1 /\ b.orders = t[b.lastSeq + 1]
  BY <1>2, Zenon DEF IsGap, Shows
<1>4. /\ p.seq \in 1..Len(t) - 1
      /\ p.action = "upsert" => t[p.seq + 1] = With(t[p.seq], p.id, OrderOf(p))
      /\ p.action # "upsert" => t[p.seq + 1] = Without(t[p.seq], p.id)
  BY Zenon DEF Faithful
<1>5. p.seq + 1 \in 1..Len(t)
  BY <1>4, FeedBounds DEF IsTruth
<1>6. c.orders = t[p.seq + 1]
  BY <1>2, <1>3, <1>4, Zenon
<1>7. Shows(t, c)
  BY <1>2, <1>5, <1>6, Zenon DEF Shows
<1> QED BY <1>7 DEF c

\* The packet handler keeps a synced book true.
LEMMA ReceiveShows ==
  ASSUME FeedTypes, FeedTruth, NEW p \in Messages, Numbered(truth, p), Faithful(truth, p),
         ReceiveMessage(p), synced'
  PROVE  Shows(truth, book')
<1>0. book' = Handle(book, p) /\ GoodBook(book) /\ IsTruth(truth)
  BY DEF ReceiveMessage, FeedTypes
<1>1. CASE ~Concerns(p)
  <2>1. book' = book
    BY <1>0, <1>1, HandleCases, Zenon
  <2>2. synced
    BY <1>1, Zenon DEF ReceiveMessage
  <2> QED BY <2>1, <2>2, Zenon DEF FeedTruth
<1>2. CASE Concerns(p) /\ p.type = "snapshot"
  <2>1. book' = LoadSnapshot(book, Kept(p.entries), p.seq) /\ p.own
    BY <1>0, <1>2, HandleCases, Zenon
  <2> QED BY <1>0, <1>2, <2>1, SnapshotShows
<1>3. CASE Concerns(p) /\ p.type # "snapshot"
  <2>1. synced /\ ~Cleared(book, p)
    BY <1>3, Zenon DEF ReceiveMessage
  <2>2. Shows(truth, book)
    BY <2>1, Zenon DEF FeedTruth
  <2>3. CASE p.type = "update"
    <3>1. book' = ApplyOrClear(book, p) /\ p.own
      BY <1>0, <1>3, <2>3, HandleCases, Zenon
    <3>2. ApplyDelta(book, p).err = "ok"
      BY <2>1, <2>3, Zenon DEF Cleared
    <3>3. book' = ApplyDelta(book, p).book
      BY <3>1, <3>2, Zenon DEF ApplyOrClear
    <3> QED BY <1>0, <2>2, <2>3, <3>1, <3>2, <3>3, UpdateShows
  <2>4. CASE p.type = "technical"
    <3>1. book' = book
      BY <1>0, <1>3, <2>4, HandleCases, Zenon
    <3> QED BY <2>2, <3>1, Zenon
  <2>5. CASE p.type = "empty"
    BY <2>1, <2>5, Zenon DEF Cleared
  <2> QED BY <1>3, <2>3, <2>4, <2>5, MessageKinds
<1> QED BY <1>1, <1>2, <1>3

-----------------------------------------------------------------------------
(* The steps                                                                *)

\* A packet that is under way holds a message to decode.
LEMMA UnderWay ==
  ASSUME wire \in Seq(Packets), NEW i \in 1..Len(wire)
  PROVE  Decoded(wire[i]) = Head(wire[i]) /\ Decoded(wire[i]) \in Messages
BY DEF Packets, Decoded

\* Packets are appended and taken away; what the rest is like does not change.
LEMMA Appended ==
  ASSUME NEW w \in Seq(Packets), NEW ps \in Seq(Packets)
  PROVE  /\ w \o ps \in Seq(Packets) /\ Len(w \o ps) = Len(w) + Len(ps)
         /\ \A i \in 1..Len(w \o ps) : \/ i \in 1..Len(w) /\ (w \o ps)[i] = w[i]
                                       \/ i - Len(w) \in 1..Len(ps)
                                          /\ (w \o ps)[i] = ps[i - Len(w)]
OBVIOUS

LEMMA FromTheThird ==
  ASSUME NEW w \in Seq(Packets), Len(w) > 1
  PROVE  LET r == SubSeq(w, 3, Len(w)) IN
         r \in Seq(Packets) /\ Len(r) = Len(w) - 2 /\ \A i \in 1..Len(r) : r[i] = w[i + 2]
<1> DEFINE n == Len(w)
           r == SubSeq(w, 3, n)
<1>1. n \in Nat /\ n >= 2 /\ w \in [1..n -> Packets]
  OBVIOUS
<1>2. r = [i \in 1..(n - 2) |-> w[i + 2]]
  <2>1. r = [i \in 1..(1 + n - 3) |-> w[i + 3 - 1]]
    BY <1>1
  <2>2. 1 + n - 3 = n - 2 /\ \A i \in 1..(n - 2) : i + 3 - 1 = i + 2
    BY <1>1
  <2> QED BY <2>1, <2>2
<1> HIDE DEF r
<1>3. \A i \in 1..(n - 2) : i + 2 \in 1..n
  BY <1>1
<1>4. r \in Seq(Packets) /\ Len(r) = n - 2
  BY <1>1, <1>2, <1>3
<1> QED BY <1>2, <1>4 DEF r

\* The socket hands on one packet and keeps the others.
LEMMA Remaining ==
  ASSUME wire \in Seq(Packets), Socket
  PROVE  /\ wire' \in Seq(Packets) /\ Len(wire') <= Len(wire) /\ Len(wire') \in Nat
         /\ \A i \in 1..Len(wire') : \E j \in 1..Len(wire) : wire'[i] = wire[j]
<1>1. CASE wire # <<>> /\ wire' = Tail(wire)
  <2>1. /\ wire' \in Seq(Packets) /\ Len(wire') <= Len(wire) /\ Len(wire') \in Nat
    BY <1>1
  <2>2. ASSUME NEW i \in 1..Len(wire') PROVE i + 1 \in 1..Len(wire) /\ wire'[i] = wire[i + 1]
    BY <1>1
  <2> QED BY <2>1, <2>2
<1>2. CASE wire' = wire
  BY <1>2
<1>3. CASE Len(wire) > 1 /\ wire' = <<wire[1]>> \o SubSeq(wire, 3, Len(wire))
  <2> DEFINE r == SubSeq(wire, 3, Len(wire))
  <2>0. Len(wire) \in Nat /\ wire[1] \in Packets
    BY <1>3
  <2>1. r \in Seq(Packets) /\ Len(r) = Len(wire) - 2 /\ \A i \in 1..Len(r) : r[i] = wire[i + 2]
    BY <1>3, <2>0, FromTheThird
  <2> HIDE DEF r
  <2>2. wire' = <<wire[1]>> \o r
    BY <1>3 DEF r
  <2>3. /\ wire' \in Seq(Packets) /\ Len(wire') = Len(wire) - 1
        /\ wire'[1] = wire[1] /\ \A i \in 2..Len(wire') : wire'[i] = r[i - 1]
    BY <2>0, <2>1, <2>2
  <2>4. ASSUME NEW i \in 1..Len(wire') PROVE \E j \in 1..Len(wire) : wire'[i] = wire[j]
    <3>1. CASE i = 1
      BY <1>3, <2>0, <2>3, <3>1
    <3>2. CASE i # 1
      <4>1. i \in 2..Len(wire') /\ i - 1 \in 1..Len(r) /\ i + 1 \in 1..Len(wire)
        BY <2>0, <2>1, <2>3, <3>2
      <4>2. wire'[i] = r[i - 1] /\ r[i - 1] = wire[i - 1 + 2]
        BY <2>1, <2>3, <4>1
      <4>3. i - 1 + 2 = i + 1
        BY <4>1
      <4> QED BY <4>1, <4>2, <4>3
    <3> QED BY <3>1, <3>2
  <2>5. Len(wire') <= Len(wire) /\ Len(wire') \in Nat
    BY <1>3, <2>0, <2>3
  <2> QED BY <2>3, <2>4, <2>5
<1> QED BY <1>1, <1>2, <1>3 DEF Socket, Deliver, Lose, Repeat, Overtake

\* The client receives one of the packets under way, or nothing happens to it.
LEMMA SocketDelivers ==
  ASSUME wire \in Seq(Packets), Socket
  PROVE  \/ \E i \in 1..Len(wire) : ReceiveMessage(Decoded(wire[i]))
         \/ UNCHANGED <<truth, book, synced, awaiting>>
<1>1. CASE Deliver \/ Repeat
  <2>1. 1 \in 1..Len(wire) /\ Head(wire) = wire[1]
    BY <1>1 DEF Deliver, Repeat
  <2>2. ReceiveMessage(Decoded(Head(wire)))
    BY <1>1 DEF Deliver, Repeat, Receive
  <2> QED BY <2>1, <2>2
<1>2. CASE Overtake
  <2>1. 2 \in 1..Len(wire)
    BY <1>2 DEF Overtake
  <2> QED BY <1>2, <2>1 DEF Overtake, Receive
<1>3. CASE Lose
  BY <1>3 DEF Lose
<1> QED BY <1>1, <1>2, <1>3 DEF Socket

LEMMA FeedTypesInit == FeedInit => FeedTypes /\ FeedTruth
<1> SUFFICES ASSUME FeedInit PROVE FeedTypes /\ FeedTruth
  OBVIOUS
<1>1. <<>> \in Orders
  <2>1. {} \in {T \in SUBSET OrderIds : IsFiniteSet(T)} /\ <<>> \in [{} -> Quotes]
    BY FS_EmptySet
  <2> QED BY <2>1 DEF Orders
<1>2. IsTruth(<<<<>>>>)
  <2>1. <<<<>>>> \in Seq(Orders) /\ Len(<<<<>>>>) = 1
    BY <1>1
  <2> QED BY <2>1, FeedBounds DEF IsTruth
<1>3. <<>> \in Seq(Packets) /\ Len(<<>>) = 0 /\ 0 <= MaxWire /\ 1..0 = {}
  BY FeedBounds
<1>4. \A t : AllNumbered(t, <<>>) /\ AllFaithful(t, <<>>)
  BY <1>3, Zenon DEF AllNumbered, AllFaithful
<1>5. GoodBook(NewEngine)
  BY NewEngineGood
<1> QED BY <1>2, <1>3, <1>4, <1>5 DEF FeedInit, FeedTypes, FeedTruth

LEMMA FeedTypesNext == FeedTypes /\ [FeedNext]_feedVars => FeedTypes'
<1> SUFFICES ASSUME FeedTypes, [FeedNext]_feedVars PROVE FeedTypes'
  OBVIOUS
<1>0. /\ IsTruth(truth) /\ wire \in Seq(Packets) /\ Len(wire) <= MaxWire
      /\ AllNumbered(truth, wire) /\ Len(wire) \in Nat
  BY DEF FeedTypes
<1>1. CASE Exchange
  <2>1. PICK ps : Sends(ps)
    BY <1>0, <1>1, ExchangeSends
  <2>2. /\ IsTruth(truth') /\ Extends(truth', truth) /\ ps \in Seq(Packets)
        /\ wire' = wire \o ps /\ Len(wire) + Len(ps) <= MaxWire /\ AllNumbered(truth', ps)
        /\ UNCHANGED <<book, synced, awaiting>>
    BY <2>1 DEF Sends, SendAll
  <2>3. wire' \in Seq(Packets) /\ Len(wire') <= MaxWire
    BY <1>0, <2>2, Appended
  <2>4. AllNumbered(truth', wire')
    <3> SUFFICES ASSUME NEW i \in 1..Len(wire') PROVE Numbered(truth', Head(wire'[i]))
      BY DEF AllNumbered
    <3>1. CASE i \in 1..Len(wire) /\ wire'[i] = wire[i]
      <4>1. Numbered(truth, Head(wire[i]))
        BY <1>0, <3>1, Zenon DEF AllNumbered
      <4>2. Numbered(truth', Head(wire[i]))
        BY <1>0, <2>2, <4>1, NumberedStays
      <4> QED BY <3>1, <4>2, Zenon
    <3>2. CASE i - Len(wire) \in 1..Len(ps) /\ wire'[i] = ps[i - Len(wire)]
      BY <2>2, <3>2, Zenon DEF AllNumbered
    <3> QED BY <1>0, <2>2, <3>1, <3>2, Appended
  <2> QED BY <1>0, <2>2, <2>3, <2>4 DEF FeedTypes
<1>2. CASE Socket
  <2>1. /\ wire' \in Seq(Packets) /\ Len(wire') <= Len(wire) /\ Len(wire') \in Nat
        /\ \A i \in 1..Len(wire') : \E j \in 1..Len(wire) : wire'[i] = wire[j]
    BY <1>0, <1>2, Remaining
  <2>2. Len(wire') <= MaxWire
    BY <1>0, <2>1, FeedBounds
  <2>3. GoodBook(book') /\ synced' \in BOOLEAN /\ awaiting' \in BOOLEAN /\ truth' = truth
    <3>1. CASE UNCHANGED <<truth, book, synced, awaiting>>
      BY <3>1 DEF FeedTypes
    <3>2. ASSUME NEW i \in 1..Len(wire), ReceiveMessage(Decoded(wire[i]))
          PROVE  GoodBook(book') /\ synced' \in BOOLEAN /\ awaiting' \in BOOLEAN
                 /\ truth' = truth
      <4>1. Decoded(wire[i]) \in Messages /\ Numbered(truth, Decoded(wire[i]))
        BY <1>0, UnderWay DEF AllNumbered
      <4> QED BY <3>2, <4>1, ReceiveTypes
    <3> QED BY <1>0, <1>2, <3>1, <3>2, SocketDelivers
  <2>4. AllNumbered(truth', wire')
    BY <1>0, <2>1, <2>3, Zenon DEF AllNumbered
  <2> QED BY <1>0, <2>1, <2>2, <2>3, <2>4 DEF FeedTypes
<1>3. CASE UNCHANGED feedVars
  BY <1>3 DEF feedVars, FeedTypes, AllNumbered, Numbered
<1> QED BY <1>1, <1>2, <1>3 DEF FeedNext

LEMMA FeedTruthNext == FeedTypes /\ FeedTruth /\ Fits /\ [FeedNext]_feedVars => FeedTruth'
<1> SUFFICES ASSUME FeedTypes, FeedTruth, Fits, [FeedNext]_feedVars PROVE FeedTruth'
  OBVIOUS
<1>0. /\ IsTruth(truth) /\ wire \in Seq(Packets) /\ Len(wire) \in Nat
      /\ AllNumbered(truth, wire) /\ AllFaithful(truth, wire)
  BY DEF FeedTypes, FeedTruth
<1>1. CASE Exchange
  <2>1. PICK ps : Sends(ps) /\ AllFaithful(truth', ps)
    BY <1>0, <1>1, ExchangeSends
  <2>2. /\ IsTruth(truth') /\ Extends(truth', truth) /\ ps \in Seq(Packets)
        /\ wire' = wire \o ps
    BY <2>1 DEF Sends, SendAll
  <2>3. book' = book /\ synced' = synced
    BY <2>1 DEF Sends
  <2>4. AllFaithful(truth', wire')
    <3> SUFFICES ASSUME NEW i \in 1..Len(wire') PROVE Faithful(truth', Head(wire'[i]))
      BY DEF AllFaithful
    <3>1. CASE i \in 1..Len(wire) /\ wire'[i] = wire[i]
      <4>1. Faithful(truth, Head(wire[i]))
        BY <1>0, <3>1, Zenon DEF AllFaithful
      <4>2. Faithful(truth', Head(wire[i]))
        BY <1>0, <2>2, <4>1, FaithfulStays
      <4> QED BY <3>1, <4>2, Zenon
    <3>2. CASE i - Len(wire) \in 1..Len(ps) /\ wire'[i] = ps[i - Len(wire)]
      BY <2>1, <3>2, Zenon DEF AllFaithful
    <3> QED BY <1>0, <2>2, <3>1, <3>2, Appended
  <2>5. ASSUME synced' PROVE Shows(truth', book')
    <3>1. Shows(truth, book)
      BY <2>3, <2>5, Zenon DEF FeedTruth
    <3>2. \A n \in 1..Len(truth) : n \in 1..Len(truth') /\ truth'[n] = truth[n]
      BY <1>0, <2>2, FeedBounds DEF IsTruth, Extends
    <3>3. Shows(truth', book)
      BY <3>1, <3>2, Zenon DEF Shows
    <3> QED BY <2>3, <3>3, Zenon
  <2> QED BY <2>4, <2>5, Zenon DEF FeedTruth
<1>2. CASE Socket
  <2>1. \A i \in 1..Len(wire') : \E j \in 1..Len(wire) : wire'[i] = wire[j]
    BY <1>0, <1>2, Remaining
  <2>2. truth' = truth /\ (synced' => Shows(truth', book'))
    <3>1. CASE UNCHANGED <<truth, book, synced, awaiting>>
      <4>1. truth' = truth /\ book' = book /\ synced' = synced
        BY <3>1
      <4> QED BY <4>1, Zenon DEF FeedTruth
    <3>2. ASSUME NEW i \in 1..Len(wire), ReceiveMessage(Decoded(wire[i]))
          PROVE  truth' = truth /\ (synced' => Shows(truth', book'))
      <4>1. /\ Decoded(wire[i]) \in Messages /\ Numbered(truth, Decoded(wire[i]))
            /\ Faithful(truth, Decoded(wire[i]))
        BY <1>0, UnderWay DEF AllNumbered, AllFaithful
      <4>2. truth' = truth
        BY <3>2 DEF ReceiveMessage
      <4>3. synced' => Shows(truth, book')
        BY <3>2, <4>1, ReceiveShows
      <4> QED BY <4>2, <4>3, Zenon
    <3> QED BY <1>0, <1>2, <3>1, <3>2, SocketDelivers
  <2>3. AllFaithful(truth', wire')
    BY <1>0, <2>1, <2>2, Zenon DEF AllFaithful
  <2> QED BY <2>2, <2>3, Zenon DEF FeedTruth
<1>3. CASE UNCHANGED feedVars
  <2>1. truth' = truth /\ wire' = wire /\ book' = book /\ synced' = synced
    BY <1>3 DEF feedVars
  <2>2. AllFaithful(truth', wire')
    BY <1>0, <2>1, Zenon
  <2> QED BY <2>1, <2>2, Zenon DEF FeedTruth
<1> QED BY <1>1, <1>2, <1>3 DEF FeedNext

LEMMA FeedInvariance == FeedSpec => []FeedTypes
<1>1. FeedInit => FeedTypes
  BY FeedTypesInit
<1> QED BY <1>1, FeedTypesNext, PTL DEF FeedSpec

\* The feed's variables keep their types, whatever the socket does.
THEOREM FeedTypeCorrect == FeedSpec => []FeedTypeOK
<1>1. FeedTypes => FeedTypeOK
  <2> SUFFICES ASSUME FeedTypes PROVE FeedTypeOK
    OBVIOUS
  <2>1. Orders \subseteq UNION {[S -> Quotes] : S \in SUBSET OrderIds}
    BY DEF Orders
  <2>2. truth \in Seq(UNION {[S -> Quotes] : S \in SUBSET OrderIds})
    BY <2>1 DEF FeedTypes, IsTruth
  <2> QED BY <2>2 DEF FeedTypes, FeedTypeOK, GoodBook
<1> QED BY <1>1, FeedInvariance, PTL

\* The best prices of the client's book are the best that have a level, whatever the
\* feed makes the engine do.
THEOREM FeedBestPrices == FeedSpec => [](\A side \in Sides : BestIsTopOf(book, side))
<1>1. FeedTypes => \A side \in Sides : BestIsTopOf(book, side)
  BY DEF FeedTypes, GoodBook
<1> QED BY <1>1, FeedInvariance, PTL

\* From a snapshot to the next Clear the client's book is the exchange's at the
\* book's number, whatever is lost, repeated or reordered, as long as the orders of
\* the instrument fit into one packet of a snapshot.
THEOREM SyncedBookIsTrueWhileItFits == FeedSpec /\ []Fits => []SyncedBookIsTrue
<1>1. FeedInit => FeedTypes /\ FeedTruth
  BY FeedTypesInit
<1>2. FeedTypes /\ FeedTruth => SyncedBookIsTrue
  <2> SUFFICES ASSUME FeedTypes, FeedTruth, synced PROVE BookIsTruth
    BY DEF SyncedBookIsTrue
  <2>1. Shows(truth, book)
    BY Zenon DEF FeedTruth
  <2> QED BY <2>1, Zenon DEF Shows, BookIsTruth
<1> QED BY <1>1, <1>2, FeedTypesNext, FeedTruthNext, PTL DEF FeedSpec

\* So it is for every exchange whose instrument never has more resting orders than
\* fit into a packet.
THEOREM SyncedBookIsTrueOfFew ==
  ASSUME IsFiniteSet(OrderIds), Cardinality(OrderIds) <= PerPacket
  PROVE  FeedSpec => []SyncedBookIsTrue
<1>1. FeedTypes => Fits
  <2> SUFFICES ASSUME FeedTypes PROVE Fits
    OBVIOUS
  <2>1. Live \in Orders
    BY LiveIsOrders DEF FeedTypes
  <2>2. DOMAIN Live \in SUBSET OrderIds
    BY <2>1 DEF Orders
  <2>3. Cardinality(DOMAIN Live) <= Cardinality(OrderIds) /\ Cardinality(OrderIds) \in Nat
    BY <2>2, FS_Subset, FS_CardinalityType
  <2>4. Cardinality(DOMAIN Live) \in Nat
    BY <2>2, FS_Subset, FS_CardinalityType
  <2> QED BY <2>3, <2>4, PacketHoldsOne DEF Fits
<1> QED BY <1>1, FeedInvariance, SyncedBookIsTrueWhileItFits, PTL

-----------------------------------------------------------------------------
(* The decoder                                                              *)

\* The entries lie one behind the other: none ends behind the last one.
LEMMA NoEntryIsBehindTheLast ==
  ASSUME NEW n \in Nat, NEW len \in Nat, NEW i \in 0..n - 1
  PROVE  i * len + len <= n * len
<1>1. n - 1 - i \in Nat
  OBVIOUS
<1>2. (n - 1 - i) * len \in Nat
  BY <1>1
<1>3. n * len = i * len + len + (n - 1 - i) * len
  OBVIOUS
<1> QED
  BY <1>2, <1>3

\* An entry as a piece.
EntryPiece(p, i) == [at |-> EntryAt(p, i), check |-> CheckEntry(p),
                     read |-> EntrySize[p.template], legal |-> TRUE]

LEMMA Offsets ==
  ASSUME NEW p \in Datagram
  PROVE  /\ p.size \in Nat /\ p.blockLength \in Nat /\ p.groupLength \in Nat
         /\ p.numInGroup \in Nat
         /\ SBEHeaderAt(p) \in Nat /\ SBEHeaderAt(p) >= 16
         /\ p.incremental => SBEHeaderAt(p) >= 28
         /\ BodyAt(p) = SBEHeaderAt(p) + 8 /\ GroupAt(p) = BodyAt(p) + p.blockLength
         /\ \A i \in Nat : i * p.groupLength \in Nat
                         /\ EntryAt(p, i) = GroupAt(p) + 3 + i * p.groupLength
BY DEF Datagram, EntryAt, GroupAt, BodyAt, SBEHeaderAt, Stride, packetHeaderSize,
       incrementalHeaderSize, sbeHeaderSize, dimensionsSize

\* Of every piece but an entry at most what was checked is read, if it is legal.
LEMMA ReadsWhatIsChecked ==
  ASSUME NEW p \in Datagram, NEW q \in Layout(p)
  PROVE  \/ /\ q.at \in Int /\ q.check \in Int /\ q.read \in Int
            /\ q.legal => q.read <= q.check
         \/ HasGroup(p) /\ q \in Entries(p)
<1>1. CASE q \in Headers(p)
  BY <1>1 DEF Headers, Piece, SBEHeaderAt, packetHeaderSize, incrementalHeaderSize, sbeHeaderSize,
              Datagram
<1>2. CASE q \in Body(p) /\ IsFixed(p)
  <2>1. FixedSize[p.template] \in Nat
    BY <1>2 DEF IsFixed, FixedSize
  <2> QED
    BY <1>2, <2>1 DEF Body, Piece, BodyAt, SBEHeaderAt, packetHeaderSize, incrementalHeaderSize,
                      sbeHeaderSize, Datagram
<1>3. CASE q \in Body(p) /\ HasGroup(p) /\ ~IsFixed(p)
  <2>1. RootSize[p.template] \in Nat
    BY <1>3 DEF HasGroup, RootSize, EntrySize
  <2>2. GroupAt(p) \in Nat /\ BodyAt(p) \in Nat
    BY Offsets
  <2>3. CASE q = Root(p)
    <3>1. q.legal => q.check >= q.read
      BY <2>3, Zenon DEF Root
    <3>2. q.at \in Int /\ q.check \in Int /\ q.read \in Int
      BY <2>1, <2>2, <2>3, Offsets DEF Root
    <3> QED BY <3>1, <3>2
  <2>4. CASE q = Piece(GroupAt(p), dimensionsSize)
    BY <2>2, <2>4 DEF Piece, dimensionsSize
  <2> QED
    BY <1>3, <2>3, <2>4 DEF Body
<1> QED
  BY <1>1, <1>2, <1>3 DEF Layout, Body

\* An entry whose check passes is reached, if the root is legal: whatever lies
\* before it in the datagram passes too.
LEMMA EntryIsReached ==
  ASSUME NEW p \in Datagram, HasGroup(p), p.blockLength >= RootSize[p.template],
         NEW i \in 0..p.numInGroup - 1, EntryAt(p, i) + p.groupLength <= p.size
  PROVE  EntryPiece(p, i) \in Layout(p) /\ Reached(p, EntryPiece(p, i))
<1> DEFINE n == i * p.groupLength
<1>1. /\ p.size \in Nat /\ p.blockLength \in Nat /\ p.groupLength \in Nat
      /\ SBEHeaderAt(p) \in Nat /\ SBEHeaderAt(p) >= 16
      /\ p.incremental => SBEHeaderAt(p) >= 28
      /\ BodyAt(p) = SBEHeaderAt(p) + 8 /\ GroupAt(p) = BodyAt(p) + p.blockLength
      /\ n \in Nat /\ EntryAt(p, i) = GroupAt(p) + 3 + n
  BY Offsets
<1> HIDE DEF n
<1>2. ~IsFixed(p)
  BY DEF HasGroup, IsFixed, EntrySize, FixedSize
<1>3. EntryPiece(p, i) \in Layout(p)
  BY <1>2 DEF Layout, Body, Entries, EntryPiece
<1>4. ASSUME NEW r \in Layout(p), r.at <= EntryAt(p, i)
      PROVE  Passes(p, r)
  <2>1. CASE r \in Headers(p)
    BY <1>1, <2>1 DEF Headers, Piece, Passes, packetHeaderSize, incrementalHeaderSize, sbeHeaderSize
  <2>2. CASE r = Root(p)
    <3>1. Root(p).legal /\ Root(p).at = BodyAt(p) /\ Root(p).check = p.blockLength
      BY Zenon DEF Root
    <3>2. BodyAt(p) + p.blockLength <= p.size
      BY <1>1
    <3> QED BY <2>2, <3>1, <3>2, Zenon DEF Passes
  <2>3. CASE r = Piece(GroupAt(p), dimensionsSize)
    BY <1>1, <2>3 DEF Piece, Passes, dimensionsSize
  <2>4. CASE r \in Entries(p)
    <3>1. PICK k \in 0..p.numInGroup - 1 : r = EntryPiece(p, k)
      BY <2>4 DEF Entries, EntryPiece
    <3>2. r.at = EntryAt(p, k) /\ r.check = p.groupLength /\ r.legal
      BY <3>1 DEF EntryPiece, CheckEntry
    <3>3. EntryAt(p, k) \in Int
      BY <1>1, Offsets
    <3> QED BY <1>1, <1>4, <3>2, <3>3 DEF Passes
  <2> QED BY <1>2, <2>1, <2>2, <2>3, <2>4 DEF Layout, Body
<1>5. EntryPiece(p, i).at = EntryAt(p, i)
  BY DEF EntryPiece
<1> QED BY <1>3, <1>4, <1>5, Zenon DEF Reached

\* The decoder reads outside of a datagram in one case and in no other: in a group
\* whose entries are stated to be shorter than the fields read, at an entry of which
\* this length is left and not the fields.  Headers, roots and messages without a
\* group are safe whatever lengths they state and wherever the datagram ends.
THEOREM ReadsLeaveOnlyInShortEntries ==
  \A p \in Datagram : ReadsStayInside(p) <=> ~Overruns(p)
<1> SUFFICES ASSUME NEW p \in Datagram PROVE ReadsStayInside(p) <=> ~Overruns(p)
  OBVIOUS
<1>1. ASSUME ~Overruns(p), NEW q \in Layout(p), Reached(p, q)
      PROVE  q.at + q.read <= p.size
  <2>0. p.size \in Nat /\ p.groupLength \in Nat /\ p.numInGroup \in Nat
    BY Offsets
  <2>2. CASE /\ q.at \in Int /\ q.check \in Int /\ q.read \in Int
             /\ q.legal => q.read <= q.check
    <3>1. Passes(p, q)
      BY <1>1, <2>2 DEF Reached
    <3>2. q.legal /\ q.at + q.check <= p.size
      BY <3>1, Zenon DEF Passes
    <3>3. q.read <= q.check
      BY <2>2, <3>2, Zenon
    <3> QED BY <2>0, <2>2, <3>2, <3>3
  <2>3. CASE HasGroup(p) /\ q \in Entries(p)
    <3>1. PICK i \in 0..p.numInGroup - 1 : q = EntryPiece(p, i)
      BY <2>3 DEF Entries, EntryPiece
    <3>2. /\ q.at = EntryAt(p, i) /\ q.check = p.groupLength
          /\ q.read = EntrySize[p.template]
      BY <3>1 DEF EntryPiece, CheckEntry
    <3>3. i \in Nat /\ EntryAt(p, i) \in Nat /\ GroupAt(p) <= EntryAt(p, i)
          /\ BodyAt(p) <= EntryAt(p, i)
      <4>1. i \in Nat
        BY <2>0
      <4>2. /\ i * p.groupLength \in Nat /\ p.blockLength \in Nat /\ SBEHeaderAt(p) \in Nat
            /\ BodyAt(p) = SBEHeaderAt(p) + 8 /\ GroupAt(p) = BodyAt(p) + p.blockLength
            /\ EntryAt(p, i) = GroupAt(p) + 3 + i * p.groupLength
        BY <4>1, Offsets
      <4> DEFINE n == i * p.groupLength
      <4>3. n \in Nat /\ EntryAt(p, i) = GroupAt(p) + 3 + n
        BY <4>2
      <4> HIDE DEF n
      <4> QED BY <4>1, <4>2, <4>3
    <3>4. EntryAt(p, i) + p.groupLength <= p.size
      BY <1>1, <3>2, <3>3 DEF Reached, Passes
    <3>5. ~IsFixed(p)
      BY <2>3 DEF HasGroup, IsFixed, EntrySize, FixedSize
    <3>6. Root(p) \in Layout(p) /\ Root(p).at = BodyAt(p)
      BY <2>3, <3>5 DEF Layout, Body, Root
    <3>7. Passes(p, Root(p))
      BY <1>1, <3>2, <3>3, <3>6 DEF Reached
    <3>8. p.blockLength >= RootSize[p.template]
      BY <3>7 DEF Passes, Root
    <3>9. ~(p.size < EntryAt(p, i) + EntrySize[p.template])
      BY <1>1, <2>3, <3>4, <3>8 DEF Overruns
    <3>10. EntrySize[p.template] \in Nat
      BY <2>3 DEF HasGroup, EntrySize
    <3> QED BY <2>0, <3>2, <3>3, <3>9, <3>10
  <2> QED BY <2>2, <2>3, ReadsWhatIsChecked
<1>2. ASSUME Overruns(p) PROVE ~ReadsStayInside(p)
  <2>1. PICK i \in 0..p.numInGroup - 1 : /\ EntryAt(p, i) + p.groupLength <= p.size
                                         /\ p.size < EntryAt(p, i) + EntrySize[p.template]
    BY <1>2 DEF Overruns
  <2>2. HasGroup(p) /\ p.blockLength >= RootSize[p.template]
    BY <1>2 DEF Overruns
  <2> DEFINE q == EntryPiece(p, i)
  <2>3. q \in Layout(p) /\ Reached(p, q)
    BY <2>1, <2>2, EntryIsReached
  <2>4. q.at = EntryAt(p, i) /\ q.read = EntrySize[p.template]
    BY DEF EntryPiece
  <2>5. i \in Nat /\ EntryAt(p, i) \in Nat /\ p.size \in Nat /\ EntrySize[p.template] \in Nat
    <3>1. i \in Nat /\ p.size \in Nat
      BY Offsets
    <3>2. EntrySize[p.template] \in Nat
      BY <2>2 DEF HasGroup, EntrySize
    <3> QED BY <3>1, <3>2, Offsets
  <2>6. ~(EntryAt(p, i) + EntrySize[p.template] <= p.size)
    BY <2>1, <2>5
  <2> HIDE DEF q
  <2> QED BY <2>3, <2>4, <2>6 DEF ReadsStayInside
<1> QED BY <1>1, <1>2 DEF ReadsStayInside

\* Of a message with a group either every entry is decoded or the message is
\* refused, and a message that is whole is never refused.
THEOREM AllOrNothing == \A p \in Datagram : Known(p) => NeverTorn(p)
<1> SUFFICES ASSUME NEW p \in Datagram, Known(p)
             PROVE  /\ p.size >= EncodedSize(p) => Decodes(p)
                    /\ HasGroup(p) /\ Decodes(p) => p.size >= EncodedSize(p)
  BY DEF NeverTorn
<1>0. /\ p.size \in Nat /\ p.numInGroup \in Nat /\ p.groupLength \in Nat
      /\ p.blockLength \in Nat
  BY DEF Datagram
<1>1. /\ SBEHeaderAt(p) \in Nat /\ BodyAt(p) = SBEHeaderAt(p) + 8 /\ BodyAt(p) \in Nat
      /\ GroupAt(p) = BodyAt(p) + p.blockLength /\ GroupAt(p) \in Nat
      /\ 16 <= SBEHeaderAt(p) /\ (p.incremental => 28 <= SBEHeaderAt(p))
  BY <1>0 DEF GroupAt, BodyAt, SBEHeaderAt, packetHeaderSize, incrementalHeaderSize, sbeHeaderSize
<1>2. p.numInGroup * p.groupLength \in Nat
  BY <1>0
<1>3. ASSUME p.size >= EncodedSize(p), NEW q \in Layout(p)
      PROVE  Passes(p, q)
  <2>1. p.size >= GroupAt(p)
    BY <1>0, <1>1, <1>2, <1>3 DEF EncodedSize, dimensionsSize
  <2>2. CASE q \in Headers(p)
    BY <1>0, <1>1, <2>1, <2>2 DEF Headers, Piece, Passes, packetHeaderSize, incrementalHeaderSize,
                             sbeHeaderSize
  <2>3. CASE q \in Body(p) /\ IsFixed(p)
    <3>1. FixedSize[p.template] \in Nat /\ FixedSize[p.template] <= p.blockLength
      BY <2>3 DEF IsFixed, FixedSize, Known
    <3> QED
      BY <1>0, <1>1, <2>1, <2>3, <3>1 DEF Body, Piece, Passes
  <2>4. CASE q \in Body(p) /\ HasGroup(p) /\ ~IsFixed(p)
    <3>1. p.size >= GroupAt(p) + 3 + p.numInGroup * p.groupLength
      BY <1>0, <1>1, <1>2, <1>3, <2>4 DEF EncodedSize, dimensionsSize
    <3>2. CASE q = Root(p)
      BY <1>0, <1>1, <2>1, <2>4, <3>2 DEF Root, Passes, Known
    <3>3. CASE q = Piece(GroupAt(p), dimensionsSize)
      BY <1>0, <1>1, <1>2, <3>1, <3>3 DEF Piece, Passes, dimensionsSize
    <3>4. CASE q \in Entries(p)
      <4>1. PICK i \in 0..p.numInGroup - 1 :
              q = [at |-> EntryAt(p, i), check |-> CheckEntry(p),
                   read |-> EntrySize[p.template], legal |-> TRUE]
        BY <3>4 DEF Entries
      <4>2. i * p.groupLength + p.groupLength <= p.numInGroup * p.groupLength
        BY <1>0, NoEntryIsBehindTheLast
      <4>3. i * p.groupLength \in Int
        BY <1>0, <4>1
      <4> QED
        BY <1>0, <1>1, <1>2, <3>1, <4>1, <4>2, <4>3
           DEF EntryAt, Stride, CheckEntry, Passes, dimensionsSize
    <3> QED
      BY <2>4, <3>2, <3>3, <3>4 DEF Body
  <2> QED
    BY <2>2, <2>3, <2>4 DEF Layout, Body
<1>4. ASSUME HasGroup(p), Decodes(p)
      PROVE  p.size >= EncodedSize(p)
  <2>1. ~IsFixed(p)
    BY <1>4 DEF HasGroup, IsFixed, EntrySize, FixedSize
  <2>2. EncodedSize(p) = GroupAt(p) + 3 + p.numInGroup * p.groupLength
    BY <1>1, <1>2, <1>4 DEF EncodedSize, dimensionsSize
  <2>3. CASE p.numInGroup = 0
    <3>1. Piece(GroupAt(p), dimensionsSize) \in Layout(p)
      BY <1>4, <2>1 DEF Layout, Body
    <3>2. Passes(p, Piece(GroupAt(p), dimensionsSize))
      BY <1>4, <3>1 DEF Decodes
    <3> QED
      BY <1>0, <1>1, <2>2, <2>3, <3>2 DEF Passes, Piece, dimensionsSize
  <2>4. CASE p.numInGroup # 0
    <3> DEFINE last == p.numInGroup - 1
               q == [at |-> EntryAt(p, last), check |-> CheckEntry(p),
                     read |-> EntrySize[p.template], legal |-> TRUE]
    <3>1. last \in 0..p.numInGroup - 1
      BY <1>0, <2>4
    <3>2. q \in Layout(p)
      BY <1>4, <2>1, <3>1 DEF Layout, Body, Entries
    <3>3. GroupAt(p) + 3 + last * p.groupLength + p.groupLength <= p.size
      BY <1>4, <3>2 DEF Decodes, Passes, EntryAt, Stride, CheckEntry, dimensionsSize
    <3>4. last * p.groupLength + p.groupLength = p.numInGroup * p.groupLength
      BY <1>0
    <3>5. last * p.groupLength \in Int
      BY <1>0
    <3> HIDE DEF last
    <3> QED
      BY <1>0, <1>1, <1>2, <2>2, <3>3, <3>4, <3>5
  <2> QED
    BY <2>3, <2>4
<1> QED
  BY <1>3, <1>4 DEF Decodes
=============================================================================
