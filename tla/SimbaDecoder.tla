----------------------------- MODULE SimbaDecoder -----------------------------
(***************************************************************************)
(* DecodePacket (internal/simba/decode.go): which bytes of a datagram it   *)
(* looks at, and which datagrams it refuses.                               *)
(*                                                                         *)
(* The decoder goes through a datagram piece by piece: headers, the root   *)
(* of the message, the dimensions of a repeating group, its entries.       *)
(* Before each piece it checks that so many bytes are left, and then reads *)
(* fields at fixed offsets.  The message says how long its root and its    *)
(* entries are, and these lengths need not be what the fields take up: a   *)
(* later version of the schema appends fields, and nothing keeps a message *)
(* from stating less.                                                      *)
(***************************************************************************)
EXTENDS Integers

\* The size of a datagram and what the decoder's way through it depends on.
\* Heartbeats and messages the client does not know have nothing to read.
Datagram == [size : Nat, incremental : BOOLEAN,
             template : {"Heartbeat", "SequenceReset", "EmptyBook", "BestPrices", "OrderUpdate",
                         "OrderExecution", "OrderBookSnapshot", "SecurityDefinition", "other"},
             blockLength : Nat, groupLength : Nat, numInGroup : Nat]

-----------------------------------------------------------------------------
packetHeaderSize      == 16
incrementalHeaderSize == 12
sbeHeaderSize         == 8

\* Messages without a group, and how much of them the decoder reads.
FixedSize == [SequenceReset |-> 4, EmptyBook |-> 4, OrderUpdate |-> 50,
              OrderExecution |-> 74, SecurityDefinition |-> 33]

\* Messages with a group, and what the decoder reads of the root and of an entry.
RootSize  == [BestPrices |-> 0, OrderBookSnapshot |-> 16]
EntrySize == [BestPrices |-> 36, OrderBookSnapshot |-> 57]

dimensionsSize == 3

IsFixed(p) == p.template \in DOMAIN FixedSize
HasGroup(p) == p.template \in DOMAIN EntrySize

\* A piece: `check` bytes must be left at offset `at`, `read` of them are read; an
\* illegal one is refused in any case.
Piece(at, size) == [at |-> at, check |-> size, read |-> size, legal |-> TRUE]

SBEHeaderAt(p) == packetHeaderSize + (IF p.incremental THEN incrementalHeaderSize ELSE 0)
BodyAt(p)      == SBEHeaderAt(p) + sbeHeaderSize
GroupAt(p)     == BodyAt(p) + p.blockLength

Headers(p) ==
  {Piece(0, packetHeaderSize), Piece(SBEHeaderAt(p), sbeHeaderSize)}
  \cup (IF p.incremental THEN {Piece(packetHeaderSize, incrementalHeaderSize)} ELSE {})

Root(p) == [at |-> BodyAt(p), check |-> p.blockLength, read |-> RootSize[p.template],
            legal |-> p.blockLength >= RootSize[p.template]]

\* buf = buf[groupBlockLen:].
Stride(p) == p.groupLength

\* What is left is compared with the length of an entry that the message states,
\* and that length with nothing.
CheckEntry(p) == p.groupLength

EntryAt(p, i) == GroupAt(p) + dimensionsSize + i * Stride(p)

Entries(p) ==
  {[at |-> EntryAt(p, i), check |-> CheckEntry(p), read |-> EntrySize[p.template],
    legal |-> TRUE] : i \in 0..p.numInGroup - 1}

Body(p) == IF IsFixed(p) THEN {Piece(BodyAt(p), FixedSize[p.template])}
           ELSE IF HasGroup(p) THEN {Root(p), Piece(GroupAt(p), dimensionsSize)} \cup Entries(p)
           ELSE {}

Layout(p) == Headers(p) \cup Body(p)

Passes(p, q) == q.legal /\ q.at + q.check <= p.size

\* DecodePacket stops at the first piece that does not pass, and returns a message
\* when all pass.
Reached(p, q) == \A r \in Layout(p) : r.at <= q.at => Passes(p, r)

Decodes(p) == \A q \in Layout(p) : Passes(p, q)

-----------------------------------------------------------------------------
(* Properties, of one datagram                                              *)

\* The exchange's schema only grows: what the client knows of it is there.
Known(p) == /\ IsFixed(p) => p.blockLength >= FixedSize[p.template]
            /\ HasGroup(p) => /\ p.blockLength >= RootSize[p.template]
                              /\ p.groupLength >= EntrySize[p.template]

\* The length of the whole message as the exchange encodes it (decode.go:14-19).
EncodedSize(p) ==
  GroupAt(p) + (IF HasGroup(p) THEN dimensionsSize + p.numInGroup * p.groupLength ELSE 0)

\* The decoder reads nothing outside of a datagram.  Where it does, the listener's
\* buffer is longer than the datagram in it (listener.go:101-120), so that a slice
\* expression takes bytes an earlier datagram left behind; the index expression for
\* the type of a snapshot's entry (decode.go:322) panics, and ends the program.
ReadsStayInside(p) == \A q \in Layout(p) : Reached(p, q) => q.at + q.read <= p.size

\* It does so in one case only: an entry for which the message states a length that
\* is less than the fields read, in a datagram that has this length left and not
\* the fields.
Overruns(p) ==
  /\ HasGroup(p) /\ p.blockLength >= RootSize[p.template]
  /\ \E i \in 0..p.numInGroup - 1 : /\ EntryAt(p, i) + p.groupLength <= p.size
                                    /\ p.size < EntryAt(p, i) + EntrySize[p.template]

\* A message that is whole is decoded, and of a group every entry or none: a
\* snapshot that was cut off never replaces the book with the orders it still has
\* (engine.go:64-81).
NeverTorn(p) ==
  /\ p.size >= EncodedSize(p) => Decodes(p)
  /\ HasGroup(p) /\ Decodes(p) => p.size >= EncodedSize(p)
=============================================================================
