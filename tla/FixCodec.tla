------------------------------- MODULE FixCodec -------------------------------
(***************************************************************************)
(* Messages as bytes: Encode and Decode of internal/fix/message.go and the *)
(* frames that ReadMessage of conn.go cuts the stream of the connection    *)
(* into.                                                                   *)
(*                                                                         *)
(* A message is "tag=value" fields, each ended by the delimiter SOH.  The  *)
(* second field says how many bytes follow it up to the last field, the    *)
(* checksum.  A byte here is an integer: the delimiter, the equals sign,   *)
(* some text, or a whole number in decimals, whose digits are not told     *)
(* apart; a length counts these bytes.                                     *)
(***************************************************************************)
EXTENDS Integers, SequencesExt

CONSTANT Values   \* the values that fields may have

soh  == -1
eq   == -2
text == -3
negative == -4   \* a whole number below zero
IsNumber(b) == b >= 0 \/ b = negative

ASSUME ValuesAreBytes == Values \subseteq Seq(Int)

\* SetStr takes any string; nothing in the code keeps the delimiter out.
ASSUME ValuesHoldNoDelimiter == \A v \in Values : soh \notin {v[i] : i \in DOMAIN v}

TagBeginString == 8
TagBodyLength  == 9
TagCheckSum    == 10
TagMsgSeqNum   == 34
TagMsgType     == 35

-----------------------------------------------------------------------------
(* Encode                                                                   *)

Field(tag, value) == [tag |-> tag, value |-> value]

Bytes(f) == <<f.tag, eq>> \o f.value \o <<soh>>

CheckSum(bytes) == FoldSeq(LAMBDA b, sum : sum + b, 0, bytes) % 256

BodyLength(body) == Len(body)

\* A message is [msgType, fields]; its number is in the header, and so are the names
\* of sender and receiver and the time, which are left out.
Body(m, seq) ==
  LET header == <<Field(TagMsgType, m.msgType), Field(TagMsgSeqNum, <<seq>>)>>
  IN  FlattenSeq([i \in 1..2 + Len(m.fields) |-> Bytes((header \o m.fields)[i])])

Framed(body) ==
  LET unsigned == Bytes(Field(TagBeginString, <<text>>))
                  \o Bytes(Field(TagBodyLength, <<BodyLength(body)>>)) \o body
  IN  unsigned \o Bytes(Field(TagCheckSum, <<CheckSum(unsigned)>>))

Encode(m, seq) == Framed(Body(m, seq))

-----------------------------------------------------------------------------
(* ReadMessage                                                              *)

\* ReadBytes(soh): the end of the field that starts behind i; 0 if the stream ends
\* before.
FieldEnd(s, i) ==
  LET ends == {j \in i + 1..Len(s) : s[j] = soh}
  IN  IF ends = {} THEN 0 ELSE Min(ends)

\* The bytes behind i, up to j, are a field with this tag.
HasTag(s, i, j, tag) == j >= i + 3 /\ s[i + 1] = tag /\ s[i + 2] = eq

\* The body is as long as BodyLength says.
BodyEnd(s, lengthEnd) == lengthEnd + s[lengthEnd - 1]

\* What comes in place of a frame: an error, which ends the session, or, where the
\* length is negative, a panic of make([]byte, bodyLen), which ends the program.
error == 0
panic == -1
NoFrame(end) == end \in {error, panic}

\* The end of the frame at the start of a stream.
FrameEnd(s) ==
  LET begin  == FieldEnd(s, 0)
      length == FieldEnd(s, begin)
      body   == BodyEnd(s, length)
      end    == FieldEnd(s, body)
      headed == /\ begin # 0 /\ HasTag(s, 0, begin, TagBeginString)
                /\ length # 0 /\ HasTag(s, begin, length, TagBodyLength)
                /\ length = begin + 4 /\ IsNumber(s[length - 1])
  IN  IF ~headed THEN error
      ELSE IF s[length - 1] = negative THEN panic
      ELSE IF body <= Len(s) /\ end # 0 /\ HasTag(s, body, end, TagCheckSum) THEN end
      ELSE error

\* What the read loop gets from a stream, up to the first error or panic.
ReadAll(s) ==
  LET from[i \in 1..Len(s) + 1] ==
        LET end == FrameEnd(SubSeq(s, i, Len(s)))
        IN  IF NoFrame(end) THEN <<>> ELSE <<SubSeq(s, i, i + end - 1)>> \o from[i + end]
  IN  from[1]

-----------------------------------------------------------------------------
(* Decode                                                                   *)

\* strings.Split at the delimiters, without the empty parts.
Tokens(raw) ==
  LET add(parts, b) == IF b = soh THEN Append(parts, <<>>)
                       ELSE [parts EXCEPT ![Len(parts)] = Append(@, b)]
  IN  SelectSeq(FoldLeft(add, << <<>> >>, raw), LAMBDA tok : tok # <<>>)

SplitAt(tok) == SelectInSeq(tok, LAMBDA b : b = eq)

IsField(tok) == SplitAt(tok) = 2 /\ IsNumber(tok[1])

Decode(raw) ==
  LET fields == [i \in DOMAIN Tokens(raw) |->
                   LET tok == Tokens(raw)[i]
                   IN  Field(tok[1], SubSeq(tok, SplitAt(tok) + 1, Len(tok)))]
      types  == SelectSeq(fields, LAMBDA f : f.tag = TagMsgType)
  IN  IF \E i \in DOMAIN Tokens(raw) : ~IsField(Tokens(raw)[i]) THEN [ok |-> FALSE]
      ELSE [ok |-> TRUE,
            msgType |-> IF types = <<>> THEN <<>> ELSE Last(types).value,
            fields  |-> SelectSeq(fields, LAMBDA f : f.tag # TagMsgType)]

\* GetStr: the first field with this tag; <<>> if there is none.
GetStr(m, tag) ==
  LET found == SelectSeq(m.fields, LAMBDA f : f.tag = tag)
  IN  IF found = <<>> THEN <<>> ELSE Head(found).value

\* VerifyChecksum: everything up to the last "10=" of the frame.
VerifyChecksum(raw, m) ==
  LET starts == {i \in 1..Len(raw) - 1 : raw[i] = TagCheckSum /\ raw[i + 1] = eq}
  IN  starts # {} /\ GetStr(m, TagCheckSum) = <<CheckSum(SubSeq(raw, 1, Max(starts) - 1))>>

-----------------------------------------------------------------------------
(* Properties                                                               *)

\* Messages of the application: two fields, which may have the same tag.
Messages == [msgType : Values, fields : [1..2 -> [tag : {11, 55}, value : Values]]]

\* Wherever the connection is cut off, the reader gets exactly the messages that
\* came through as a whole, one frame each (conn.go:30-32), also when values look
\* like the fields that frame a message.
FramesComeBack ==
  \A m \in Messages, v \in Values :
    LET first  == Encode(m, 1)
        second == Encode([msgType |-> v, fields |-> <<>>], 2)
        stream == first \o second
    IN  \A cut \in 0..Len(stream) :
          ReadAll(SubSeq(stream, 1, cut)) =
            IF cut = Len(stream) THEN <<first, second>>
            ELSE IF cut >= Len(first) THEN <<first>> ELSE <<>>

\* A message is decoded as it was sent: its type, its number and every field, with
\* the first of two fields that have the same tag, and its checksum is right.
DecodedAsSent ==
  \A m \in Messages :
    LET d == Decode(Encode(m, 1))
    IN  /\ d.ok /\ d.msgType = m.msgType /\ GetStr(d, TagMsgSeqNum) = <<1>>
        /\ SelectSeq(d.fields, LAMBDA f : f.tag \in {11, 55}) = m.fields
        /\ VerifyChecksum(Encode(m, 1), d)
=============================================================================
