----------------------------- MODULE MCFixSession -----------------------------
(***************************************************************************)
(* A session with a handful of messages each way, one fault, and at most   *)
(* one message from a session before it.  What goes over its connection    *)
(* are whole messages; FixCodec, which turns them into bytes and back, is  *)
(* checked beside it, with values that look like parts of a frame, and so  *)
(* is the configuration it is dialled with, with durations of eight bits.  *)
(***************************************************************************)
EXTENDS FixSession, FixCodec, Integers

MCValues == {<<text>>, <<text, eq, text>>, <<TagCheckSum, eq, 7>>}

\* Evaluated before the run: the codec gives back what went into it.
ASSUME CodecRoundTrip == FramesComeBack /\ DecodedAsSent

C == INSTANCE Config WITH Width <- 8, Floor <- 30

\* Also evaluated before the run: configurations that set any two fields.
MCFields == C!Defaulted \cup {"FIX.SenderCompID", "SIMBA.SnapshotGroupA", "Orderbook.MaxDepth"}

ASSUME ConfigIsFilled ==
  \A f, g \in MCFields :
    C!DefaultsFill([h \in MCFields |-> IF h \in {f, g} THEN "given" ELSE "empty"])

\* ... and delays with every limit, also one below the floor, and a shift that
\* overflows.
ASSUME BackoffHasFloor ==
  \A initial \in {1, 2, 7, 50, 127}, max \in {-1, 10, 40, 100, 127}, attempt \in 0..12 :
    \A percent \in {-120, -20, 0, 20} : C!BackoffInBounds(initial, max, attempt, percent)
=============================================================================
