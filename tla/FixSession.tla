------------------------------ MODULE FixSession ------------------------------
(***************************************************************************)
(* One FIX session: internal/fix/session.go.                               *)
(*                                                                         *)
(* The caller of Logon, the reader goroutine, the heartbeat goroutine, the *)
(* callers of SendApp and whoever closes the session run concurrently.     *)
(* Writes are serialised by writeMu, so a write is one step; the reader    *)
(* may be overtaken between tracking a number, dispatching and replying.   *)
(*                                                                         *)
(* The Gate is modelled from how the code talks to it: it answers a Logon, *)
(* numbers what it sends, and on a ResendRequest sends its application     *)
(* messages again with PossDupFlag and a SequenceReset/GapFill in place of *)
(* the others.  TCP keeps the order; a frame may be unreadable (Decode     *)
(* fails), the framing may be lost (ReadMessage fails on a connection that *)
(* works) and the connection may break.  When the Gate stops reading, the  *)
(* connection stalls: a write has no deadline, so it blocks in conn.Write, *)
(* with writeMu, and every other write behind it.  No step is the model of *)
(* that wait, and a stall that ends is a step taken later.                 *)
(***************************************************************************)
EXTENDS Naturals, Sequences

CONSTANTS MaxIn,       \* bound on the numbers the Gate uses
          MaxBefore,   \* bound on those it has used in an earlier session of the day
          MaxFaults,   \* bound on frames that cannot be decoded, have an old number or none
          MaxOut       \* bound on the messages sent by SendApp and the ticker

ASSUME MaxInPositive == MaxIn \in Nat \ {0}
ASSUME FaultsNatural == MaxFaults \in Nat /\ MaxOut \in Nat /\ MaxBefore \in 0..MaxIn

\* Heartbeats, Rejects and the like are "admin": they only take a number.
Kinds == {"logon", "admin", "test", "resend", "logout", "app"}

VARIABLES caller,    \* Logon and what follows it
          reader,    \* readLoop
          heart,     \* heartbeatLoop
          ctxDone,   \* the context of Logon is done
          closing,   \* how far Close has come; "signalled": closedCh is closed
          wanted,    \* somebody has called Close
          ack,       \* logonAckCh, of capacity 1
          outSeq, inSeq,
          failed,    \* lastErr is set
          conn,      \* "up", "stalled" or "broken"
          toGate,    \* written, not yet read by the Gate
          gateIn,    \* the next number the Gate expects
          log,       \* what the Gate has sent, by number
          fromGate,  \* under way to the client
          handed,    \* history: how often each number was given to appHandler; 0 is no number
          asked,     \* history: the numbers asked for again
          strayed,   \* history: the Gate has repeated a message without PossDupFlag
          faults, beats   \* uses of the bounds

vars == <<caller, reader, heart, ctxDone, closing, wanted, ack, outSeq, inSeq, failed,
          conn, toGate, gateIn, log, fromGate, handed, asked, strayed, faults, beats>>

gateVars   == <<gateIn, log, fromGate>>
closeVars  == <<closing, wanted>>
writeVars  == <<outSeq, toGate, failed>>
hist       == <<asked, strayed>>

ClosedCh == closing \in {"signalled", "closed"}
Alive    == conn # "broken" /\ closing # "closed"

-----------------------------------------------------------------------------
(* Writing: sendSeq under writeMu                                           *)

\* Mutant: a write does not use its number up.
SameNumber == outSeq

NextOut == outSeq + 1

\* Encode: the number goes into the message.
Encoded(m) == [seq |-> outSeq, msg |-> m]

\* A write to a connection the Gate has broken may go nowhere without an error,
\* and one to a connection it does not read from does not return.
Write(m) ==
  /\ conn # "stalled"
  /\ outSeq' = NextOut
  /\ toGate' = IF Alive THEN Append(toGate, Encoded(m)) ELSE toGate
  /\ UNCHANGED failed

WriteError ==
  /\ ~Alive
  /\ failed' = TRUE
  /\ UNCHANGED <<outSeq, toGate>>

Send(m) == (closing # "closed" /\ Write(m)) \/ WriteError

-----------------------------------------------------------------------------
(* Logon                                                                    *)

StartLogon ==
  /\ caller = "new"
  /\ caller' = "send" /\ reader' = [at |-> "top"]
  /\ UNCHANGED <<heart, ctxDone, closeVars, ack, writeVars, inSeq, conn, gateVars, handed,
                 hist, faults, beats>>

SendLogon ==
  /\ caller = "send"
  /\ \/ closing # "closed" /\ Write([type |-> "logon"]) /\ caller' = "await" /\ UNCHANGED wanted
     \/ WriteError /\ caller' = "refused" /\ wanted' = TRUE
  /\ UNCHANGED <<reader, heart, ctxDone, closing, ack, inSeq, conn, gateVars, handed, hist,
                 faults, beats>>

\* The select of Logon: the ack channel, the context or ten seconds.  Connect
\* closes a session whose Logon failed (forts/client.go:168-171).
AwaitLogon ==
  /\ caller = "await"
  /\ \/ ack = <<"ok">> /\ caller' = "logged on" /\ heart' = "on" /\ ack' = <<>>
        /\ UNCHANGED wanted
     \/ /\ (ack = <<"closed">> /\ ack' = <<>>) \/ UNCHANGED ack
        /\ caller' = "refused" /\ wanted' = TRUE /\ UNCHANGED heart
  /\ UNCHANGED <<reader, ctxDone, closing, writeVars, inSeq, conn, gateVars, handed, hist,
                 faults, beats>>

-----------------------------------------------------------------------------
(* SendApp, the ticker, the context and Close                               *)

SendApp ==
  /\ caller = "logged on" /\ beats < MaxOut
  /\ beats' = beats + 1
  /\ Send([type |-> "app"])
  /\ UNCHANGED <<caller, reader, heart, ctxDone, closeVars, ack, inSeq, conn, gateVars,
                 handed, hist, faults>>

Tick ==
  /\ heart = "on"
  /\ \/ /\ closing # "closed" /\ beats < MaxOut
        /\ Write([type |-> "admin"])
        /\ beats' = beats + 1 /\ UNCHANGED heart
     \/ WriteError /\ heart' = "done" /\ UNCHANGED beats
  /\ UNCHANGED <<caller, reader, ctxDone, closeVars, ack, inSeq, conn, gateVars, handed,
                 hist, faults>>

HeartStops == ctxDone \/ ClosedCh

StopHeart ==
  /\ heart = "on" /\ HeartStops
  /\ heart' = "done"
  /\ UNCHANGED <<caller, reader, ctxDone, closeVars, ack, writeVars, inSeq, conn, gateVars,
                 handed, hist, faults, beats>>

CancelContext ==
  /\ ~ctxDone /\ ctxDone' = TRUE
  /\ UNCHANGED <<caller, reader, heart, closeVars, ack, writeVars, inSeq, conn, gateVars,
                 handed, hist, faults, beats>>

CallClose ==
  /\ caller = "logged on" /\ ~wanted
  /\ wanted' = TRUE
  /\ UNCHANGED <<caller, reader, heart, ctxDone, closing, ack, writeVars, inSeq, conn,
                 gateVars, handed, hist, faults, beats>>

\* What has reached the reader's buffer can still be read.
StillBuffered == fromGate' \in {<<>>, fromGate}

\* Close, once: Logout if it can be written, then close(closedCh) ...
CloseSignals ==
  /\ wanted /\ closing = "open"
  /\ closing' = "signalled"
  /\ Send([type |-> "logout"])
  /\ UNCHANGED <<caller, reader, heart, ctxDone, wanted, ack, inSeq, conn, gateVars, handed,
                 hist, faults, beats>>

\* Mutant: Close signals the goroutines and leaves the connection open.
LeftOpen == "signalled"

Disconnected == "closed"

\* ... and conn.Close().
CloseDisconnects ==
  /\ closing = "signalled" /\ closing' = Disconnected
  /\ toGate' = <<>> /\ StillBuffered
  /\ UNCHANGED <<caller, reader, heart, ctxDone, wanted, ack, outSeq, failed, inSeq, conn,
                 gateIn, log, handed, hist, faults, beats>>

-----------------------------------------------------------------------------
(* readLoop                                                                 *)

\* The deferred send on logonAckCh: dropped when the channel is full.
ReaderReturns ==
  /\ reader' = [at |-> "done"]
  /\ ack' = IF ack = <<>> THEN <<"closed">> ELSE ack

CheckDone ==
  /\ reader.at = "top"
  /\ IF ctxDone \/ ClosedCh THEN ReaderReturns
     ELSE reader' = [at |-> "read"] /\ UNCHANGED ack
  /\ UNCHANGED <<caller, heart, ctxDone, closeVars, writeVars, inSeq, conn, gateVars, handed,
                 hist, faults, beats>>

\* Mutant: the range of a ResendRequest ends one short.
OneShort(seq) == inSeq .. seq - 2

\* Mutant: the range starts at the last number that was received.
FromLastReceived(seq) == inSeq - 1 .. seq - 1

Missing(seq) == inSeq .. seq - 1

\* Mutant: the message that shows a gap is counted twice.
CountedTwice(seq) == seq + 2

Past(seq) == seq + 1

\* It is noted and the session goes on: the message is dispatched as any other.
Unrecoverable(m) == ~m.dup

\* trackIncomingSeq.  A message without a number, or with 0, is not tracked.
Track(m) ==
  \/ /\ m.seq = 0
     /\ UNCHANGED <<inSeq, writeVars, asked>>
  \/ /\ m.seq = inSeq
     /\ inSeq' = inSeq + 1
     /\ UNCHANGED <<writeVars, asked>>
  \/ /\ m.seq > inSeq
     /\ inSeq' = Past(m.seq)
     /\ asked' = asked \cup Missing(m.seq)
     /\ Send([type |-> "resend", numbers |-> Missing(m.seq)])
  \/ /\ m.seq \in 1..inSeq - 1
     /\ failed' = (failed \/ Unrecoverable(m))
     /\ UNCHANGED <<inSeq, outSeq, toGate, asked>>

Read ==
  /\ reader.at = "read" /\ fromGate # <<>>
  /\ Track(Head(fromGate))
  /\ fromGate' = Tail(fromGate)
  /\ reader' = [at |-> "dispatch", msg |-> Head(fromGate)]
  /\ UNCHANGED <<caller, heart, ctxDone, closeVars, ack, conn, gateIn, log, handed, strayed,
                 faults, beats>>

\* Decode fails: the frame is skipped.
SkipFrame ==
  /\ reader.at = "read" /\ fromGate # <<>> /\ faults < MaxFaults
  /\ faults' = faults + 1
  /\ fromGate' = Tail(fromGate)
  /\ reader' = [at |-> "top"]
  /\ UNCHANGED <<caller, heart, ctxDone, closeVars, ack, writeVars, inSeq, conn, gateIn, log,
                 handed, hist, beats>>

\* ReadMessage fails: the connection is gone, or the framing is lost.
ReadFails ==
  /\ reader.at = "read"
  /\ ~Alive \/ fromGate # <<>>
  /\ ReaderReturns
  /\ failed' = (failed \/ ~ClosedCh)
  /\ UNCHANGED <<caller, heart, ctxDone, closeVars, outSeq, toGate, inSeq, conn, gateVars,
                 handed, hist, faults, beats>>

\* Mutant: a resent message is not handed over.
OnlyFresh(m) == m.type = "app" /\ ~m.dup

ForApp(m) == m.type = "app"

\* dispatch.  The number a SequenceReset will carry is read here, without
\* writeMu; the reply is written in a step of its own.
Dispatch ==
  /\ reader.at = "dispatch"
  /\ LET m == reader.msg
     IN  /\ ack' = IF m.type = "logon" /\ ack = <<>> THEN <<"ok">> ELSE ack
         /\ reader' = CASE m.type = "test"   -> [at |-> "reply", msg |-> [type |-> "admin"]]
                        [] m.type = "resend" ->
                             [at |-> "reply", msg |-> [type |-> "reset", new |-> outSeq]]
                        [] OTHER             -> [at |-> "top"]
         /\ inSeq' = IF m.type = "reset" THEN m.new ELSE inSeq
         /\ wanted' = (wanted \/ m.type = "logout")
         /\ handed' = IF ForApp(m) THEN [handed EXCEPT ![m.seq] = @ + 1] ELSE handed
  /\ UNCHANGED <<caller, heart, ctxDone, closing, writeVars, conn, gateVars, hist, faults, beats>>

Reply ==
  /\ reader.at = "reply"
  /\ Send(reader.msg)
  /\ reader' = [at |-> "top"]
  /\ UNCHANGED <<caller, heart, ctxDone, closeVars, ack, inSeq, conn, gateVars, handed,
                 hist, faults, beats>>

-----------------------------------------------------------------------------
(* The Gate and the connection                                              *)

Live(kind) ==
  /\ Len(log) < MaxIn
  /\ log' = Append(log, kind)
  /\ fromGate' = Append(fromGate, [type |-> kind, seq |-> Len(log) + 1, dup |-> FALSE])

\* What the Gate sends in place of its message k: an application message again,
\* a gap fill for any other.
Resent(k) ==
  IF log[k] = "app" THEN [type |-> "app", seq |-> k, dup |-> TRUE]
  ELSE [type |-> "reset", seq |-> k, dup |-> TRUE, new |-> k + 1]

\* The answer to a ResendRequest, after each number of the log.
AgainUpTo(numbers) ==
  LET upTo[k \in 0..MaxIn] ==
        IF k = 0 THEN <<>>
        ELSE IF k \in numbers THEN Append(upTo[k - 1], Resent(k)) ELSE upTo[k - 1]
  IN  upTo

Again(numbers) == AgainUpTo(numbers)[MaxIn]

GateReads ==
  /\ Alive /\ conn = "up" /\ toGate # <<>>
  /\ toGate' = Tail(toGate)
  /\ gateIn' = gateIn + 1
  /\ LET m == Head(toGate).msg
     IN  CASE m.type = "logon"  -> Live("logon") \/ Live("logout")
           [] m.type = "resend" -> fromGate' = fromGate \o Again(m.numbers) /\ UNCHANGED log
           [] OTHER             -> UNCHANGED <<log, fromGate>>
  /\ UNCHANGED <<caller, reader, heart, ctxDone, closeVars, ack, outSeq, failed, inSeq, conn,
                 handed, hist, faults, beats>>

\* The Gate has answered the Logon.
Answered == \E n \in DOMAIN log : log[n] \in {"logon", "logout"}

GateSends ==
  /\ Alive /\ Answered
  /\ \E kind \in Kinds \ {"logon"} : Live(kind)
  /\ UNCHANGED <<caller, reader, heart, ctxDone, closeVars, ack, writeVars, inSeq, conn,
                 gateIn, handed, hist, faults, beats>>

\* An application message comes once more under its number, without PossDupFlag.
GateStrays ==
  /\ Alive /\ Answered /\ faults < MaxFaults
  /\ faults' = faults + 1 /\ strayed' = TRUE
  /\ \E n \in DOMAIN log :
       /\ log[n] = "app"
       /\ fromGate' = Append(fromGate, [type |-> "app", seq |-> n, dup |-> FALSE])
  /\ UNCHANGED <<caller, reader, heart, ctxDone, closeVars, ack, writeVars, inSeq, conn,
                 gateIn, log, handed, asked, beats>>

\* ... or the next one comes without MsgSeqNum.
GateForgetsNumber ==
  /\ Alive /\ Answered /\ faults < MaxFaults /\ Len(log) < MaxIn
  /\ faults' = faults + 1
  /\ log' = Append(log, "app")
  /\ fromGate' = Append(fromGate, [type |-> "app", seq |-> 0, dup |-> FALSE])
  /\ UNCHANGED <<caller, reader, heart, ctxDone, closeVars, ack, writeVars, inSeq, conn,
                 gateIn, handed, hist, beats>>

\* The Gate reads no more, and what is written to it fills the buffers between.  After
\* close(closedCh) it does not matter: conn.Close() is next and makes writes fail.
Stall ==
  /\ conn = "up" /\ toGate # <<>> /\ closing = "open"
  /\ conn' = "stalled"
  /\ UNCHANGED <<caller, reader, heart, ctxDone, closeVars, ack, writeVars, inSeq, gateVars,
                 handed, hist, faults, beats>>

Break ==
  /\ conn # "broken" /\ conn' = "broken"
  /\ toGate' = <<>> /\ StillBuffered
  /\ UNCHANGED <<caller, reader, heart, ctxDone, closeVars, ack, outSeq, failed, inSeq,
                 gateIn, log, handed, hist, faults, beats>>

-----------------------------------------------------------------------------
\* Dial, and SeedSeqNums if there was a session before it on the same day, of whose
\* messages the client has processed the first got; the others count as lost.  With
\* ResetSeqNumFlag both sides start from 1, as with no session before.
Seeded(sent, got) ==
  /\ log = [n \in 1..sent |-> "app"] /\ gateIn = sent + 1
  /\ outSeq = gateIn /\ inSeq = got + 1
  /\ handed = [n \in 0..MaxIn |-> IF n \in 1..got THEN 1 ELSE 0]
  /\ faults = sent - got

Init ==
  /\ caller = "new" /\ reader = [at |-> "off"] /\ heart = "off"
  /\ ctxDone = FALSE /\ closing = "open" /\ wanted = FALSE /\ ack = <<>>
  /\ \E sent \in 0..MaxBefore : \E got \in 0..sent : sent - got <= MaxFaults /\ Seeded(sent, got)
  /\ failed = FALSE /\ conn = "up" /\ toGate = <<>> /\ fromGate = <<>>
  /\ asked = {} /\ strayed = FALSE /\ beats = 0

Caller == StartLogon \/ SendLogon \/ AwaitLogon
Closer == CloseSignals \/ CloseDisconnects
Reader == CheckDone \/ Read \/ SkipFrame \/ ReadFails \/ Dispatch \/ Reply
Heart  == Tick \/ StopHeart
Client == Caller \/ SendApp \/ CancelContext \/ CallClose \/ Closer \/ Reader \/ Heart
Gate   == GateReads \/ GateSends \/ GateStrays \/ GateForgetsNumber \/ Stall \/ Break

Next == Client \/ Gate

Spec == Init /\ [][Next]_vars

\* The scheduler runs every goroutine that can go on; the Gate and the network
\* owe nothing.
FairSpec == Spec /\ WF_vars(Caller) /\ WF_vars(Closer) /\ WF_vars(Reader) /\ WF_vars(Heart)

-----------------------------------------------------------------------------
(* Properties                                                               *)

Frames == [type : Kinds, seq : 0..MaxIn, dup : {FALSE}]
          \cup [type : {"app"}, seq : 1..MaxIn, dup : {TRUE}]
          \cup [type : {"reset"}, seq : 1..MaxIn, dup : {TRUE}, new : 1..MaxIn + 1]

TypeOK ==
  /\ caller \in {"new", "send", "await", "logged on", "refused"}
  /\ reader.at \in {"off", "top", "read", "dispatch", "reply", "done"}
  /\ heart \in {"off", "on", "done"} /\ conn \in {"up", "stalled", "broken"}
  /\ closing \in {"open", "signalled", "closed"}
  /\ ctxDone \in BOOLEAN /\ wanted \in BOOLEAN /\ failed \in BOOLEAN
  /\ ack \in {<<>>, <<"ok">>, <<"closed">>}
  /\ outSeq \in Nat \ {0} /\ gateIn \in Nat \ {0} /\ inSeq \in 1..MaxIn + 1
  /\ log \in Seq(Kinds) /\ fromGate \in Seq(Frames)
  /\ handed \in [0..MaxIn -> Nat] /\ asked \subseteq 1..MaxIn /\ strayed \in BOOLEAN

\* The Gate receives the numbers 1, 2, 3, ... in the order of writing, from
\* however many goroutines the messages come, and the next write continues them.
NumberedInOrder ==
  Alive => /\ \A i \in DOMAIN toGate : toGate[i].seq = gateIn + i - 1
           /\ outSeq = gateIn + Len(toGate)

\* A gap is asked for (session.go:247-249): an application message that the
\* session's counter has passed was handed to appHandler, is being handled, or
\* is among the numbers a ResendRequest asked for.
NothingSkipped ==
  \A n \in DOMAIN log :
    log[n] = "app" /\ n < inSeq =>
      \/ handed[n] > 0 \/ n \in asked
      \/ reader.at = "dispatch" /\ reader.msg.seq = n

\* ... and is made good: with at most one frame lost and nothing under way,
\* every application message below the counter has reached appHandler.
Quiet == Alive /\ toGate = <<>> /\ fromGate = <<>> /\ reader.at = "read"

GapIsMadeGood ==
  Quiet /\ faults <= 1 => \A n \in DOMAIN log : log[n] = "app" /\ n < inSeq => handed[n] > 0

\* Err tells of a fatal error only (session.go:183, 247-250).  As long as the Gate
\* repeats no message without PossDupFlag, no number is too low, whatever was lost,
\* resent, filled in or came without a number: the counter never overtakes a message
\* that is still to come, although a gap moves it on and a SequenceReset moves it back.
NoFalseAlarm == failed => strayed \/ ~Alive \/ reader.at = "done"

\* Close, a failed Logon and the Gate's Logout end the session's goroutines for
\* good, whatever the Gate does from then on - unless it stops reading before the
\* Logout is written: that write has no deadline, and closedCh and the connection are
\* only closed after it (session.go:167-177).
ClosedSessionStops ==
  wanted ~> [](conn = "stalled" \/ (reader.at \in {"off", "done"} /\ heart # "on"))

\* "PossDupFlag=Y resend of an already-processed message: ignore"
\* (session.go:278): from a Gate that sets the flag, no message is handed to
\* appHandler twice.
ResentIsIgnored == ~strayed => \A n \in DOMAIN handed \ {0} : handed[n] <= 1

\* "Both goroutines exit when ctx is canceled or the connection errors"
\* (session.go:21-22).
BothGoroutinesExit ==
  (caller = "logged on" /\ (ctxDone \/ reader.at = "done")) ~>
     (reader.at = "done" /\ heart = "done")
=============================================================================
