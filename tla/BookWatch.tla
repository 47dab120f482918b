------------------------------- MODULE BookWatch -------------------------------
(***************************************************************************)
(* How WatchOrderBook (forts/stream.go:110-151, 235-249) and the SIMBA     *)
(* listener (internal/simba/listener.go) run and stop: the listener's      *)
(* reader calls the packet handler, which offers each book to the channel  *)
(* the caller reads; two goroutines wait for the context, one in Run that  *)
(* closes the socket, one that closes the socket and the channel.          *)
(***************************************************************************)
EXTENDS Naturals

CONSTANTS Cap,          \* capacity of the channel (32 in the code)
          MaxPackets    \* bound on the packets of the feed

VARIABLES ctxDone,   \* the caller's context is done
          socket,    \* "open" or "closed"
          once,      \* closeListener: "idle", "entered" by somebody, "done"
          out,       \* updates in the channel
          outClosed, \* the channel is closed
          reader,    \* "reading", "handling", "offering", "leaving", "done", "panicked"
          packets    \* how many have arrived

vars == <<ctxDone, socket, once, out, outClosed, reader, packets>>

Init ==
  /\ ctxDone = FALSE /\ socket = "open" /\ once = "idle"
  /\ out = 0 /\ outClosed = FALSE
  /\ reader = "reading" /\ packets = 0

Cancel ==
  /\ ~ctxDone /\ ctxDone' = TRUE
  /\ UNCHANGED <<socket, once, out, outClosed, reader, packets>>

\* The goroutine of Run closes the socket only.
RunCloses ==
  /\ ctxDone /\ socket = "open" /\ socket' = "closed"
  /\ UNCHANGED <<ctxDone, once, out, outClosed, reader, packets>>

\* closeListener, once, by the goroutine that waits for the context or by the
\* reader when Run has returned: the socket first, then the channel.
EnterClose ==
  /\ once = "idle" /\ (ctxDone \/ reader = "leaving")
  /\ once' = "entered" /\ socket' = "closed"
  /\ UNCHANGED <<ctxDone, out, outClosed, reader, packets>>

CloseOut ==
  /\ once = "entered" /\ once' = "done" /\ outClosed' = TRUE
  /\ UNCHANGED <<ctxDone, socket, out, reader, packets>>

\* The second caller of a sync.Once waits for the first.
Leave ==
  /\ reader = "leaving" /\ once = "done"
  /\ reader' = "done"
  /\ UNCHANGED <<ctxDone, socket, once, out, outClosed, packets>>

\* ReadFromUDP: a packet, an error of a socket that is closed, or another error.
Packet ==
  /\ reader = "reading" /\ socket = "open" /\ packets < MaxPackets
  /\ packets' = packets + 1 /\ reader' = "handling"
  /\ UNCHANGED <<ctxDone, socket, once, out, outClosed>>

ReadFails ==
  /\ reader = "reading" /\ reader' = "leaving"
  /\ UNCHANGED <<ctxDone, socket, once, out, outClosed, packets>>

\* handleSIMBAPacket: a packet of another instrument changes nothing.
Handle ==
  /\ reader = "handling" /\ reader' \in {"reading", "offering"}
  /\ UNCHANGED <<ctxDone, socket, once, out, outClosed, packets>>

\* emitOrderBookUpdate: select with a default still panics on a closed channel.
Emit ==
  /\ reader = "offering"
  /\ reader' = IF outClosed THEN "panicked" ELSE "reading"
  /\ out' = IF ~outClosed /\ out < Cap THEN out + 1 ELSE out
  /\ UNCHANGED <<ctxDone, socket, once, outClosed, packets>>

Consume ==
  /\ out > 0 /\ out' = out - 1
  /\ UNCHANGED <<ctxDone, socket, once, outClosed, reader, packets>>

Next == Cancel \/ RunCloses \/ EnterClose \/ CloseOut \/ Leave \/ Packet \/ ReadFails
        \/ Handle \/ Emit \/ Consume

Spec == Init /\ [][Next]_vars

\* An update is either queued or dropped, "same contract as
\* WatchOpenOrders/WatchPositions" (stream.go:244-247): the offer itself never
\* fails, also when the context ends meanwhile.
OfferNeverFails == reader # "panicked"
=============================================================================
