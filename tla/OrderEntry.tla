------------------------------ MODULE OrderEntry ------------------------------
(***************************************************************************)
(* Order entry: the calls of forts/trading.go, the three correlators of    *)
(* forts/id-mapping.go that pair a request with its reply, and the handler *)
(* of the session's reader goroutine.                                      *)
(*                                                                         *)
(* Every call runs on a goroutine of its own.  It registers a channel      *)
(* under its ClOrdID, sends the request and waits for the channel or for   *)
(* its context.  The reader updates the order cache and the position,      *)
(* takes the registration, gives the result to the channel and fans the    *)
(* order out.  A step is what runs under one lock or blocks.               *)
(*                                                                         *)
(* The exchange is modelled from how the code uses it: it answers requests *)
(* in order, echoes the ClOrdID of the request that last named the order,  *)
(* and reports fills and cancels of its own accord.  What the reader hands *)
(* over arrives in order; the session may hand over a message it has seen  *)
(* before (internal/fix/session.go:242-243), and the connection may break. *)
(***************************************************************************)
EXTENDS Naturals, Sequences

CONSTANTS Calls,         \* the goroutines that each make one call
          OwnIds,        \* ClOrdIDs a caller may choose itself
          MaxOrders,     \* bound on the orders the exchange accepts or rejects
          MaxUnasked,    \* bound on fills, cancels nobody asked for and messages
                         \* that are handed over again, taken together
          WatchCap       \* capacity of a subscriber's channel (64 in the code)

ASSUME CapPositive   == WatchCap \in Nat \ {0}
ASSUME OwnIdsApart   == OwnIds \cap Nat = {}
ASSUME BoundsNatural == MaxOrders \in Nat /\ MaxUnasked \in Nat

Ops         == {"create", "modify", "cancel", "masscancel"}
Correlators == {"order", "cancel", "mass"}
OrderNos    == 1..MaxOrders
Ids         == Nat \cup OwnIds

\* Which correlator a call registers with.
CorrelatorOf(o) == IF o = "cancel" THEN "cancel" ELSE IF o = "masscancel" THEN "mass" ELSE "order"

\* The statuses GetOpenOrders leaves out.
Closed == {"filled", "canceled", "rejected"}

Statuses == Closed \cup {"new", "replaced", "partial"}
Execs    == {"new", "rejected", "replaced", "canceled", "trade"}

\* What the exchange sends: "to" is the call it answers, for the history only.
Report ==
  [type : {"exec"}, exec : Execs, status : Statuses, id : Ids, order : OrderNos, to : Calls]
  \cup [type : {"reject", "mass"}, id : Ids, to : Calls]

\* The result<T> of a channel, or what the call returned: a report, the error of
\* the context or of the send, an error before anything was sent, or the zero
\* value with no error.
Result == Report \cup [type : {"ctx", "unsent", "invalid", "nothing"}]
Nothing == [type |-> "nothing"]

VARIABLES counter,      \* clOrdIDGenerator.counter
          pc,           \* where each call is
          op, id,       \* the operation and the ClOrdID of each call
          pending,      \* the pending map of each correlator: ClOrdID -> call
          slot,         \* the channel (capacity 1) of each call
          giving,       \* whose channel a failed sender gives Nothing to
          ret,          \* what each call returned
          reader,       \* what the reader goroutine is doing
          openOrders,   \* the cache: OrderID -> status
          position,     \* the net of the fills applied (positionTracker)
          watch,        \* the updates in a WatchOpenOrders subscriber's channel
          up,           \* the connection works
          requests,     \* sent, not yet answered
          reports,      \* under way to the reader
          orders,       \* the exchange's orders, by number
          traded, cancels, repeats   \* how often each has happened

callVars     == <<counter, pc, op, id, giving, ret>>
exchangeVars == <<requests, reports, orders, traded, cancels, repeats, up>>
cacheVars    == <<openOrders, position, watch>>
vars == <<counter, pc, op, id, pending, slot, giving, ret, reader, openOrders,
          position, watch, up, requests, reports, orders, traded, cancels, repeats>>

Idle == [at |-> "read"]

Init ==
  /\ counter = 0
  /\ pc = [c \in Calls |-> "idle"]
  /\ op = [c \in Calls |-> "create"]
  /\ id = [c \in Calls |-> 0]
  /\ pending = [k \in Correlators |-> <<>>]
  /\ slot = [c \in Calls |-> <<>>]
  /\ giving = [c \in Calls |-> c]
  /\ ret = [c \in Calls |-> <<>>]
  /\ reader = Idle
  /\ openOrders = <<>> /\ position = 0 /\ watch = 0
  /\ up = TRUE
  /\ requests = <<>> /\ reports = <<>> /\ orders = <<>>
  /\ traded = 0 /\ cancels = 0 /\ repeats = 0

-----------------------------------------------------------------------------
(* The correlator                                                           *)

Put(m, k, v) == [x \in DOMAIN m \cup {k} |-> IF x = k THEN v ELSE m[x]]
Drop(m, k)   == [x \in DOMAIN m \ {k} |-> m[x]]

\* Mutant: Resolve leaves the registration in place.
LeaveRegistered(k, i) == pending

\* delete(c.pending, clOrdID), in Resolve and when a wait is given up.
Unregister(k, i) == [pending EXCEPT ![k] = Drop(@, i)]

Registered(k, i) == i \in DOMAIN pending[k]

-----------------------------------------------------------------------------
(* A call                                                                   *)

Goto(c, to) == pc' = [pc EXCEPT ![c] = to]

Return(c, r) == Goto(c, "done") /\ ret' = [ret EXCEPT ![c] = <<r>>]

\* An early return: no session, quantity, price or order identifier missing.
Refuse(c) ==
  /\ pc[c] = "idle"
  /\ Return(c, [type |-> "invalid"])
  /\ UNCHANGED <<counter, op, id, pending, slot, giving, reader, cacheVars, exchangeVars>>

\* Mutant: the counter is read after another goroutine may have read it too.
ReadThenAdd == IF counter = 0 THEN 1 ELSE counter

\* clOrdIDGenerator.Next.
NextId == counter + 1

\* The call up to and with Register.  The ClOrdID is the caller's or the
\* generator's (CancelAllOrders always generates one); a registration under the
\* same ClOrdID is overwritten.
Register(c) ==
  /\ pc[c] = "idle"
  /\ \E o \in Ops :
       /\ op' = [op EXCEPT ![c] = o]
       /\ \/ /\ counter' = NextId
             /\ id' = [id EXCEPT ![c] = NextId]
          \/ /\ o # "masscancel"
             /\ \E own \in OwnIds : id' = [id EXCEPT ![c] = own]
             /\ UNCHANGED counter
       /\ pending' = [pending EXCEPT ![CorrelatorOf(o)] = Put(@, id'[c], c)]
  /\ Goto(c, "send")
  /\ UNCHANGED <<slot, giving, ret, reader, cacheVars, exchangeVars>>

\* SendApp.  A write to a broken connection may still succeed; it goes nowhere.
SendRequest(c) ==
  /\ pc[c] = "send"
  /\ \/ up /\ requests' = Append(requests, c) /\ Goto(c, "wait")
     \/ ~up /\ UNCHANGED requests /\ \E to \in {"wait", "unsent"} : Goto(c, to)
  /\ UNCHANGED <<counter, op, id, pending, slot, giving, ret, reader, cacheVars,
                 reports, orders, traded, cancels, repeats, up>>

\* The send failed: Resolve(clOrdID, nil, nil) takes whatever registration there
\* is and gives it the zero result.
TakeBack(c) ==
  /\ pc[c] = "unsent"
  /\ LET k == CorrelatorOf(op[c])
     IN  IF Registered(k, id[c])
         THEN /\ giving' = [giving EXCEPT ![c] = pending[k][id[c]]]
              /\ pending' = Unregister(k, id[c])
              /\ Goto(c, "give")
              /\ UNCHANGED ret
         ELSE Return(c, [type |-> "unsent"]) /\ UNCHANGED <<giving, pending>>
  /\ UNCHANGED <<counter, op, id, slot, reader, cacheVars, exchangeVars>>

GiveBack(c) ==
  /\ pc[c] = "give"
  /\ slot[giving[c]] = <<>>
  /\ slot' = [slot EXCEPT ![giving[c]] = <<Nothing>>]
  /\ giving' = [giving EXCEPT ![c] = c]
  /\ Return(c, [type |-> "unsent"])
  /\ UNCHANGED <<counter, op, id, pending, reader, cacheVars, exchangeVars>>

\* Wait: the result arrives.
Receive(c) ==
  /\ pc[c] = "wait"
  /\ slot[c] # <<>>
  /\ Return(c, Head(slot[c]))
  /\ slot' = [slot EXCEPT ![c] = <<>>]
  /\ UNCHANGED <<counter, op, id, pending, giving, reader, cacheVars, exchangeVars>>

\* Wait: the context is done first, or both are and select picks it.
Expire(c) ==
  /\ pc[c] = "wait"
  /\ Goto(c, "expired")
  /\ UNCHANGED <<counter, op, id, pending, slot, giving, ret, reader, cacheVars, exchangeVars>>

\* Mutant: a wait that is given up leaves its registration behind.
KeepAbandoned(c) == pending

\* Whatever call the registration is for by now.
Abandon(c) == Unregister(CorrelatorOf(op[c]), id[c])

GiveUp(c) ==
  /\ pc[c] = "expired"
  /\ pending' = Abandon(c)
  /\ Return(c, [type |-> "ctx"])
  /\ UNCHANGED <<counter, op, id, slot, giving, reader, cacheVars, exchangeVars>>

-----------------------------------------------------------------------------
(* The reader: handleFIXAppMessage                                          *)

\* Mutant: the cache is keyed by the ClOrdID.
KeyedByClOrdID(m) == Put(openOrders, m.id, m.status)

\* Mutant: only orders that are still open are kept in the cache.
OnlyOpen(m) == IF m.status \in Closed THEN openOrders ELSE Put(openOrders, m.order, m.status)

\* orderInfoFromExecutionReport: of what is kept about an order, the status.
InfoOf(m) == m.status

\* c.openOrders[info.OrderID] = info.
Cache(m) == Put(openOrders, m.order, InfoOf(m))

\* Mutant: every execution report counts as a fill.
FillAny(m) == 1

\* ApplyFill only for ExecType=Trade.
Filled(m) == IF m.exec = "trade" THEN 1 ELSE 0

\* Mutant: a rejected cancel/replace is looked for among the cancels only.
CancelsOnly(m) == IF m.type = "exec" THEN IF m.exec = "canceled" THEN <<"cancel">> ELSE <<"order">>
                  ELSE IF m.type = "reject" THEN <<"cancel">>
                  ELSE <<"mass">>

\* The correlators Resolve is called on, in order, until one has the ClOrdID.
Lookup(m) == IF m.type = "exec" THEN IF m.exec = "canceled" THEN <<"cancel">> ELSE <<"order">>
             ELSE IF m.type = "reject" THEN <<"cancel", "order">>
             ELSE <<"mass">>

\* A message is read; an execution report updates the cache and the position.
Read ==
  /\ reader = Idle
  /\ reports # <<>>
  /\ reports' = Tail(reports)
  /\ LET m == Head(reports)
     IN  /\ reader' = [at |-> "take", msg |-> m, in |-> Lookup(m)]
         /\ IF m.type = "exec"
            THEN openOrders' = Cache(m) /\ position' = position + Filled(m)
            ELSE UNCHANGED <<openOrders, position>>
  /\ UNCHANGED <<callVars, pending, slot, watch, requests, orders, traded, cancels, repeats, up>>

\* After Resolve: execution reports are fanned out, the rest is done.
Resolved(m) == IF m.type = "exec" THEN [at |-> "fanout", msg |-> m] ELSE Idle

\* Resolve, under the mutex: take the registration away.
Take ==
  /\ reader.at = "take"
  /\ LET k == Head(reader.in)
         i == reader.msg.id
     IN  IF Registered(k, i)
         THEN /\ pending' = Unregister(k, i)
              /\ reader' = [at |-> "give", msg |-> reader.msg, to |-> pending[k][i]]
         ELSE /\ reader' = IF Tail(reader.in) = <<>> THEN Resolved(reader.msg)
                           ELSE [at |-> "take", msg |-> reader.msg, in |-> Tail(reader.in)]
              /\ UNCHANGED pending
  /\ UNCHANGED <<callVars, slot, cacheVars, exchangeVars>>

\* Resolve, after the mutex: ch <- result blocks while the channel is full.
Give ==
  /\ reader.at = "give"
  /\ slot[reader.to] = <<>>
  /\ slot' = [slot EXCEPT ![reader.to] = <<reader.msg>>]
  /\ reader' = Resolved(reader.msg)
  /\ UNCHANGED <<callVars, pending, cacheVars, exchangeVars>>

\* fanOutOrder: a subscriber whose channel is full misses the update.
FanOut ==
  /\ reader.at = "fanout"
  /\ watch' = IF watch < WatchCap THEN watch + 1 ELSE watch
  /\ reader' = Idle
  /\ UNCHANGED <<callVars, pending, slot, openOrders, position, exchangeVars>>

\* The subscriber takes an update.
Consume ==
  /\ watch > 0
  /\ watch' = watch - 1
  /\ UNCHANGED <<callVars, pending, slot, reader, openOrders, position, exchangeVars>>

-----------------------------------------------------------------------------
(* The exchange and the connection                                          *)

Unasked == traded + cancels + repeats < MaxUnasked

Open(n) == n \in DOMAIN orders /\ orders[n].status \notin Closed

Exec(exec, status, c, i, n) ==
  [type |-> "exec", exec |-> exec, status |-> status, id |-> i, order |-> n, to |-> c]

\* Order n now has this status and was last named by call c.
Says(exec, status, c, n) ==
  /\ orders' = Put(orders, n, [status |-> status, call |-> c])
  /\ reports' = Append(reports, Exec(exec, status, c, id[c], n))

\* Refused(c): an Order Cancel Reject, or a rejected mass cancel.
Answer(c, type) ==
  /\ reports' = Append(reports, [type |-> type, id |-> id[c], to |-> c])
  /\ UNCHANGED orders

XAnswer ==
  /\ up /\ requests # <<>>
  /\ requests' = Tail(requests)
  /\ LET c == Head(requests)
         fresh == Len(orders) + 1
     IN  CASE op[c] = "create" ->
                /\ fresh \in OrderNos
                /\ Says("new", "new", c, fresh) \/ Says("rejected", "rejected", c, fresh)
           [] op[c] = "modify" ->
                \/ Answer(c, "reject")
                \/ \E n \in OrderNos : Open(n) /\ Says("replaced", "replaced", c, n)
           [] op[c] = "cancel" ->
                \/ Answer(c, "reject")
                \/ \E n \in OrderNos : Open(n) /\ Says("canceled", "canceled", c, n)
           [] op[c] = "masscancel" -> Answer(c, "mass")
  /\ UNCHANGED <<callVars, pending, slot, reader, cacheVars, traded, cancels, repeats, up>>

XTrade(n) ==
  /\ up /\ Open(n) /\ Unasked
  /\ traded' = traded + 1
  /\ \E s \in {"partial", "filled"} : Says("trade", s, orders[n].call, n)
  /\ UNCHANGED <<callVars, pending, slot, reader, cacheVars, requests, cancels, repeats, up>>

\* The rest of an immediate-or-cancel order, or an order of a mass cancel.
XCancel(n) ==
  /\ up /\ Open(n) /\ Unasked
  /\ cancels' = cancels + 1
  /\ Says("canceled", "canceled", orders[n].call, n)
  /\ UNCHANGED <<callVars, pending, slot, reader, cacheVars, requests, traded, repeats, up>>

\* The session hands a message over that it hands over again later.
Resend ==
  /\ up /\ reports # <<>> /\ Unasked
  /\ repeats' = repeats + 1
  /\ reports' = Append(reports, Head(reports))
  /\ UNCHANGED <<callVars, pending, slot, reader, cacheVars, requests, orders, traded, cancels, up>>

\* The connection breaks: what is under way either way is lost.
Break ==
  /\ up
  /\ up' = FALSE
  /\ requests' = <<>> /\ reports' = <<>>
  /\ UNCHANGED <<callVars, pending, slot, reader, cacheVars, orders, traded, cancels, repeats>>

-----------------------------------------------------------------------------
CallStep(c) == \/ Refuse(c) \/ Register(c) \/ SendRequest(c) \/ TakeBack(c)
               \/ GiveBack(c) \/ Receive(c) \/ Expire(c) \/ GiveUp(c)

ReaderStep == Read \/ Take \/ Give \/ FanOut

Environment == \/ XAnswer \/ Resend \/ Break
               \/ \E n \in OrderNos : XTrade(n) \/ XCancel(n)

Next == ReaderStep \/ Consume \/ Environment \/ \E c \in Calls : CallStep(c)

Spec == Init /\ [][Next]_vars

\* The scheduler runs the reader and the calls.  Nothing makes a context expire
\* and nothing makes the subscriber read.
FairSpec ==
  /\ Spec
  /\ WF_vars(ReaderStep)
  /\ \A c \in Calls : WF_vars(TakeBack(c) \/ GiveBack(c) \/ Receive(c) \/ GiveUp(c))
-----------------------------------------------------------------------------
(* Properties                                                               *)

Readers ==
  {Idle}
  \cup [at : {"take"}, msg : Report, in : Seq(Correlators)]
  \cup [at : {"give"}, msg : Report, to : Calls]
  \cup [at : {"fanout"}, msg : {m \in Report : m.type = "exec"}]

\* A Go map from keys to values.
IsMap(m, keys, values) == DOMAIN m \subseteq keys /\ m \in [DOMAIN m -> values]

TypeOK ==
  /\ counter \in Nat
  /\ pc \in [Calls -> {"idle", "send", "unsent", "give", "wait", "expired", "done"}]
  /\ op \in [Calls -> Ops] /\ id \in [Calls -> Ids]
  /\ DOMAIN pending = Correlators
  /\ \A k \in Correlators : IsMap(pending[k], Ids, Calls)
  /\ slot \in [Calls -> Seq(Result)] /\ ret \in [Calls -> Seq(Result)]
  /\ giving \in [Calls -> Calls]
  /\ reader \in Readers
  /\ IsMap(openOrders, OrderNos, Statuses)
  /\ position \in Nat
  /\ watch \in 0..WatchCap
  /\ up \in BOOLEAN
  /\ requests \in Seq(Calls) /\ reports \in Seq(Report)
  /\ orders \in Seq([status : Statuses, call : Calls])
  /\ {traded, cancels, repeats} \subseteq Nat

\* A channel of capacity 1 is enough (id-mapping.go:64, 85): neither the reader
\* nor a failed sender ever blocks in Resolve, however replies repeat, contexts
\* expire and ClOrdIDs are used again.
ResolveNeverBlocks ==
  /\ reader.at = "give" => slot[reader.to] = <<>>
  /\ \A c \in Calls : pc[c] = "give" => slot[giving[c]] = <<>>

\* The registration "can't leak" (id-mapping.go:89-90): once every call has
\* returned, whichever way, no correlator holds a registration.
NothingLeaks ==
  (\A c \in Calls : pc[c] \in {"idle", "done"}) =>
     \A k \in Correlators : DOMAIN pending[k] = {}

\* What a call may be answered with (trading.go:41-43, 90-91, 129-131, 169-172).
Answers(o) ==
  CASE o = "create"     -> {"new", "rejected"}
    [] o = "modify"     -> {"replaced", "reject"}
    [] o = "cancel"     -> {"canceled", "reject"}
    [] o = "masscancel" -> {"mass"}

\* A call whose ClOrdID was generated returns the answer to its own request, of
\* a kind its documentation names, and never the zero result without an error.
OwnAnswer ==
  \A c \in Calls :
    pc[c] = "done" /\ id[c] \notin OwnIds =>
      LET r == Head(ret[c])
      IN  CASE r.type = "exec"               -> r.to = c /\ r.exec \in Answers(op[c])
            [] r.type \in {"reject", "mass"} -> r.to = c /\ r.type \in Answers(op[c])
            [] OTHER                         -> r.type # "nothing"

\* The reader updates the cache before it resolves the call: what a call
\* returned is in the cache by then, and an order it returned as closed is not
\* listed by GetOpenOrders (unless an older message was handed over again).
ReturnedIsCached ==
  \A c \in Calls :
    LET r == Head(ret[c])
    IN  pc[c] = "done" /\ r.type = "exec" =>
          /\ r.order \in DOMAIN openOrders
          /\ r.status \in Closed /\ repeats = 0 => openOrders[r.order] \in Closed

\* GetOpenOrders "always reflects the latest state regardless of channel
\* backpressure" (trading.go:239-240), and a fill is booked exactly once: with
\* every report read and none of them twice, the cache is the exchange's.
CacheIsCurrent ==
  up /\ reports = <<>> /\ repeats = 0 =>
    /\ openOrders = [n \in DOMAIN orders |-> orders[n].status]
    /\ position = traded

\* "Must be called BEFORE the FIX message is sent" (id-mapping.go:61-62): the
\* answer to a call that waits under a generated ClOrdID reaches it, whatever
\* becomes of its context, unless the connection breaks.
Answered(c) ==
  \E i \in DOMAIN reports :
    LET m == reports[i] IN m.to = c /\ (m.type = "exec" => m.exec \in Answers(op[c]))

AnswerReturns ==
  \A c \in Calls :
    (id[c] \notin OwnIds /\ pc[c] = "wait" /\ Answered(c)) ~> (pc[c] = "done" \/ ~up)

\* The right to a call's channel: whoever removes its registration under the mutex
\* has it, until the result is in the channel.
IsRegistered(c) ==
  LET k == CorrelatorOf(op[c]) IN Registered(k, id[c]) /\ pending[k][id[c]] = c

IsGiven(c) == \/ reader.at = "give" /\ reader.to = c
              \/ \E d \in Calls : pc[d] = "give" /\ giving[d] = c

RightTo(c) == IF pc[c] = "idle" THEN "unasked"
              ELSE IF IsRegistered(c) THEN "free"
              ELSE IF IsGiven(c) THEN "claimed" ELSE "gone"

rights == [c \in Calls |-> RightTo(c)]

Errors == [type : {"ctx", "unsent", "invalid"}]

Promise == INSTANCE Rendezvous WITH right <- rights, mail <- slot, answer <- ret

\* The correlators keep the promise (id-mapping.go:44-102): one result at most is
\* ever left for a call, by the one who took its registration, and the call returns
\* once, with that result or an error of its own, whatever identifiers are used
\* again, whichever contexts end and whoever answers twice.
ImplementsRendezvous == Promise!Spec
=============================================================================
