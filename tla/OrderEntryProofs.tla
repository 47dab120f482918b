--------------------------- MODULE OrderEntryProofs ---------------------------
(***************************************************************************)
(* For any number of calls, orders and fills, with ClOrdIDs used again at  *)
(* will and messages handed over again at will: Resolve never blocks and   *)
(* no registration outlives its call; a call whose ClOrdID was generated   *)
(* returns the answer to its own request; the cache is what the exchange   *)
(* said.                                                                   *)
(*                                                                         *)
(* None is inductive.  What makes the first two hold is that the           *)
(* registration of a call is the only right to its channel: while it is in *)
(* the map nothing has been put into the channel and nobody is about to,   *)
(* and taking it out under the mutex makes one goroutine the only one that *)
(* will.  The third rests on the order of the messages: the answer to a    *)
(* request comes before any trade of the order, and so takes the           *)
(* registration; the fourth, on the last report about an order being the   *)
(* one with its status.                                                    *)
(***************************************************************************)
EXTENDS OrderEntry, SequenceTheorems, FiniteSetTheorems, TLAPS

PCs == {"idle", "send", "unsent", "give", "wait", "expired", "done"}

\* Where a call is while its registration may be in a map.
Holding == {"send", "wait", "unsent", "expired"}

Taking == reader.at = "take" => reader.in \in Seq(Correlators) /\ reader.in # <<>>

Shape ==
  /\ pc \in [Calls -> PCs] /\ op \in [Calls -> Ops] /\ DOMAIN id = Calls
  /\ DOMAIN pending = Correlators /\ DOMAIN slot = Calls
  /\ giving \in [Calls -> Calls]
  /\ Taking

\* A registration is filed under its call's correlator and ClOrdID, its channel
\* is empty, and nobody else has the right to fill it.
RegistrationOf(k, i, c) ==
  /\ c \in Calls /\ CorrelatorOf(op[c]) = k /\ id[c] = i
  /\ pc[c] \in Holding
  /\ slot[c] = <<>>
  /\ ~(reader.at = "give" /\ reader.to = c)
  /\ \A d \in Calls : ~(pc[d] = "give" /\ giving[d] = c)

Registrations ==
  \A k \in Correlators : \A i \in DOMAIN pending[k] : RegistrationOf(k, i, pending[k][i])

\* The reader gives to an empty channel that no failed sender gives to.
ReaderGives ==
  reader.at = "give" =>
    /\ reader.to \in Calls /\ slot[reader.to] = <<>> /\ pc[reader.to] # "idle"
    /\ \A d \in Calls : ~(pc[d] = "give" /\ giving[d] = reader.to)

\* A failed sender gives to an empty channel that no other one gives to.
SendersGive ==
  \A d \in Calls : pc[d] = "give" =>
    /\ slot[giving[d]] = <<>> /\ pc[giving[d]] # "idle"
    /\ \A e \in Calls : pc[e] = "give" /\ giving[e] = giving[d] => e = d

Untouched == \A c \in Calls : pc[c] = "idle" => slot[c] = <<>>

IInv == Shape /\ Registrations /\ ReaderGives /\ SendersGive /\ Untouched

\* What IInv looks at.
core == <<pc, op, id, pending, slot, giving, reader>>

LEMMA CorrelatorIsOne == \A o : CorrelatorOf(o) \in Correlators
  BY DEF CorrelatorOf, Correlators

LEMMA InitInv == Init => IInv
  BY DEF Init, IInv, Shape, Taking, Registrations, ReaderGives, SendersGive, Untouched, Idle,
         PCs, Ops, Correlators

LEMMA CoreUnchanged == IInv /\ UNCHANGED core => IInv'
  BY DEF core, IInv, Shape, Taking, Registrations, RegistrationOf, ReaderGives, SendersGive,
         Untouched

LEMMA RefuseInv == ASSUME IInv, NEW c \in Calls, Refuse(c) PROVE IInv'
  BY CorrelatorIsOne
  DEF IInv, Shape, Taking, Registrations, RegistrationOf, ReaderGives, SendersGive,
      Untouched, PCs, Holding, Goto, Return, Refuse

LEMMA SendRequestInv == ASSUME IInv, NEW c \in Calls, SendRequest(c) PROVE IInv'
  BY CorrelatorIsOne
  DEF IInv, Shape, Taking, Registrations, RegistrationOf, ReaderGives, SendersGive,
      Untouched, PCs, Holding, Goto, Return, SendRequest

LEMMA ExpireInv == ASSUME IInv, NEW c \in Calls, Expire(c) PROVE IInv'
  BY CorrelatorIsOne
  DEF IInv, Shape, Taking, Registrations, RegistrationOf, ReaderGives, SendersGive,
      Untouched, PCs, Holding, Goto, Return, Expire

LEMMA ReceiveInv == ASSUME IInv, NEW c \in Calls, Receive(c) PROVE IInv'
  BY CorrelatorIsOne
  DEF IInv, Shape, Taking, Registrations, RegistrationOf, ReaderGives, SendersGive,
      Untouched, PCs, Holding, Goto, Return, Receive

LEMMA RegisterInv == ASSUME IInv, NEW c \in Calls, Register(c) PROVE IInv'
  BY CorrelatorIsOne
  DEF IInv, Shape, Taking, Registrations, RegistrationOf, ReaderGives, SendersGive,
      Untouched, PCs, Holding, Register, Goto, Put, Ops

LEMMA TakeBackInv == ASSUME IInv, NEW c \in Calls, TakeBack(c) PROVE IInv'
  BY CorrelatorIsOne
  DEF IInv, Shape, Taking, Registrations, RegistrationOf, ReaderGives, SendersGive,
      Untouched, PCs, Holding, TakeBack, Goto, Return, Registered, Unregister, Drop

LEMMA GiveBackInv == ASSUME IInv, NEW c \in Calls, GiveBack(c) PROVE IInv'
  BY CorrelatorIsOne
  DEF IInv, Shape, Taking, Registrations, RegistrationOf, ReaderGives, SendersGive,
      Untouched, PCs, Holding, GiveBack, Goto, Return

LEMMA GiveUpInv == ASSUME IInv, NEW c \in Calls, GiveUp(c) PROVE IInv'
  BY CorrelatorIsOne
  DEF IInv, Shape, Taking, Registrations, RegistrationOf, ReaderGives, SendersGive,
      Untouched, PCs, Holding, GiveUp, Goto, Return, Abandon, Unregister, Drop

LEMMA LookupIsSome ==
  ASSUME NEW m PROVE Lookup(m) \in Seq(Correlators) /\ Lookup(m) # <<>>
<1>1. Lookup(m) \in {<<"order">>, <<"cancel">>, <<"mass">>, <<"cancel", "order">>}
  BY Zenon DEF Lookup
<1>2. \A k, l \in Correlators : /\ <<k>> \in Seq(Correlators) /\ <<k>> # <<>>
                                /\ <<k, l>> \in Seq(Correlators) /\ <<k, l>> # <<>>
  OBVIOUS
<1>3. {"order", "cancel", "mass"} \subseteq Correlators
  BY DEF Correlators
<1> HIDE DEF Correlators
<1> QED
  BY <1>1, <1>2, <1>3

LEMMA ReadInv == ASSUME IInv, Read PROVE IInv'
<1>1. /\ reader' = [at |-> "take", msg |-> Head(reports), in |-> Lookup(Head(reports))]
      /\ UNCHANGED <<pc, op, id, pending, slot, giving>>
  BY DEF Read, callVars
<1>2. reader'.at # "give" /\ Taking'
  BY <1>1, LookupIsSome DEF Taking
<1> QED
  BY <1>1, <1>2
  DEF IInv, Shape, Registrations, RegistrationOf, ReaderGives, SendersGive, Untouched

LEMMA TakeInv == ASSUME IInv, Take PROVE IInv'
<1> DEFINE k == Head(reader.in)
           i == reader.msg.id
<1>1. k \in Correlators /\ Tail(reader.in) \in Seq(Correlators)
  BY DEF IInv, Shape, Taking, Take
<1>2. UNCHANGED <<pc, op, id, slot, giving>>
  BY DEF Take, callVars
<1>3. CASE i \in DOMAIN pending[k]
  <2>1. /\ pending' = [pending EXCEPT ![k] = Drop(@, i)]
        /\ reader' = [at |-> "give", msg |-> reader.msg, to |-> pending[k][i]]
    BY <1>3 DEF Take, Registered, Unregister
  <2>2. RegistrationOf(k, i, pending[k][i])
    BY <1>1, <1>3 DEF IInv, Registrations
  <2> HIDE DEF k, i
  <2>3. Shape' /\ ReaderGives' /\ SendersGive' /\ Untouched'
    BY <1>1, <1>2, <2>1, <2>2
    DEF IInv, Shape, Taking, ReaderGives, SendersGive, Untouched, RegistrationOf, Holding
  <2>4. Registrations'
    <3> SUFFICES ASSUME NEW q \in Correlators, NEW j \in (DOMAIN pending[q])'
                 PROVE  RegistrationOf(q, j, pending[q][j])'
      BY DEF Registrations
    <3>1. /\ j \in DOMAIN pending[q] /\ pending'[q][j] = pending[q][j]
          /\ <<q, j>> # <<k, i>>
      BY <1>1, <2>1 DEF Drop, IInv, Shape
    <3>2. RegistrationOf(q, j, pending[q][j])
      BY <3>1 DEF IInv, Registrations
    <3>3. pending[q][j] # pending[k][i]
      BY <2>2, <3>1, <3>2 DEF RegistrationOf
    <3> QED
      BY <1>2, <2>1, <3>1, <3>2, <3>3 DEF RegistrationOf
  <2> QED
    BY <2>3, <2>4 DEF IInv
<1>4. CASE i \notin DOMAIN pending[k]
  <2>1. UNCHANGED pending
    BY <1>4 DEF Take, Registered
  <2>2. reader' = IF Tail(reader.in) = <<>> THEN Resolved(reader.msg)
                  ELSE [at |-> "take", msg |-> reader.msg, in |-> Tail(reader.in)]
    BY <1>4 DEF Take, Registered
  <2>3. reader'.at # "give" /\ Taking'
    <3>1. CASE Tail(reader.in) = <<>>
      <4>1. reader' = Resolved(reader.msg)
        BY <2>2, <3>1
      <4>2. reader'.at \in {"fanout", "read"}
        BY <4>1 DEF Resolved, Idle
      <4> QED
        BY <4>2 DEF Taking
    <3>2. CASE Tail(reader.in) # <<>>
      <4>1. reader' = [at |-> "take", msg |-> reader.msg, in |-> Tail(reader.in)]
        BY <2>2, <3>2
      <4> QED
        BY <1>1, <3>2, <4>1 DEF Taking
    <3> QED
      BY <3>1, <3>2
  <2> QED
    BY <1>2, <2>1, <2>3
    DEF IInv, Shape, Registrations, RegistrationOf, ReaderGives, SendersGive, Untouched
<1> QED
  BY <1>3, <1>4

LEMMA GiveInv == ASSUME IInv, Give PROVE IInv'
  BY DEF IInv, Shape, Taking, Registrations, RegistrationOf, ReaderGives, SendersGive,
         Untouched, PCs, Holding, Give, callVars, Resolved, Idle

LEMMA FanOutInv == ASSUME IInv, FanOut PROVE IInv'
  BY DEF IInv, Shape, Taking, Registrations, RegistrationOf, ReaderGives, SendersGive,
         Untouched, PCs, Holding, FanOut, callVars, Idle

LEMMA ElseUnchanged == ASSUME Consume \/ Environment PROVE UNCHANGED core
  BY DEF Consume, Environment, XAnswer, XTrade, XCancel, Resend, Break, callVars, core

LEMMA StepInv == IInv /\ [Next]_vars => IInv'
<1> SUFFICES ASSUME IInv, [Next]_vars PROVE IInv'
  OBVIOUS
<1>1. ASSUME NEW c \in Calls, CallStep(c) PROVE IInv'
  BY <1>1, RefuseInv, RegisterInv, SendRequestInv, TakeBackInv, GiveBackInv, ReceiveInv,
     ExpireInv, GiveUpInv DEF CallStep
<1>2. CASE ReaderStep
  BY <1>2, ReadInv, TakeInv, GiveInv, FanOutInv DEF ReaderStep
<1>3. CASE Consume \/ Environment
  BY <1>3, ElseUnchanged, CoreUnchanged
<1>4. CASE UNCHANGED vars
  BY <1>4, CoreUnchanged DEF vars, core
<1> QED
  BY <1>1, <1>2, <1>3, <1>4 DEF Next

-----------------------------------------------------------------------------
\* The invariant the two results rest on holds in every behaviour.
THEOREM Invariance == Spec => []IInv
  BY InitInv, StepInv, PTL DEF Spec

\* Neither the reader nor a failed sender ever blocks in Resolve
\* (forts/id-mapping.go:75-87): the channel they give to is empty.
THEOREM NobodyBlocks == Spec => []ResolveNeverBlocks
<1>1. IInv => ResolveNeverBlocks
  BY DEF IInv, ReaderGives, SendersGive, ResolveNeverBlocks
<1> QED
  BY <1>1, Invariance, PTL

\* Once every call has returned, no correlator holds a registration
\* (forts/id-mapping.go:89-102).
THEOREM NoRegistrationLeaks == Spec => []NothingLeaks
<1>1. IInv => NothingLeaks
  <2> SUFFICES ASSUME IInv, \A c \in Calls : pc[c] \in {"idle", "done"},
                      NEW k \in Correlators, NEW i \in DOMAIN pending[k]
               PROVE  FALSE
    BY DEF NothingLeaks
  <2>1. pending[k][i] \in Calls /\ pc[pending[k][i]] \in Holding
    BY DEF IInv, Registrations, RegistrationOf
  <2> QED
    BY <2>1 DEF Holding
<1> QED
  BY <1>1, Invariance, PTL

-----------------------------------------------------------------------------
(* The correlators implement Rendezvous.                                    *)

\* A call that has not returned has no answer; a channel holds one result at most.
Kept ==
  /\ DOMAIN ret = Calls
  /\ \A c \in Calls : /\ pc[c] = "done" <=> ret[c] # <<>>
                      /\ slot[c] # <<>> => slot[c] = <<Head(slot[c])>>

LEMMA KeptInit == Init => Kept
  BY DEF Init, Kept

LEMMA KeptStep == IInv /\ Kept /\ [Next]_vars => Kept'
<1> SUFFICES ASSUME IInv, Kept, [Next]_vars PROVE Kept'
  OBVIOUS
<1>0. pc \in [Calls -> PCs] /\ DOMAIN slot = Calls
  BY DEF IInv, Shape
<1>1. ASSUME NEW c \in Calls, Refuse(c) \/ Receive(c) \/ GiveUp(c) PROVE Kept'
  BY <1>0, <1>1 DEF Kept, Refuse, Receive, GiveUp, Return, Goto
<1>2. ASSUME NEW c \in Calls, Register(c) \/ SendRequest(c) \/ Expire(c) PROVE Kept'
  BY <1>0, <1>2 DEF Kept, Register, SendRequest, Expire, Goto, PCs
<1>3. ASSUME NEW c \in Calls, TakeBack(c) PROVE Kept'
  BY <1>0, <1>3 DEF Kept, TakeBack, Return, Goto
<1>4. ASSUME NEW c \in Calls, GiveBack(c) PROVE Kept'
  BY <1>0, <1>4 DEF Kept, GiveBack, Return, Goto
<1>5. CASE Read \/ Take \/ FanOut \/ Consume \/ Environment
  BY <1>5 DEF Kept, Read, Take, FanOut, Consume, Environment, XAnswer, XTrade, XCancel,
              Resend, Break, callVars
<1>6. CASE Give
  BY <1>0, <1>6 DEF Kept, Give, callVars
<1>7. CASE UNCHANGED vars
  BY <1>7 DEF vars, Kept
<1> QED
  BY <1>1, <1>2, <1>3, <1>4, <1>5, <1>6, <1>7 DEF Next, CallStep, ReaderStep

\* Who has a registration has the right to its channel still to give.
LEMMA RegistrationIsOwn ==
  ASSUME IInv, NEW c \in Calls, IsRegistered(c)
  PROVE  /\ pc[c] \in Holding /\ slot[c] = <<>> /\ ~IsGiven(c)
         /\ RightTo(c) = "free"
<1>1. RegistrationOf(CorrelatorOf(op[c]), id[c], c)
  BY CorrelatorIsOne DEF IInv, Registrations, IsRegistered, Registered
<1> QED
  BY <1>1 DEF RegistrationOf, IsGiven, RightTo, IsRegistered, Holding

\* Whatever is registered under a ClOrdID is registered as its own.
LEMMA FiledAsOwn ==
  ASSUME IInv, NEW k \in Correlators, NEW i, i \in DOMAIN pending[k]
  PROVE  /\ pending[k][i] \in Calls /\ IsRegistered(pending[k][i])
         /\ CorrelatorOf(op[pending[k][i]]) = k /\ id[pending[k][i]] = i
<1>1. RegistrationOf(k, i, pending[k][i])
  BY DEF IInv, Registrations
<1> QED
  BY <1>1 DEF RegistrationOf, IsRegistered, Registered

LEMMA RightsOf == DOMAIN rights = Calls /\ \A c \in Calls : rights[c] = RightTo(c)
  BY DEF rights

\* No right moves while the places of the calls and the reader say the same of it.
LEMMA RightsStay ==
  ASSUME \A c \in Calls : RightTo(c)' = RightTo(c)
  PROVE  rights' = rights
  BY DEF rights

LEMMA RefuseKeeps ==
  ASSUME IInv, Kept, NEW c \in Calls, Refuse(c)
  PROVE  Promise!Fail(c)
<1>1. /\ pc[c] = "idle" /\ pc' = [pc EXCEPT ![c] = "done"]
      /\ ret' = [ret EXCEPT ![c] = <<[type |-> "invalid"]>>]
      /\ UNCHANGED <<op, id, pending, slot, giving, reader>>
  BY DEF Refuse, Return, Goto
<1>2. ~IsRegistered(c) /\ ~IsGiven(c)
  BY <1>1, RegistrationIsOwn DEF IInv, ReaderGives, SendersGive, IsGiven, Holding
<1>3. \A d \in Calls : (IsRegistered(d)' <=> IsRegistered(d)) /\ (IsGiven(d)' <=> IsGiven(d))
  BY <1>1 DEF IInv, Shape, IsRegistered, Registered, IsGiven
<1>4. \A d \in Calls : RightTo(d)' = IF d = c THEN "gone" ELSE RightTo(d)
  BY <1>1, <1>2, <1>3 DEF IInv, Shape, RightTo
<1>5. RightTo(c) = "unasked"
  BY <1>1 DEF RightTo
<1>6. rights' = Promise!Losing({}, [rights EXCEPT ![c] = IF @ = "unasked" THEN "gone" ELSE @])
  BY <1>4, <1>5 DEF rights, Promise!Losing
<1>7. Promise!Failed(c)
  BY <1>1 DEF Kept, Promise!Failed, Errors
<1> QED
  BY <1>1, <1>6, <1>7 DEF Promise!Fail

LEMMA RegisterKeeps ==
  ASSUME IInv, Kept, NEW c \in Calls, Register(c)
  PROVE  Promise!Ask(c)
<1>1. PICK o \in Ops :
        /\ op' = [op EXCEPT ![c] = o] /\ DOMAIN id' = DOMAIN id
        /\ \A d \in Calls : d # c => id'[d] = id[d]
        /\ pending' = [pending EXCEPT ![CorrelatorOf(o)] = Put(@, id'[c], c)]
        /\ pc[c] = "idle" /\ pc' = [pc EXCEPT ![c] = "send"]
        /\ UNCHANGED <<slot, giving, ret, reader>>
  BY DEF Register, Goto, IInv, Shape
<1> DEFINE k == CorrelatorOf(o)
           lost == {d \in Calls : IsRegistered(d) /\ CorrelatorOf(op[d]) = k /\ id[d] = id'[c]}
<1>2. k \in Correlators
  BY CorrelatorIsOne
<1>3. ~IsRegistered(c) /\ ~IsGiven(c) /\ c \notin lost
  BY <1>1, RegistrationIsOwn DEF IInv, ReaderGives, SendersGive, IsGiven, Holding
<1>4. IsRegistered(c)'
  BY <1>1, <1>2 DEF IInv, Shape, IsRegistered, Registered, Put
<1>5. \A d \in Calls : d # c => (IsRegistered(d)' <=> IsRegistered(d) /\ d \notin lost)
  BY <1>1, <1>2, CorrelatorIsOne DEF IInv, Shape, IsRegistered, Registered, Put
<1>6. \A d \in Calls : IsGiven(d)' <=> IsGiven(d)
  BY <1>1 DEF IInv, Shape, IsGiven
<1>7. \A d \in lost : ~IsGiven(d) /\ RightTo(d) = "free" /\ pc[d] # "idle"
  BY RegistrationIsOwn DEF Holding
<1> HIDE DEF lost
<1>8. \A d \in Calls : RightTo(d)' = IF d \in lost THEN "gone"
                                     ELSE IF d = c THEN "free" ELSE RightTo(d)
  BY <1>1, <1>3, <1>4, <1>5, <1>6, <1>7 DEF IInv, Shape, RightTo
<1>9. rights' = Promise!Losing(lost, [rights EXCEPT ![c] = "free"])
  BY <1>8 DEF rights, Promise!Losing
<1>10. lost \in SUBSET Promise!Free
  BY <1>7 DEF lost, rights, Promise!Free
<1>11. rights[c] = "unasked" /\ ret[c] = <<>>
  BY <1>1 DEF rights, RightTo, Kept
<1> QED
  BY <1>1, <1>9, <1>10, <1>11 DEF Promise!Ask

LEMMA QuietKeeps ==
  ASSUME IInv, NEW c \in Calls, SendRequest(c) \/ Expire(c)
  PROVE  UNCHANGED <<rights, slot, ret>>
<1>1. /\ pc[c] \in {"send", "wait"} /\ pc' = [pc EXCEPT ![c] = pc'[c]]
      /\ pc'[c] \in {"wait", "unsent", "expired"}
      /\ UNCHANGED <<op, id, pending, slot, giving, ret, reader>>
  BY DEF SendRequest, Expire, Goto, IInv, Shape
<1>2. \A d \in Calls : (IsRegistered(d)' <=> IsRegistered(d)) /\ (IsGiven(d)' <=> IsGiven(d))
  BY <1>1 DEF IInv, Shape, IsRegistered, Registered, IsGiven
<1>3. \A d \in Calls : RightTo(d)' = RightTo(d)
  BY <1>1, <1>2 DEF IInv, Shape, RightTo
<1> QED
  BY <1>1, <1>3, RightsStay

\* Taking a registration away claims the right to its channel.
LEMMA TakenIsClaimed ==
  ASSUME IInv, NEW k \in Correlators, NEW i, i \in DOMAIN pending[k],
         pending' = Unregister(k, i), UNCHANGED <<op, id>>,
         \A d \in Calls : pc'[d] = "idle" <=> pc[d] = "idle",
         \A d \in Calls : IsGiven(d)' <=> IsGiven(d) \/ d = pending[k][i]
  PROVE  rights' = [rights EXCEPT ![pending[k][i]] = "claimed"] /\ rights[pending[k][i]] = "free"
<1> DEFINE e == pending[k][i]
<1>1. /\ e \in Calls /\ IsRegistered(e) /\ CorrelatorOf(op[e]) = k /\ id[e] = i
      /\ RightTo(e) = "free" /\ pc[e] # "idle"
  BY FiledAsOwn, RegistrationIsOwn DEF Holding
<1>2. \A d \in Calls : IsRegistered(d)' <=> IsRegistered(d) /\ d # e
  BY <1>1, CorrelatorIsOne DEF IInv, Shape, IsRegistered, Registered, Unregister, Drop
<1>3. \A d \in Calls : RightTo(d)' = IF d = e THEN "claimed" ELSE RightTo(d)
  BY <1>1, <1>2 DEF RightTo
<1> QED
  BY <1>1, <1>3 DEF rights

LEMMA TakeBackKeeps ==
  ASSUME IInv, Kept, NEW c \in Calls, TakeBack(c)
  PROVE  Promise!Next
<1> DEFINE k == CorrelatorOf(op[c])
<1>0. pc[c] = "unsent" /\ k \in Correlators /\ UNCHANGED <<op, id, slot, reader>>
  BY CorrelatorIsOne DEF TakeBack
<1>1. CASE Registered(k, id[c])
  <2>1. /\ giving' = [giving EXCEPT ![c] = pending[k][id[c]]]
        /\ pending' = Unregister(k, id[c]) /\ pc' = [pc EXCEPT ![c] = "give"]
        /\ UNCHANGED ret
    BY <1>1 DEF TakeBack, Goto
  <2>2. id[c] \in DOMAIN pending[k] /\ pending[k][id[c]] \in Calls
    BY <1>0, <1>1, FiledAsOwn DEF Registered
  <2>3. \A d \in Calls : (pc'[d] = "idle" <=> pc[d] = "idle")
                         /\ (IsGiven(d)' <=> IsGiven(d) \/ d = pending[k][id[c]])
    BY <1>0, <2>1 DEF IInv, Shape, IsGiven
  <2> HIDE DEF k
  <2>4. Promise!Claim(pending[k][id[c]])
    BY <1>0, <2>1, <2>2, <2>3, TakenIsClaimed DEF Promise!Claim
  <2> QED
    BY <2>2, <2>4 DEF Promise!Next
<1>2. CASE ~Registered(k, id[c])
  <2>1. /\ pc' = [pc EXCEPT ![c] = "done"] /\ ret' = [ret EXCEPT ![c] = <<[type |-> "unsent"]>>]
        /\ UNCHANGED <<giving, pending>>
    BY <1>2 DEF TakeBack, Return, Goto
  <2>2. \A d \in Calls : (IsRegistered(d)' <=> IsRegistered(d)) /\ (IsGiven(d)' <=> IsGiven(d))
    BY <1>0, <2>1 DEF IInv, Shape, IsRegistered, Registered, IsGiven
  <2>3. \A d \in Calls : RightTo(d)' = RightTo(d)
    BY <1>0, <2>1, <2>2 DEF IInv, Shape, RightTo
  <2>4. RightTo(c) # "unasked"
    BY <1>0 DEF RightTo
  <2>5. rights' = Promise!Losing({}, [rights EXCEPT ![c] = IF @ = "unasked" THEN "gone" ELSE @])
    BY <2>3, <2>4 DEF rights, Promise!Losing
  <2>6. Promise!Failed(c)
    BY <1>0, <2>1 DEF Kept, Promise!Failed, Errors
  <2> QED
    BY <1>0, <2>5, <2>6 DEF Promise!Fail, Promise!Next
<1> QED
  BY <1>1, <1>2

LEMMA GiveBackKeeps ==
  ASSUME IInv, Kept, NEW c \in Calls, GiveBack(c)
  PROVE  Promise!Leave(giving[c])
<1> DEFINE g == giving[c]
<1>1. /\ pc[c] = "give" /\ g \in Calls /\ slot[g] = <<>> /\ slot' = [slot EXCEPT ![g] = <<Nothing>>]
      /\ giving' = [giving EXCEPT ![c] = c] /\ pc' = [pc EXCEPT ![c] = "done"]
      /\ ret' = [ret EXCEPT ![c] = <<[type |-> "unsent"]>>]
      /\ UNCHANGED <<op, id, pending, reader>>
  BY DEF GiveBack, Return, Goto, IInv, Shape
<1>2. IsGiven(g) /\ ~IsRegistered(g) /\ pc[g] # "idle"
  BY <1>1, RegistrationIsOwn DEF IsGiven, IInv, SendersGive
<1>3. \A d \in Calls : IsRegistered(d)' <=> IsRegistered(d)
  BY <1>1 DEF IsRegistered, Registered
<1>4. \A d \in Calls : IsGiven(d)' <=> IsGiven(d) /\ d # g
  BY <1>1 DEF IInv, Shape, ReaderGives, SendersGive, IsGiven
<1>5. \A d \in Calls : RightTo(d)' = IF d = g THEN "gone" ELSE RightTo(d)
  BY <1>1, <1>2, <1>3, <1>4 DEF IInv, Shape, RightTo
<1>6. rights' = [rights EXCEPT ![g] = "gone"] /\ rights[g] = "claimed"
  BY <1>1, <1>2, <1>5 DEF rights, RightTo
<1>7. Len(slot'[g]) = 1 /\ slot' = [slot EXCEPT ![g] = slot'[g]]
  BY <1>1 DEF IInv, Shape
<1>8. Promise!Failed(c)
  BY <1>1 DEF Kept, Promise!Failed, Errors
<1> QED
  BY <1>1, <1>6, <1>7, <1>8 DEF Promise!Leave

LEMMA ReceiveKeeps ==
  ASSUME IInv, Kept, NEW c \in Calls, Receive(c)
  PROVE  Promise!Take(c)
<1>1. /\ pc[c] = "wait" /\ slot[c] # <<>> /\ slot' = [slot EXCEPT ![c] = <<>>]
      /\ pc' = [pc EXCEPT ![c] = "done"] /\ ret' = [ret EXCEPT ![c] = <<Head(slot[c])>>]
      /\ UNCHANGED <<op, id, pending, giving, reader>>
  BY DEF Receive, Return, Goto
<1>2. slot[c] = <<Head(slot[c])>> /\ Len(slot[c]) = 1 /\ ret[c] = <<>>
  BY <1>1 DEF Kept
<1>3. \A d \in Calls : (IsRegistered(d)' <=> IsRegistered(d)) /\ (IsGiven(d)' <=> IsGiven(d))
  BY <1>1 DEF IInv, Shape, IsRegistered, Registered, IsGiven
<1>4. \A d \in Calls : RightTo(d)' = RightTo(d)
  BY <1>1, <1>3 DEF IInv, Shape, RightTo
<1>5. rights' = rights
  BY <1>4, RightsStay
<1> QED
  BY <1>1, <1>2, <1>5 DEF Promise!Take

LEMMA GiveUpKeeps ==
  ASSUME IInv, Kept, NEW c \in Calls, GiveUp(c)
  PROVE  Promise!Fail(c)
<1> DEFINE k == CorrelatorOf(op[c])
           lost == {d \in Calls : IsRegistered(d) /\ CorrelatorOf(op[d]) = k /\ id[d] = id[c]}
<1>1. /\ pc[c] = "expired" /\ pc' = [pc EXCEPT ![c] = "done"] /\ k \in Correlators
      /\ pending' = [pending EXCEPT ![k] = Drop(@, id[c])]
      /\ ret' = [ret EXCEPT ![c] = <<[type |-> "ctx"]>>]
      /\ UNCHANGED <<op, id, slot, giving, reader>>
  BY CorrelatorIsOne DEF GiveUp, Return, Goto, Abandon, Unregister
<1>2. \A d \in Calls : IsRegistered(d)' <=> IsRegistered(d) /\ d \notin lost
  BY <1>1, CorrelatorIsOne DEF IInv, Shape, IsRegistered, Registered, Drop
<1>3. \A d \in Calls : IsGiven(d)' <=> IsGiven(d)
  BY <1>1 DEF IInv, Shape, IsGiven
<1>4. \A d \in lost : ~IsGiven(d) /\ RightTo(d) = "free" /\ pc[d] # "idle"
  BY RegistrationIsOwn DEF Holding
<1> HIDE DEF lost
<1>5. \A d \in Calls : RightTo(d)' = IF d \in lost THEN "gone" ELSE RightTo(d)
  BY <1>1, <1>2, <1>3, <1>4 DEF IInv, Shape, RightTo
<1>6. RightTo(c) # "unasked"
  BY <1>1 DEF RightTo
<1>7. rights' = Promise!Losing(lost, [rights EXCEPT ![c] = IF @ = "unasked" THEN "gone" ELSE @])
  BY <1>5, <1>6 DEF rights, Promise!Losing
<1>8. lost \in SUBSET Promise!Free
  BY <1>4 DEF lost, rights, Promise!Free
<1>9. Promise!Failed(c)
  BY <1>1 DEF Kept, Promise!Failed, Errors
<1> QED
  BY <1>1, <1>7, <1>8, <1>9 DEF Promise!Fail

\* Steps of the reader that neither take a registration nor give a result, and
\* those of everybody else.
LEMMA AsideKeeps ==
  ASSUME UNCHANGED <<pc, op, id, pending, slot, giving, ret>>,
         reader.at # "give", reader'.at # "give"
  PROVE  UNCHANGED <<rights, slot, ret>>
<1>1. \A d \in Calls : RightTo(d)' = RightTo(d)
  BY DEF RightTo, IsRegistered, Registered, IsGiven
<1> QED
  BY <1>1, RightsStay

LEMMA ReaderTakeKeeps ==
  ASSUME IInv, Take
  PROVE  Promise!Next \/ UNCHANGED <<rights, slot, ret>>
<1> DEFINE k == Head(reader.in)
           i == reader.msg.id
<1>1. k \in Correlators /\ reader.at = "take" /\ UNCHANGED <<pc, op, id, slot, giving, ret>>
  BY DEF IInv, Shape, Taking, Take, callVars
<1>2. CASE i \in DOMAIN pending[k]
  <2>1. /\ pending' = Unregister(k, i)
        /\ reader' = [at |-> "give", msg |-> reader.msg, to |-> pending[k][i]]
    BY <1>2 DEF Take, Registered
  <2>2. pending[k][i] \in Calls
    BY <1>1, <1>2, FiledAsOwn
  <2> HIDE DEF k, i
  <2>3. \A d \in Calls : IsGiven(d)' <=> IsGiven(d) \/ d = pending[k][i]
    BY <1>1, <2>1 DEF IsGiven
  <2>4. Promise!Claim(pending[k][i])
    BY <1>1, <1>2, <2>1, <2>3, TakenIsClaimed DEF Promise!Claim
  <2> QED
    BY <2>2, <2>4 DEF Promise!Next
<1>3. CASE i \notin DOMAIN pending[k]
  <2>1. /\ UNCHANGED pending
        /\ reader' = IF Tail(reader.in) = <<>> THEN Resolved(reader.msg)
                     ELSE [at |-> "take", msg |-> reader.msg, in |-> Tail(reader.in)]
    BY <1>3 DEF Take, Registered
  <2>2. reader'.at # "give"
    BY <2>1 DEF Resolved, Idle
  <2> QED
    BY <1>1, <2>1, <2>2, AsideKeeps
<1> QED
  BY <1>2, <1>3

LEMMA ReaderGiveKeeps ==
  ASSUME IInv, Give
  PROVE  Promise!Leave(reader.to)
<1> DEFINE g == reader.to
<1>1. /\ reader.at = "give" /\ g \in Calls /\ slot[g] = <<>>
      /\ slot' = [slot EXCEPT ![g] = <<reader.msg>>] /\ reader' = Resolved(reader.msg)
      /\ UNCHANGED <<pc, op, id, pending, giving, ret>>
  BY DEF Give, callVars, IInv, ReaderGives
<1>2. reader'.at # "give"
  BY <1>1 DEF Resolved, Idle
<1>3. IsGiven(g) /\ ~IsRegistered(g) /\ pc[g] # "idle"
  BY <1>1, RegistrationIsOwn DEF IsGiven, IInv, ReaderGives
<1>4. \A d \in Calls : /\ IsRegistered(d)' <=> IsRegistered(d)
                       /\ IsGiven(d)' <=> IsGiven(d) /\ d # g
  BY <1>1, <1>2 DEF IInv, ReaderGives, IsGiven, IsRegistered, Registered
<1>5. \A d \in Calls : RightTo(d)' = IF d = g THEN "gone" ELSE RightTo(d)
  BY <1>1, <1>3, <1>4 DEF RightTo
<1>6. rights' = [rights EXCEPT ![g] = "gone"] /\ rights[g] = "claimed"
  BY <1>1, <1>3, <1>5 DEF rights, RightTo
<1>7. Len(slot'[g]) = 1 /\ slot' = [slot EXCEPT ![g] = slot'[g]]
  BY <1>1 DEF IInv, Shape
<1> QED
  BY <1>1, <1>6, <1>7 DEF Promise!Leave

LEMMA StepKeeps == IInv /\ Kept /\ [Next]_vars => [Promise!Next]_<<rights, slot, ret>>
<1> SUFFICES ASSUME IInv, Kept, [Next]_vars
             PROVE  Promise!Next \/ UNCHANGED <<rights, slot, ret>>
  OBVIOUS
<1>1. ASSUME NEW c \in Calls, CallStep(c) PROVE Promise!Next \/ UNCHANGED <<rights, slot, ret>>
  <2>1. CASE Refuse(c) \/ Register(c) \/ Receive(c) \/ GiveUp(c)
    BY <2>1, RefuseKeeps, RegisterKeeps, ReceiveKeeps, GiveUpKeeps DEF Promise!Next
  <2>2. CASE GiveBack(c)
    <3>1. giving[c] \in Calls
      BY DEF IInv, Shape
    <3> QED
      BY <2>2, <3>1, GiveBackKeeps DEF Promise!Next
  <2> QED
    BY <1>1, <2>1, <2>2, TakeBackKeeps, QuietKeeps DEF CallStep
<1>2. CASE Take
  BY <1>2, ReaderTakeKeeps
<1>3. CASE Give
  <2>1. reader.to \in Calls
    BY <1>3 DEF Give, IInv, ReaderGives
  <2> QED
    BY <1>3, <2>1, ReaderGiveKeeps DEF Promise!Next
<1>4. CASE Read \/ FanOut
  <2>1. reader.at # "give" /\ reader'.at # "give"
    BY <1>4 DEF Read, FanOut, Idle
  <2> QED
    BY <1>4, <2>1, AsideKeeps DEF Read, FanOut, callVars
<1>5. CASE Consume \/ Environment \/ UNCHANGED vars
  <2>1. UNCHANGED <<pc, op, id, pending, slot, giving, reader, ret>>
    BY <1>5 DEF Consume, Environment, XAnswer, XTrade, XCancel, Resend, Break, callVars, vars
  <2>2. \A d \in Calls : RightTo(d)' = RightTo(d)
    BY <2>1 DEF RightTo, IsRegistered, Registered, IsGiven
  <2> QED
    BY <2>1, <2>2, RightsStay
<1> QED
  BY <1>1, <1>2, <1>3, <1>4, <1>5 DEF Next, ReaderStep

\* Order entry keeps the promise of Rendezvous (forts/id-mapping.go:44-102): whatever
\* ClOrdIDs are used again, whichever contexts end and whoever answers twice, one
\* result at most is left for a call, and it returns once.
THEOREM KeepsThePromise == Spec => ImplementsRendezvous
<1>1. Init => Promise!Init
  BY DEF Init, Promise!Init, rights, RightTo
<1>2. Spec => []Kept
  BY KeptInit, KeptStep, Invariance, PTL DEF Spec
<1>3. [Promise!Next]_<<rights, slot, ret>> => [Promise!Next]_(Promise!vars)
  BY DEF Promise!vars
<1> QED
  BY <1>1, <1>2, <1>3, StepKeeps, Invariance, PTL DEF Spec, ImplementsRendezvous, Promise!Spec

-----------------------------------------------------------------------------
(* The types.                                                               *)

Order == [status : Statuses, call : Calls]

LEMMA PutIsOrders ==
  ASSUME NEW s \in Seq(Order), NEW n \in 1..Len(s) + 1, NEW v \in Order
  PROVE  Put(s, n, v) \in Seq(Order)
<1> DEFINE top == IF n = Len(s) + 1 THEN n ELSE Len(s)
<1> HIDE DEF Order
<1>1. top \in Nat /\ DOMAIN s \cup {n} = 1..top
  BY LenProperties
<1>2. Put(s, n, v) \in [1..top -> Order]
  BY <1>1, ElementOfSeq DEF Put
<1> HIDE DEF top
<1> QED
  BY <1>1, <1>2, SeqDef

LEMMA PutIsMap ==
  ASSUME NEW m, NEW K, NEW V, IsMap(m, K, V), NEW k \in K, NEW v \in V
  PROVE  IsMap(Put(m, k, v), K, V)
  BY DEF IsMap, Put

LEMMA DropIsMap ==
  ASSUME NEW m, NEW K, NEW V, IsMap(m, K, V), NEW k
  PROVE  IsMap(Drop(m, k), K, V)
  BY DEF IsMap, Drop

LEMMA ExecIsReport ==
  ASSUME NEW e \in Execs, NEW s \in Statuses, NEW c \in Calls, NEW i \in Ids, NEW n \in OrderNos
  PROVE  Exec(e, s, c, i, n) \in Report
  BY DEF Exec, Report

LEMMA AnswerIsReport ==
  ASSUME NEW t \in {"reject", "mass"}, NEW c \in Calls, NEW i \in Ids
  PROVE  [type |-> t, id |-> i, to |-> c] \in Report
  BY DEF Report

LEMMA ReportParts ==
  ASSUME NEW m \in Report
  PROVE  /\ m.id \in Ids /\ m.to \in Calls /\ m.type \in {"exec", "reject", "mass"}
         /\ m.type = "exec" => m.status \in Statuses /\ m.exec \in Execs /\ m.order \in OrderNos
  BY DEF Report

LEMMA TypeInit == Init => TypeOK
<1> SUFFICES ASSUME Init PROVE TypeOK
  OBVIOUS
<1>1. /\ <<>> \in Seq(Result) /\ <<>> \in Seq(Calls) /\ <<>> \in Seq(Report) /\ <<>> \in Seq(Order)
      /\ DOMAIN <<>> = {}
  OBVIOUS
<1>2. \A K, V : IsMap(<<>>, K, V)
  BY <1>1 DEF IsMap
<1>3. id \in [Calls -> Ids] /\ op \in [Calls -> Ops]
  BY DEF Init, Ids, Ops
<1>4. reader \in Readers /\ watch \in 0..WatchCap
  BY CapPositive DEF Init, Readers, Idle
<1> QED
  BY <1>1, <1>2, <1>3, <1>4 DEF Init, TypeOK, Order

LEMMA TypeRefuse == ASSUME TypeOK, NEW c \in Calls, Refuse(c) PROVE TypeOK'
<1>1. [type |-> "invalid"] \in Result
  BY DEF Result
<1>2. <<[type |-> "invalid"]>> \in Seq(Result)
  BY <1>1
<1> QED
  BY <1>2 DEF TypeOK, Refuse, Return, Goto, cacheVars, exchangeVars

LEMMA TypeRegister == ASSUME TypeOK, IInv, NEW c \in Calls, Register(c) PROVE TypeOK'
<1>1. PICK o \in Ops :
        /\ op' = [op EXCEPT ![c] = o]
        /\ \/ counter' = NextId /\ id' = [id EXCEPT ![c] = NextId]
           \/ /\ \E own \in OwnIds : id' = [id EXCEPT ![c] = own]
              /\ UNCHANGED counter
        /\ pending' = [pending EXCEPT ![CorrelatorOf(o)] = Put(@, id'[c], c)]
  BY DEF Register
<1>2. counter' \in Nat /\ id' \in [Calls -> Ids]
  <2>0. NextId \in Ids /\ OwnIds \subseteq Ids
    BY DEF TypeOK, NextId, Ids
  <2>1. PICK i \in Ids : id' = [id EXCEPT ![c] = i]
    BY <1>1, <2>0
  <2>2. id' \in [Calls -> Ids]
    BY <2>1 DEF TypeOK
  <2> QED
    BY <1>1, <2>2 DEF TypeOK, NextId
<1>3. CorrelatorOf(o) \in Correlators /\ id'[c] \in Ids
  BY <1>2, CorrelatorIsOne
<1>4. IsMap(Put(pending[CorrelatorOf(o)], id'[c], c), Ids, Calls)
  BY <1>3, PutIsMap DEF TypeOK
<1>5. DOMAIN pending' = Correlators /\ \A k \in Correlators : IsMap(pending'[k], Ids, Calls)
  BY <1>1, <1>3, <1>4 DEF TypeOK
<1>6. op' \in [Calls -> Ops]
  BY <1>1 DEF TypeOK
<1>7. /\ pc' \in [Calls -> {"idle", "send", "unsent", "give", "wait", "expired", "done"}]
      /\ UNCHANGED <<slot, giving, ret, reader, cacheVars, exchangeVars>>
  BY DEF Register, Goto, TypeOK
<1> QED
  BY <1>2, <1>5, <1>6, <1>7 DEF TypeOK, cacheVars, exchangeVars

LEMMA TypeSendRequest == ASSUME TypeOK, NEW c \in Calls, SendRequest(c) PROVE TypeOK'
<1>1. requests' \in Seq(Calls)
  <2>1. requests \in Seq(Calls)
    BY DEF TypeOK
  <2>2. requests' = Append(requests, c) \/ requests' = requests
    BY Zenon DEF SendRequest
  <2> QED
    BY <2>1, <2>2, AppendProperties
<1>2. pc' \in [Calls -> {"idle", "send", "unsent", "give", "wait", "expired", "done"}]
  <2>1. PICK to \in {"wait", "unsent"} : pc' = [pc EXCEPT ![c] = to]
    BY Zenon DEF SendRequest, Goto
  <2> QED
    BY <2>1 DEF TypeOK
<1>3. UNCHANGED <<counter, op, id, pending, slot, giving, ret, reader, cacheVars,
                  reports, orders, traded, cancels, repeats, up>>
  BY DEF SendRequest
<1> QED
  BY <1>1, <1>2, <1>3 DEF TypeOK, cacheVars

LEMMA TypeUnregister ==
  ASSUME TypeOK, NEW k \in Correlators, NEW i, pending' = Unregister(k, i)
  PROVE  DOMAIN pending' = Correlators /\ \A l \in Correlators : IsMap(pending'[l], Ids, Calls)
  BY DropIsMap DEF TypeOK, Unregister

LEMMA TypeTakeBack == ASSUME TypeOK, NEW c \in Calls, TakeBack(c) PROVE TypeOK'
<1> DEFINE k == CorrelatorOf(op[c])
<1>0. k \in Correlators
  BY CorrelatorIsOne
<1>1. CASE Registered(k, id[c])
  <2>1. /\ giving' = [giving EXCEPT ![c] = pending[k][id[c]]]
        /\ pending' = Unregister(k, id[c]) /\ pc' = [pc EXCEPT ![c] = "give"] /\ UNCHANGED ret
    BY <1>1 DEF TakeBack, Goto
  <2>2. pending[k][id[c]] \in Calls
    BY <1>0, <1>1 DEF TypeOK, Registered, IsMap
  <2> HIDE DEF k
  <2>3. giving' \in [Calls -> Calls]
    BY <2>1, <2>2 DEF TypeOK
  <2> QED
    BY <1>0, <2>1, <2>3, TypeUnregister DEF TypeOK, TakeBack, cacheVars, exchangeVars
<1>2. CASE ~Registered(k, id[c])
  <2>1. /\ pc' = [pc EXCEPT ![c] = "done"] /\ ret' = [ret EXCEPT ![c] = <<[type |-> "unsent"]>>]
        /\ UNCHANGED <<giving, pending>>
    BY <1>2 DEF TakeBack, Return, Goto
  <2>2. <<[type |-> "unsent"]>> \in Seq(Result)
    BY DEF Result
  <2> QED
    BY <2>1, <2>2 DEF TypeOK, TakeBack, cacheVars, exchangeVars
<1> QED
  BY <1>1, <1>2

LEMMA TypeGiveBack == ASSUME TypeOK, NEW c \in Calls, GiveBack(c) PROVE TypeOK'
<1>1. <<[type |-> "unsent"]>> \in Seq(Result) /\ <<Nothing>> \in Seq(Result)
  BY DEF Result, Nothing
<1> QED
  BY <1>1 DEF TypeOK, GiveBack, Return, Goto, cacheVars, exchangeVars

LEMMA TypeReceive == ASSUME TypeOK, NEW c \in Calls, Receive(c) PROVE TypeOK'
<1>1. slot[c] \in Seq(Result) /\ slot[c] # <<>>
  BY DEF TypeOK, Receive
<1>2. Head(slot[c]) \in Result
  BY <1>1, HeadTailProperties
<1>3. <<Head(slot[c])>> \in Seq(Result) /\ <<>> \in Seq(Result)
  BY <1>2
<1> QED
  BY <1>3 DEF TypeOK, Receive, Return, Goto, cacheVars, exchangeVars

LEMMA TypeExpire == ASSUME TypeOK, NEW c \in Calls, Expire(c) PROVE TypeOK'
  BY DEF TypeOK, Expire, Goto, cacheVars, exchangeVars

LEMMA TypeGiveUp == ASSUME TypeOK, NEW c \in Calls, GiveUp(c) PROVE TypeOK'
<1>1. pending' = Unregister(CorrelatorOf(op[c]), id[c])
  BY DEF GiveUp, Abandon
<1>2. <<[type |-> "ctx"]>> \in Seq(Result)
  BY DEF Result
<1> QED
  BY <1>1, <1>2, TypeUnregister, CorrelatorIsOne
  DEF TypeOK, GiveUp, Return, Goto, cacheVars, exchangeVars

LEMMA TypeRead == ASSUME TypeOK, Read PROVE TypeOK'
<1> DEFINE m == Head(reports)
<1>1. reports \in Seq(Report) /\ reports # <<>>
  BY DEF TypeOK, Read
<1>2. m \in Report /\ Tail(reports) \in Seq(Report)
  BY <1>1, HeadTailProperties
<1>3. /\ reports' = Tail(reports)
      /\ reader' = [at |-> "take", msg |-> m, in |-> Lookup(m)]
      /\ UNCHANGED <<callVars, pending, slot, watch, requests, orders, traded, cancels, repeats, up>>
  BY DEF Read
<1>4. reader' \in Readers
  BY <1>2, <1>3, LookupIsSome DEF Readers
<1>5. IsMap(openOrders, OrderNos, Statuses)' /\ position' \in Nat
  <2>1. CASE m.type = "exec"
    <3>1. openOrders' = Put(openOrders, m.order, m.status) /\ position' = position + Filled(m)
      BY <2>1 DEF Read, Cache, InfoOf
    <3>2. m.order \in OrderNos /\ m.status \in Statuses /\ Filled(m) \in Nat
      BY <1>2, <2>1, ReportParts DEF Filled
    <3> HIDE DEF m
    <3> QED
      BY <3>1, <3>2, PutIsMap DEF TypeOK
  <2>2. CASE m.type # "exec"
    BY <2>2 DEF Read, TypeOK
  <2> QED
    BY <2>1, <2>2
<1> HIDE DEF m
<1> QED
  BY <1>2, <1>3, <1>4, <1>5 DEF TypeOK, callVars

LEMMA TypeResolved == ASSUME NEW m \in Report PROVE Resolved(m) \in Readers
  BY DEF Resolved, Readers

LEMMA TypeTake == ASSUME TypeOK, IInv, Take PROVE TypeOK'
<1> DEFINE k == Head(reader.in)
           i == reader.msg.id
<1>0. /\ reader.msg \in Report /\ reader.in \in Seq(Correlators) /\ reader.in # <<>>
      /\ reader.at = "take"
  BY DEF TypeOK, Readers, Idle, Take, IInv, Shape, Taking
<1>1. k \in Correlators /\ Tail(reader.in) \in Seq(Correlators)
  BY <1>0, HeadTailProperties
<1>2. CASE Registered(k, i)
  <2>1. /\ pending' = Unregister(k, i)
        /\ reader' = [at |-> "give", msg |-> reader.msg, to |-> pending[k][i]]
    BY <1>2 DEF Take
  <2>2. pending[k][i] \in Calls
    BY <1>1, <1>2 DEF TypeOK, Registered, IsMap
  <2> HIDE DEF k, i
  <2>3. reader' \in Readers
    BY <1>0, <2>1, <2>2 DEF Readers
  <2> QED
    BY <1>1, <2>1, <2>3, TypeUnregister DEF TypeOK, Take, callVars, cacheVars, exchangeVars
<1>3. CASE ~Registered(k, i)
  <2>1. UNCHANGED pending
    BY <1>3 DEF Take
  <2>2. reader' = IF Tail(reader.in) = <<>> THEN Resolved(reader.msg)
                  ELSE [at |-> "take", msg |-> reader.msg, in |-> Tail(reader.in)]
    BY <1>3 DEF Take
  <2>3. [at |-> "take", msg |-> reader.msg, in |-> Tail(reader.in)] \in Readers
    BY <1>0, <1>1 DEF Readers
  <2>4. reader' \in Readers
    BY <1>0, <2>2, <2>3, TypeResolved
  <2> QED
    BY <2>1, <2>4 DEF TypeOK, Take, callVars, cacheVars, exchangeVars
<1> QED
  BY <1>2, <1>3

LEMMA TypeGive == ASSUME TypeOK, Give PROVE TypeOK'
<1>1. reader.msg \in Report /\ reader.to \in Calls
  BY DEF TypeOK, Readers, Idle, Give
<1>2. <<reader.msg>> \in Seq(Result)
  BY <1>1 DEF Result
<1> QED
  BY <1>1, <1>2, TypeResolved DEF TypeOK, Give, callVars, cacheVars, exchangeVars

LEMMA TypeSubscriber == ASSUME TypeOK, FanOut \/ Consume PROVE TypeOK'
<1>1. Idle \in Readers
  BY DEF Readers
<1>2. watch' \in 0..WatchCap
  BY CapPositive DEF TypeOK, FanOut, Consume
<1> QED
  BY <1>1, <1>2 DEF TypeOK, FanOut, Consume, callVars, exchangeVars

\* What the exchange says is well formed.
LEMMA TypeSays ==
  ASSUME TypeOK, NEW e \in Execs, NEW s \in Statuses, NEW c \in Calls,
         NEW n \in OrderNos, n \in 1..Len(orders) + 1, Says(e, s, c, n)
  PROVE  reports' \in Seq(Report) /\ orders' \in Seq(Order)
<1>1. [status |-> s, call |-> c] \in Order
  BY DEF Order
<1>2. Exec(e, s, c, id[c], n) \in Report
  BY ExecIsReport DEF TypeOK
<1> QED
  BY <1>1, <1>2, PutIsOrders, AppendProperties DEF TypeOK, Says, Order

LEMMA TypeAnswer ==
  ASSUME TypeOK, NEW c \in Calls, NEW t \in {"reject", "mass"}, Answer(c, t)
  PROVE  reports' \in Seq(Report) /\ orders' \in Seq(Order)
<1>1. [type |-> t, id |-> id[c], to |-> c] \in Report
  BY AnswerIsReport DEF TypeOK
<1> QED
  BY <1>1, AppendProperties DEF TypeOK, Answer, Order

LEMMA OpenOrder ==
  ASSUME TypeOK, NEW n \in OrderNos, Open(n)
  PROVE  n \in 1..Len(orders) + 1 /\ n \in 1..Len(orders) /\ orders[n].call \in Calls /\ orders[n] \in Order
<1>1. orders \in Seq(Order) /\ n \in DOMAIN orders
  BY DEF TypeOK, Open, Order
<1>2. n \in 1..Len(orders) /\ orders[n] \in Order
  BY <1>1, LenProperties, ElementOfSeq
<1> QED
  BY <1>1, <1>2, LenProperties DEF Order

LEMMA TypeXAnswer == ASSUME TypeOK, XAnswer PROVE TypeOK'
<1> DEFINE c == Head(requests)
           fresh == Len(orders) + 1
<1>1. requests \in Seq(Calls) /\ requests # <<>>
  BY DEF TypeOK, XAnswer
<1>2. c \in Calls /\ Tail(requests) \in Seq(Calls)
  BY <1>1, HeadTailProperties
<1>3. op[c] \in Ops
  BY <1>2 DEF TypeOK
<1>4. Len(orders) \in Nat
  BY LenProperties DEF TypeOK
<1>5. reports' \in Seq(Report) /\ orders' \in Seq(Order)
  <2>1. CASE op[c] = "create"
    <3>1. /\ fresh \in OrderNos
          /\ Says("new", "new", c, fresh) \/ Says("rejected", "rejected", c, fresh)
      BY <2>1 DEF XAnswer
    <3>2. fresh \in 1..Len(orders) + 1 /\ {"new", "rejected"} \subseteq Execs \cap Statuses
      BY <1>4 DEF Execs, Statuses, Closed
    <3> HIDE DEF c, fresh
    <3> QED
      BY <1>2, <3>1, <3>2, TypeSays
  <2>2. CASE op[c] = "modify"
    <3>1. Answer(c, "reject") \/ \E n \in OrderNos : Open(n) /\ Says("replaced", "replaced", c, n)
      BY <2>2 DEF XAnswer
    <3>2. "replaced" \in Execs \cap Statuses
      BY DEF Execs, Statuses
    <3> HIDE DEF c
    <3> QED
      BY <1>2, <3>1, <3>2, TypeSays, TypeAnswer, OpenOrder
  <2>3. CASE op[c] = "cancel"
    <3>1. Answer(c, "reject") \/ \E n \in OrderNos : Open(n) /\ Says("canceled", "canceled", c, n)
      BY <2>3 DEF XAnswer
    <3>2. "canceled" \in Execs \cap Statuses
      BY DEF Execs, Statuses, Closed
    <3> HIDE DEF c
    <3> QED
      BY <1>2, <3>1, <3>2, TypeSays, TypeAnswer, OpenOrder
  <2>4. CASE op[c] = "masscancel"
    <3>1. Answer(c, "mass")
      BY <2>4 DEF XAnswer
    <3> HIDE DEF c
    <3> QED
      BY <1>2, <3>1, TypeAnswer
  <2> QED
    BY <1>3, <2>1, <2>2, <2>3, <2>4 DEF Ops
<1> QED
  BY <1>2, <1>5 DEF TypeOK, XAnswer, callVars, cacheVars, Order

LEMMA TypeUnaskedFor == ASSUME TypeOK, NEW n \in OrderNos, XTrade(n) \/ XCancel(n) PROVE TypeOK'
<1>1. Open(n) /\ n \in 1..Len(orders) + 1 /\ orders[n].call \in Calls
  BY OpenOrder DEF XTrade, XCancel
<1>2. /\ {"trade", "canceled"} \subseteq Execs
      /\ {"partial", "filled", "canceled"} \subseteq Statuses
  BY DEF Execs, Statuses, Closed
<1>3. reports' \in Seq(Report) /\ orders' \in Seq(Order)
  BY <1>1, <1>2, TypeSays DEF XTrade, XCancel
<1>4. /\ traded' \in {traded, traded + 1} /\ cancels' \in {cancels, cancels + 1}
      /\ UNCHANGED repeats
  BY DEF XTrade, XCancel
<1>5. UNCHANGED <<callVars, pending, slot, reader, cacheVars, requests, up>>
  BY DEF XTrade, XCancel
<1> QED
  BY <1>3, <1>4, <1>5 DEF TypeOK, callVars, cacheVars, Order

LEMMA TypeConnection == ASSUME TypeOK, Resend \/ Break PROVE TypeOK'
<1>1. CASE Resend
  <2>1. reports \in Seq(Report) /\ reports # <<>>
    BY <1>1 DEF TypeOK, Resend
  <2>2. Append(reports, Head(reports)) \in Seq(Report)
    BY <2>1, HeadTailProperties, AppendProperties
  <2> QED
    BY <1>1, <2>2 DEF TypeOK, Resend, callVars, cacheVars
<1>2. CASE Break
  <2>1. <<>> \in Seq(Report) /\ <<>> \in Seq(Calls)
    OBVIOUS
  <2> QED
    BY <1>2, <2>1 DEF TypeOK, Break, callVars, cacheVars
<1> QED
  BY <1>1, <1>2

LEMMA TypeStep == TypeOK /\ IInv /\ [Next]_vars => TypeOK'
<1> SUFFICES ASSUME TypeOK, IInv, [Next]_vars PROVE TypeOK'
  OBVIOUS
<1>1. ASSUME NEW c \in Calls, CallStep(c) PROVE TypeOK'
  BY <1>1, TypeRefuse, TypeRegister, TypeSendRequest, TypeTakeBack, TypeGiveBack, TypeReceive,
     TypeExpire, TypeGiveUp DEF CallStep
<1>2. CASE ReaderStep \/ Consume
  BY <1>2, TypeRead, TypeTake, TypeGive, TypeSubscriber DEF ReaderStep
<1>3. CASE Environment
  BY <1>3, TypeXAnswer, TypeUnaskedFor, TypeConnection DEF Environment
<1>4. CASE UNCHANGED vars
  BY <1>4 DEF vars, TypeOK
<1> QED
  BY <1>1, <1>2, <1>3, <1>4 DEF Next

\* Every message, result and registration has the form the code gives it, for any
\* number of calls and orders.
THEOREM EntryTypes == Spec => []TypeOK
  BY TypeInit, TypeStep, Invariance, PTL DEF Spec

-----------------------------------------------------------------------------
(* A call returns the answer to its own request.                            *)

\* Generated ClOrdIDs are numbers no other call has; a call gets its own when it
\* registers.
Generated ==
  \A c \in Calls :
    /\ id[c] \in Nat => id[c] <= counter
    /\ pc[c] = "idle" => id[c] = 0
    /\ pc[c] \notin {"idle", "done"} => id[c] # 0
    /\ \A d \in Calls : id[c] \in Nat \ {0} /\ id[d] = id[c] => d = c

\* A message carries the ClOrdID of the call it is about, and answers it, or is
\* a trade or a cancel of its order.
Addressed(m) ==
  /\ id[m.to] = m.id /\ m.id # 0
  /\ IF m.type = "exec" THEN m.exec \in {"canceled", "trade"} \cup Answers(op[m.to])
                        ELSE m.type \in Answers(op[m.to])

Requested == \A i \in DOMAIN requests : id[requests[i]] # 0
Named     == \A n \in DOMAIN orders : id[orders[n].call] # 0
Letters   == \A i \in DOMAIN reports : Addressed(reports[i])
Reading   ==
  /\ reader.at # "read" => Addressed(reader.msg)
  /\ reader.at = "take" /\ reader.msg.type = "exec" => reader.in = Lookup(reader.msg)

Mail == Requested /\ Named /\ Letters /\ Reading

Setting == TypeOK /\ IInv /\ Kept /\ Generated /\ Mail

LEMMA OnlyRegisterAsks ==
  ASSUME TypeOK, [Next]_vars, \A c \in Calls : ~Register(c)
  PROVE  /\ UNCHANGED <<counter, op, id>>
         /\ \A c \in Calls : /\ pc'[c] = "idle" => pc[c] = "idle"
                             /\ pc'[c] \notin {"idle", "done"} => pc[c] \notin {"idle", "done"}
<1>0. pc \in [Calls -> PCs]
  BY DEF TypeOK, PCs
<1>1. ASSUME NEW c \in Calls, CallStep(c)
      PROVE  /\ UNCHANGED <<counter, op, id>>
             /\ \E to \in PCs \ {"idle"} :
                  /\ pc' = [pc EXCEPT ![c] = to]
                  /\ to # "done" => pc[c] \notin {"idle", "done"}
  <2>1. CASE Refuse(c) \/ Receive(c) \/ GiveUp(c) \/ GiveBack(c)
    BY <2>1 DEF Refuse, Receive, GiveUp, GiveBack, Return, Goto, PCs
  <2>2. CASE SendRequest(c) \/ Expire(c)
    BY <2>2, Zenon DEF SendRequest, Expire, Goto, PCs
  <2>3. CASE TakeBack(c)
    BY <2>3 DEF TakeBack, Return, Goto, PCs
  <2> QED
    BY <1>1, <2>1, <2>2, <2>3 DEF CallStep
<1>2. CASE ReaderStep \/ Consume \/ Environment \/ UNCHANGED vars
  BY <1>2 DEF ReaderStep, Read, Take, Give, FanOut, Consume, Environment, XAnswer, XTrade,
              XCancel, Resend, Break, callVars, vars
<1> QED
  BY <1>0, <1>1, <1>2 DEF Next

\* What Register does.
LEMMA Registering ==
  ASSUME TypeOK, IInv, Generated, NEW c \in Calls, Register(c)
  PROVE  /\ pc[c] = "idle" /\ pc' = [pc EXCEPT ![c] = "send"] /\ id[c] = 0
         /\ DOMAIN id' = Calls /\ DOMAIN op' = Calls
         /\ \A d \in Calls : d # c => id'[d] = id[d] /\ op'[d] = op[d]
         /\ \/ id'[c] = counter + 1 /\ counter' = counter + 1
            \/ id'[c] \in OwnIds /\ counter' = counter
         /\ UNCHANGED <<slot, giving, ret, reader, requests, reports, orders, up>>
<1>1. PICK o \in Ops :
        /\ op' = [op EXCEPT ![c] = o]
        /\ \/ counter' = NextId /\ id' = [id EXCEPT ![c] = NextId]
           \/ /\ \E own \in OwnIds : id' = [id EXCEPT ![c] = own]
              /\ UNCHANGED counter
  BY DEF Register
<1>2. pc[c] = "idle" /\ pc' = [pc EXCEPT ![c] = "send"] /\ id[c] = 0
  BY DEF Register, Goto, Generated
<1> QED
  BY <1>1, <1>2 DEF Register, TypeOK, NextId, exchangeVars

LEMMA GeneratedInit == Init => Generated
<1> SUFFICES ASSUME Init PROVE Generated
  OBVIOUS
<1>1. \A c \in Calls : id[c] = 0 /\ pc[c] = "idle"
  BY DEF Init
<1>2. counter = 0
  BY DEF Init
<1>3. 0 <= 0 /\ 0 \in Nat
  OBVIOUS
<1>4. \A c \in Calls : /\ pc[c] \in {"idle", "done"} /\ id[c] <= counter
                       /\ id[c] \notin Nat \ {0}
  BY <1>1, <1>2, <1>3
<1> QED
  BY <1>1, <1>4 DEF Generated

LEMMA GeneratedStep == TypeOK /\ IInv /\ Generated /\ [Next]_vars => Generated'
<1> SUFFICES ASSUME TypeOK, IInv, Generated, [Next]_vars PROVE Generated'
  OBVIOUS
<1>0. counter \in Nat /\ id \in [Calls -> Ids] /\ pc \in [Calls -> PCs]
  BY DEF TypeOK, PCs
<1>1. ASSUME NEW c \in Calls, Register(c) PROVE Generated'
  BY <1>0, <1>1, Registering, OwnIdsApart DEF Generated
<1>2. CASE \A c \in Calls : ~Register(c)
  BY <1>2, OnlyRegisterAsks DEF Generated
<1> QED
  BY <1>1, <1>2

\* What is in the queues.
LEMMA Elements ==
  ASSUME TypeOK
  PROVE  /\ \A i \in DOMAIN requests : requests[i] \in Calls
         /\ \A i \in DOMAIN reports : reports[i] \in Report
         /\ \A n \in DOMAIN orders : orders[n].call \in Calls /\ orders[n].status \in Statuses
         /\ reader.at # "read" => reader.msg \in Report
<1>1. requests \in Seq(Calls) /\ reports \in Seq(Report) /\ orders \in Seq(Order)
  BY DEF TypeOK, Order
<1>2. \A n \in DOMAIN orders : orders[n] \in Order
  BY <1>1, ElementOfSeq, LenProperties
<1>3. reader.at # "read" => reader.msg \in Report
  BY DEF TypeOK, Readers, Idle
<1> QED
  BY <1>1, <1>2, <1>3, ElementOfSeq, LenProperties DEF Order

\* A queue one longer, a queue one shorter.
LEMMA Appended ==
  ASSUME NEW S, NEW q \in Seq(S), NEW x \in S
  PROVE  /\ DOMAIN Append(q, x) = DOMAIN q \cup {Len(q) + 1} /\ Len(q) \in Nat
         /\ DOMAIN q = 1..Len(q)
         /\ \A i \in DOMAIN q : Append(q, x)[i] = q[i]
         /\ Append(q, x)[Len(q) + 1] = x
  BY AppendProperties, LenProperties

LEMMA Shortened ==
  ASSUME NEW S, NEW q \in Seq(S), q # <<>>
  PROVE  /\ 1 \in DOMAIN q /\ Head(q) = q[1] /\ Len(q) \in Nat /\ Len(Tail(q)) = Len(q) - 1
         /\ DOMAIN q = 1..Len(q) /\ DOMAIN Tail(q) = 1..(Len(q) - 1)
         /\ \A i \in DOMAIN Tail(q) : i + 1 \in DOMAIN q /\ Tail(q)[i] = q[i + 1]
  BY HeadTailProperties, LenProperties, EmptySeq

LEMMA ReadingNext ==
  ASSUME UNCHANGED <<id, op>>, reader'.at # "read" => Addressed(reader'.msg),
         reader'.at = "take" /\ reader'.msg.type = "exec" => reader'.in = Lookup(reader'.msg)
  PROVE  Reading'
  BY DEF Reading, Addressed

LEMMA LettersNext ==
  ASSUME UNCHANGED <<id, op>>, \A i \in DOMAIN reports' : Addressed(reports'[i])
  PROVE  Letters'
  BY DEF Letters, Addressed

LEMMA MailInit == Init => Mail
  BY DEF Init, Mail, Requested, Named, Letters, Reading, Idle

\* A call that has no ClOrdID yet is not the subject of anything.
LEMMA RegisterMail ==
  ASSUME Setting, NEW c \in Calls, Register(c) PROVE Mail'
<1>1. /\ id[c] = 0
      /\ \A d \in Calls : d # c => id'[d] = id[d] /\ op'[d] = op[d]
      /\ UNCHANGED <<reader, requests, reports, orders>>
  BY Registering DEF Setting
<1>2. ASSUME NEW m \in Report, Addressed(m) PROVE Addressed(m)'
  <2>1. m.to \in Calls /\ m.to # c
    BY <1>1, <1>2, ReportParts DEF Addressed
  <2> QED
    BY <1>1, <1>2, <2>1 DEF Addressed
<1>3. Requested'
  <2>1. \A i \in DOMAIN requests : requests[i] \in Calls
    BY Elements DEF Setting
  <2> QED
    BY <1>1, <2>1 DEF Setting, Mail, Requested
<1>4. Named'
  <2>1. \A n \in DOMAIN orders : orders[n].call \in Calls
    BY Elements DEF Setting
  <2> QED
    BY <1>1, <2>1 DEF Setting, Mail, Named
<1>5. Letters'
  <2>1. \A i \in DOMAIN reports : reports[i] \in Report
    BY Elements DEF Setting
  <2> QED
    BY <1>1, <1>2, <2>1 DEF Setting, Mail, Letters
<1>6. Reading'
  <2>1. reader.at # "read" => reader.msg \in Report
    BY Elements DEF Setting
  <2> QED
    BY <1>1, <1>2, <2>1 DEF Setting, Mail, Reading
<1> QED
  BY <1>3, <1>4, <1>5, <1>6 DEF Mail

LEMMA SendRequestMail ==
  ASSUME Setting, NEW c \in Calls, SendRequest(c) PROVE Mail'
<1>1. UNCHANGED <<id, op, reader, reports, orders>> /\ pc[c] = "send"
  BY DEF SendRequest
<1>2. requests' = Append(requests, c) \/ requests' = requests
  BY Zenon DEF SendRequest
<1>3. Requested'
  <2>1. requests \in Seq(Calls) /\ id[c] # 0
    BY <1>1 DEF Setting, TypeOK, Generated
  <2> QED
    BY <1>1, <1>2, <2>1, AppendProperties DEF Setting, Mail, Requested
<1> QED
  BY <1>1, <1>3 DEF Setting, Mail, Named, Letters, Reading, Addressed

\* Steps that send nothing and read nothing.
LEMMA AsideMail ==
  ASSUME Setting, UNCHANGED <<id, op, requests, reports, orders>>,
         reader' = reader \/ Take \/ Give \/ FanOut
  PROVE  Mail'
<1>1. Requested' /\ Named' /\ Letters'
  BY DEF Setting, Mail, Requested, Named, Letters, Addressed
<1>2. ASSUME reader' = reader PROVE Reading'
  BY <1>2, ReadingNext DEF Setting, Mail, Reading
<1>3. ASSUME Give \/ FanOut PROVE Reading'
  <2>1. Addressed(reader.msg) /\ (reader' = Resolved(reader.msg) \/ reader' = Idle)
    BY <1>3 DEF Setting, Mail, Reading, Give, FanOut
  <2>2. reader'.at \in {"read", "fanout"} /\ (reader'.at # "read" => reader'.msg = reader.msg)
    BY <2>1 DEF Resolved, Idle
  <2> QED
    BY <2>1, <2>2, ReadingNext
<1>4. ASSUME Take PROVE Reading'
  <2>1. /\ Addressed(reader.msg) /\ reader.at = "take"
        /\ reader.msg.type = "exec" => reader.in = Lookup(reader.msg)
    BY <1>4 DEF Setting, Mail, Reading, Take
  <2>2. \/ \E to : reader' = [at |-> "give", msg |-> reader.msg, to |-> to]
        \/ reader' = Resolved(reader.msg)
        \/ /\ reader' = [at |-> "take", msg |-> reader.msg, in |-> Tail(reader.in)]
           /\ Tail(reader.in) # <<>>
    BY <1>4, Zenon DEF Take
  <2>3. reader.msg.type = "exec" => Tail(reader.in) = <<>>
    <3>1. reader.msg.type = "exec" => Lookup(reader.msg) \in {<<"order">>, <<"cancel">>}
      BY Zenon DEF Lookup
    <3>2. Tail(<<"order">>) = <<>> /\ Tail(<<"cancel">>) = <<>>
      OBVIOUS
    <3> QED
      BY <2>1, <3>1, <3>2
  <2>4. /\ reader'.at # "read" => reader'.msg = reader.msg
        /\ reader'.at = "take" => reader.msg.type # "exec"
    BY <2>2, <2>3 DEF Resolved, Idle
  <2> QED
    BY <2>1, <2>4, ReadingNext
<1> QED
  BY <1>1, <1>2, <1>3, <1>4 DEF Mail

LEMMA ReadMail == ASSUME Setting, Read PROVE Mail'
<1>1. /\ reports \in Seq(Report) /\ reports # <<>> /\ reports' = Tail(reports)
      /\ reader' = [at |-> "take", msg |-> Head(reports), in |-> Lookup(Head(reports))]
      /\ UNCHANGED <<id, op, requests, orders>>
  BY DEF Read, Setting, TypeOK, callVars
<1>2. /\ 1 \in DOMAIN reports /\ Head(reports) = reports[1]
      /\ \A i \in DOMAIN reports' : i + 1 \in DOMAIN reports /\ reports'[i] = reports[i + 1]
  BY <1>1, Shortened
<1>3. \A i \in DOMAIN reports : Addressed(reports[i])
  BY DEF Setting, Mail, Letters
<1>4. Letters'
  BY <1>1, <1>2, <1>3, LettersNext
<1>5. Reading'
  <2>1. Addressed(Head(reports))
    BY <1>2, <1>3
  <2> QED
    BY <1>1, <2>1, ReadingNext
<1> QED
  BY <1>1, <1>4, <1>5 DEF Setting, Mail, Requested, Named

\* What the exchange sends is addressed.
LEMMA AppendMail ==
  ASSUME Setting, UNCHANGED <<id, op, reader>>, Requested', Named',
         NEW m \in Report, Addressed(m), reports' = Append(reports, m)
  PROVE  Mail'
<1>1. reports \in Seq(Report)
  BY DEF Setting, TypeOK
<1>2. /\ DOMAIN reports' = DOMAIN reports \cup {Len(reports) + 1}
      /\ \A i \in DOMAIN reports : reports'[i] = reports[i]
      /\ reports'[Len(reports) + 1] = m
  BY <1>1, Appended
<1>3. Letters'
  BY <1>2, LettersNext DEF Setting, Mail, Letters
<1> QED
  BY <1>3, ReadingNext DEF Setting, Mail, Reading

LEMMA SaysMail ==
  ASSUME Setting, UNCHANGED <<id, op, reader>>, Requested', NEW e \in Execs, NEW s \in Statuses,
         NEW c \in Calls, NEW n \in OrderNos, Says(e, s, c, n), id[c] # 0,
         e \in {"canceled", "trade"} \cup Answers(op[c])
  PROVE  Mail'
<1>1. Exec(e, s, c, id[c], n) \in Report
  BY ExecIsReport DEF Setting, TypeOK
<1>2. Addressed(Exec(e, s, c, id[c], n))
  BY DEF Addressed, Exec
<1>3. Named'
  BY DEF Named, Says, Put, Setting, Mail
<1> QED
  BY <1>1, <1>2, <1>3, AppendMail DEF Says

LEMMA AnswerMail ==
  ASSUME Setting, UNCHANGED <<id, op, reader>>, Requested', NEW t \in {"reject", "mass"},
         NEW c \in Calls, Answer(c, t), id[c] # 0, t \in Answers(op[c])
  PROVE  Mail'
<1> DEFINE m == [type |-> t, id |-> id[c], to |-> c]
<1>1. m \in Report
  BY AnswerIsReport DEF Setting, TypeOK
<1>2. Addressed(m)
  BY DEF Addressed
<1>3. Named'
  BY DEF Named, Answer, Setting, Mail
<1>4. reports' = Append(reports, m)
  BY DEF Answer
<1> HIDE DEF m
<1> QED
  BY <1>1, <1>2, <1>3, <1>4, AppendMail

\* The request at the head is answered, or the order is changed that it names.
LEMMA Answering ==
  ASSUME TypeOK, XAnswer
  PROVE  LET c == Head(requests)
         IN  /\ c \in Calls /\ c = requests[1] /\ 1 \in DOMAIN requests
             /\ requests' = Tail(requests)
             /\ UNCHANGED <<callVars, pending, slot, reader, traded, repeats, up>>
             /\ \/ \E t \in {"reject", "mass"} : t \in Answers(op[c]) /\ Answer(c, t)
                \/ \E e \in {"new", "rejected", "replaced", "canceled"}, n \in OrderNos :
                     /\ e \in Answers(op[c]) /\ Says(e, e, c, n)
                     /\ n = Len(orders) + 1 \/ Open(n)
<1> DEFINE c == Head(requests)
           fresh == Len(orders) + 1
           Told == \/ \E t \in {"reject", "mass"} : t \in Answers(op[c]) /\ Answer(c, t)
                   \/ \E e \in {"new", "rejected", "replaced", "canceled"}, n \in OrderNos :
                        /\ e \in Answers(op[c]) /\ Says(e, e, c, n)
                        /\ n = Len(orders) + 1 \/ Open(n)
<1>1. requests \in Seq(Calls) /\ requests # <<>>
  BY DEF TypeOK, XAnswer
<1>2. c \in Calls /\ c = requests[1] /\ 1 \in DOMAIN requests
  BY <1>1, Shortened, ElementOfSeq, LenProperties
<1>3. op[c] \in Ops
  BY <1>2 DEF TypeOK
<1>4. DOMAIN orders = 1..Len(orders) /\ Len(orders) \in Nat
  BY LenProperties DEF TypeOK
<1>5. ASSUME op[c] = "create" PROVE Told
  <2>1. fresh \in OrderNos /\ (Says("new", "new", c, fresh) \/ Says("rejected", "rejected", c, fresh))
    BY <1>5 DEF XAnswer
  <2>2. Answers(op[c]) = {"new", "rejected"}
    BY <1>5 DEF Answers
  <2>3. fresh = Len(orders) + 1
    OBVIOUS
  <2> HIDE DEF c, fresh
  <2> QED
    BY <2>1, <2>2, <2>3 DEF Told
<1>6. ASSUME op[c] = "modify" PROVE Told
  <2>1. Answer(c, "reject") \/ \E n \in OrderNos : Open(n) /\ Says("replaced", "replaced", c, n)
    BY <1>6 DEF XAnswer
  <2>2. Answers(op[c]) = {"replaced", "reject"}
    BY <1>6 DEF Answers
  <2> HIDE DEF c
  <2> QED
    BY <1>4, <2>1, <2>2 DEF Told, Open
<1>7. ASSUME op[c] = "cancel" PROVE Told
  <2>1. Answer(c, "reject") \/ \E n \in OrderNos : Open(n) /\ Says("canceled", "canceled", c, n)
    BY <1>7 DEF XAnswer
  <2>2. Answers(op[c]) = {"canceled", "reject"}
    BY <1>7 DEF Answers
  <2> HIDE DEF c
  <2> QED
    BY <1>4, <2>1, <2>2 DEF Told, Open
<1>8. ASSUME op[c] = "masscancel" PROVE Told
  <2>1. Answer(c, "mass")
    BY <1>8 DEF XAnswer
  <2>2. Answers(op[c]) = {"mass"}
    BY <1>8 DEF Answers
  <2> HIDE DEF c
  <2> QED
    BY <2>1, <2>2 DEF Told
<1>9. /\ requests' = Tail(requests)
      /\ UNCHANGED <<callVars, pending, slot, reader, traded, repeats, up>>
  BY DEF XAnswer
<1>10. Told
  BY <1>3, <1>5, <1>6, <1>7, <1>8 DEF Ops
<1> QED
  BY <1>2, <1>9, <1>10

LEMMA XAnswerMail == ASSUME Setting, XAnswer PROVE Mail'
<1> DEFINE c == Head(requests)
<1>1. /\ c \in Calls /\ c = requests[1] /\ 1 \in DOMAIN requests
      /\ requests' = Tail(requests) /\ UNCHANGED <<op, id, reader>>
      /\ \/ \E t \in {"reject", "mass"} : t \in Answers(op[c]) /\ Answer(c, t)
         \/ \E e \in {"new", "rejected", "replaced", "canceled"}, n \in OrderNos :
              e \in Answers(op[c]) /\ Says(e, e, c, n)
  BY Answering DEF Setting, callVars
<1>2. requests \in Seq(Calls) /\ requests # <<>>
  BY DEF Setting, TypeOK, XAnswer
<1>3. id[c] # 0
  BY <1>1 DEF Setting, Mail, Requested
<1>4. \A i \in DOMAIN requests' : i + 1 \in DOMAIN requests /\ requests'[i] = requests[i + 1]
  BY <1>1, <1>2, Shortened
<1>5. Requested'
  BY <1>1, <1>4 DEF Setting, Mail, Requested
<1>6. {"new", "rejected", "replaced", "canceled"} \subseteq Execs \cap Statuses
  BY DEF Execs, Statuses, Closed
<1> HIDE DEF c
<1> QED
  BY <1>1, <1>3, <1>5, <1>6, SaysMail, AnswerMail

\* What the exchange says of an open order unasked.
LEMMA Unprompted ==
  ASSUME TypeOK, NEW n \in OrderNos, XTrade(n) \/ XCancel(n)
  PROVE  /\ UNCHANGED <<callVars, pending, slot, reader, requests, repeats, up>>
         /\ up /\ n \in DOMAIN orders /\ orders[n].call \in Calls /\ orders[n].status \notin Closed
         /\ \E e \in {"trade", "canceled"}, s \in {"partial", "filled", "canceled"} :
              /\ Says(e, s, orders[n].call, n) /\ (e = "canceled" => s = "canceled")
              /\ traded' = IF e = "trade" THEN traded + 1 ELSE traded
<1>1. up /\ Open(n) /\ UNCHANGED <<callVars, pending, slot, reader, requests, repeats, up>>
  BY Zenon DEF XTrade, XCancel
<1>2. n \in DOMAIN orders /\ orders[n].call \in Calls /\ orders[n].status \notin Closed
  BY <1>1, Elements DEF Open
<1>3. \E e \in {"trade", "canceled"}, s \in {"partial", "filled", "canceled"} :
        /\ Says(e, s, orders[n].call, n) /\ (e = "canceled" => s = "canceled")
        /\ traded' = IF e = "trade" THEN traded + 1 ELSE traded
  <2>1. CASE XTrade(n)
    BY <2>1 DEF XTrade
  <2>2. CASE XCancel(n)
    BY <2>2 DEF XCancel
  <2> QED
    BY <2>1, <2>2
<1> QED
  BY <1>1, <1>2, <1>3, Zenon

LEMMA UnpromptedMail == ASSUME Setting, NEW n \in OrderNos, XTrade(n) \/ XCancel(n) PROVE Mail'
<1>1. /\ UNCHANGED <<op, id, reader, requests>> /\ n \in DOMAIN orders /\ orders[n].call \in Calls
      /\ \E e \in {"trade", "canceled"}, s \in {"partial", "filled", "canceled"} :
           Says(e, s, orders[n].call, n)
  BY Unprompted DEF Setting, callVars
<1>2. Requested' /\ id[orders[n].call] # 0
  BY <1>1 DEF Setting, Mail, Requested, Named
<1>3. {"trade", "canceled"} \subseteq Execs /\ {"partial", "filled", "canceled"} \subseteq Statuses
  BY DEF Execs, Statuses, Closed
<1> QED
  BY <1>1, <1>2, <1>3, SaysMail

LEMMA ResendMail == ASSUME Setting, Resend PROVE Mail'
<1>1. /\ UNCHANGED <<op, id, reader, requests, orders>> /\ reports # <<>>
      /\ reports' = Append(reports, Head(reports))
  BY DEF Resend, callVars
<1>2. Head(reports) = reports[1] /\ 1 \in DOMAIN reports
  BY <1>1, Shortened DEF Setting, TypeOK
<1>3. Head(reports) \in Report /\ Addressed(Head(reports))
  BY <1>2, Elements DEF Setting, Mail, Letters
<1>4. Requested' /\ Named'
  BY <1>1 DEF Setting, Mail, Requested, Named
<1> QED
  BY <1>1, <1>3, <1>4, AppendMail

LEMMA BreakMail == ASSUME Setting, Break PROVE Mail'
<1>1. UNCHANGED <<op, id, reader, orders>> /\ requests' = <<>> /\ reports' = <<>>
  BY DEF Break, callVars
<1>2. Requested' /\ Letters'
  BY <1>1 DEF Requested, Letters
<1> QED
  BY <1>1, <1>2, ReadingNext DEF Setting, Mail, Named, Reading

LEMMA MailStep == Setting /\ [Next]_vars => Mail'
<1> SUFFICES ASSUME Setting, [Next]_vars PROVE Mail'
  OBVIOUS
<1>1. ASSUME NEW c \in Calls, CallStep(c) PROVE Mail'
  <2>1. CASE Refuse(c) \/ TakeBack(c) \/ GiveBack(c) \/ Receive(c) \/ Expire(c) \/ GiveUp(c)
    <3>1. UNCHANGED <<id, op, requests, reports, orders, reader>>
      BY <2>1 DEF Refuse, TakeBack, GiveBack, Receive, Expire, GiveUp, exchangeVars
    <3> QED
      BY <3>1, AsideMail
  <2> QED
    BY <1>1, <2>1, RegisterMail, SendRequestMail DEF CallStep
<1>2. CASE Take \/ Give \/ FanOut \/ Consume \/ UNCHANGED vars
  <2>1. UNCHANGED <<id, op, requests, reports, orders>> /\ (reader' = reader \/ Take \/ Give \/ FanOut)
    BY <1>2 DEF Take, Give, FanOut, Consume, vars, callVars, exchangeVars
  <2> QED
    BY <2>1, AsideMail
<1>3. CASE Environment
  BY <1>3, XAnswerMail, UnpromptedMail, ResendMail, BreakMail DEF Environment
<1> QED
  BY <1>1, <1>2, <1>3, ReadMail DEF Next, ReaderStep

IsAnswer(m, c) == m.to = c /\ m.type = "exec" /\ m.exec \in {"new", "rejected", "replaced"}
IsTrade(m, c)  == m.to = c /\ m.type = "exec" /\ m.exec = "trade"

\* The answer to call c is being read or is among the first j - 1 under way.
Coming(c, j) ==
  \/ reader.at = "take" /\ IsAnswer(reader.msg, c)
  \/ \E i \in DOMAIN reports : i < j /\ IsAnswer(reports[i], c)

\* A trade of the order that call c asked for comes after the answer to it.
TradesLater(c) ==
  /\ ~(reader.at = "take" /\ IsTrade(reader.msg, c))
  /\ \A j \in DOMAIN reports : IsTrade(reports[j], c) => Coming(c, j)
  /\ up => \A n \in DOMAIN orders :
       orders[n].call = c /\ orders[n].status \notin Closed => Coming(c, Len(reports) + 1)

AnswerFirst ==
  \A c \in Calls : id[c] \notin OwnIds /\ IsRegistered(c) => TradesLater(c)

\* A registration is new or an old one.
LEMMA StillRegistered ==
  ASSUME IInv, [Next]_vars, NEW d \in Calls, ~Register(d), IsRegistered(d)'
  PROVE  IsRegistered(d)
<1>0. DOMAIN pending = Correlators /\ CorrelatorOf(op[d]) \in Correlators
  BY CorrelatorIsOne DEF IInv, Shape
<1>1. ASSUME NEW c \in Calls, Register(c) PROVE IsRegistered(d)
  <2>1. PICK o \in Ops :
          /\ op' = [op EXCEPT ![c] = o]
          /\ \A e \in Calls : e # c => id'[e] = id[e]
          /\ pending' = [pending EXCEPT ![CorrelatorOf(o)] = Put(@, id'[c], c)]
    BY <1>1 DEF Register, IInv, Shape
  <2>2. c # d
    BY <1>1
  <2> QED
    BY <1>0, <2>1, <2>2, CorrelatorIsOne DEF IsRegistered, Registered, Put, IInv, Shape
<1>2. ASSUME UNCHANGED <<op, id>>,
             pending' = pending \/ \E k \in Correlators : \E i : pending' = Unregister(k, i)
      PROVE  IsRegistered(d)
  <2>1. CASE pending' = pending
    BY <1>2, <2>1 DEF IsRegistered, Registered
  <2>2. ASSUME NEW k \in Correlators, NEW i, pending' = Unregister(k, i) PROVE IsRegistered(d)
    <3>1. pending' = [pending EXCEPT ![k] = Drop(@, i)]
      BY <2>2 DEF Unregister
    <3> QED
      BY <1>0, <1>2, <3>1 DEF IsRegistered, Registered, Drop
  <2> QED
    BY <1>2, <2>1, <2>2
<1>3. ASSUME NEW c \in Calls, CallStep(c), ~Register(c) PROVE IsRegistered(d)
  <2>1. CASE Refuse(c) \/ SendRequest(c) \/ GiveBack(c) \/ Receive(c) \/ Expire(c)
    BY <1>2, <2>1 DEF Refuse, SendRequest, GiveBack, Receive, Expire
  <2>2. CASE TakeBack(c) \/ GiveUp(c)
    BY <1>2, <2>2, CorrelatorIsOne DEF TakeBack, GiveUp, Abandon
  <2> QED
    BY <1>3, <2>1, <2>2 DEF CallStep
<1>4. CASE Take
  <2>1. Head(reader.in) \in Correlators
    BY <1>4 DEF IInv, Shape, Taking, Take
  <2> QED
    BY <1>2, <1>4, <2>1 DEF Take, callVars
<1>5. CASE Read \/ Give \/ FanOut \/ Consume \/ Environment \/ UNCHANGED vars
  BY <1>2, <1>5 DEF Read, Give, FanOut, Consume, Environment, XAnswer, XTrade, XCancel, Resend,
                    Break, callVars, vars
<1> QED
  BY <1>1, <1>3, <1>4, <1>5 DEF Next, ReaderStep

LEMMA AnswerFirstInit == Init => AnswerFirst
<1> SUFFICES ASSUME Init, NEW c \in Calls PROVE ~IsRegistered(c)
  BY DEF AnswerFirst
<1> QED
  BY CorrelatorIsOne DEF Init, IsRegistered, Registered

\* Nothing is about a call before it registers.
LEMMA NewIsLater == ASSUME Setting, NEW c \in Calls, Register(c) PROVE TradesLater(c)'
<1>1. id[c] = 0 /\ UNCHANGED <<reader, reports, orders, up>>
  BY Registering DEF Setting
<1>2. /\ \A i \in DOMAIN reports : reports[i].to # c
      /\ \A n \in DOMAIN orders : orders[n].call # c
      /\ reader.at # "read" => reader.msg.to # c
  BY <1>1 DEF Setting, Mail, Named, Letters, Reading, Addressed
<1> QED
  BY <1>1, <1>2 DEF TradesLater, IsTrade

LEMMA AsideLater ==
  ASSUME NEW c \in Calls, TradesLater(c), UNCHANGED <<reports, orders, up>>,
         \/ reader' = reader
         \/ /\ reader'.at = "take" => reader'.msg = reader.msg /\ reader.at = "take"
            /\ reader.at = "take" => ~IsAnswer(reader.msg, c) \/ reader'.at = "take"
  PROVE  TradesLater(c)'
<1>1. \A j : Coming(c, j) => Coming(c, j)'
  BY DEF Coming, IsAnswer
<1>2. ~(reader.at = "take" /\ IsTrade(reader.msg, c))'
  BY DEF TradesLater, IsTrade
<1>3. \A j \in DOMAIN reports : IsTrade(reports[j], c) => Coming(c, j)'
  BY <1>1 DEF TradesLater
<1>4. up => \A n \in DOMAIN orders :
       orders[n].call = c /\ orders[n].status \notin Closed => Coming(c, Len(reports) + 1)'
  BY <1>1 DEF TradesLater
<1> QED
  BY <1>2, <1>3, <1>4 DEF TradesLater, IsTrade, Coming

LEMMA AppendLater ==
  ASSUME NEW c \in Calls, TradesLater(c), UNCHANGED <<reader, up>>, reports \in Seq(Report),
         NEW m \in Report, reports' = Append(reports, m),
         IsTrade(m, c) => Coming(c, Len(reports) + 1),
         up => \A n \in DOMAIN orders' :
           orders'[n].call = c /\ orders'[n].status \notin Closed =>
             \/ n \in DOMAIN orders /\ orders[n].call = c /\ orders[n].status \notin Closed
             \/ IsAnswer(m, c) \/ Coming(c, Len(reports) + 1)
  PROVE  TradesLater(c)'
<1>1. /\ DOMAIN reports' = DOMAIN reports \cup {Len(reports) + 1} /\ Len(reports) \in Nat
      /\ DOMAIN reports = 1..Len(reports)
      /\ \A i \in DOMAIN reports : reports'[i] = reports[i]
      /\ reports'[Len(reports) + 1] = m /\ Len(reports') = Len(reports) + 1
  BY Appended, AppendProperties
<1>2. \A j \in Nat : Coming(c, j) => Coming(c, j)'
  BY <1>1 DEF Coming, IsAnswer
<1>3. Coming(c, Len(reports) + 1) => Coming(c, Len(reports) + 1)'
  BY <1>1 DEF Coming, IsAnswer
<1>4. IsAnswer(m, c) => Coming(c, Len(reports) + 1)'
  BY <1>1 DEF Coming, IsAnswer
<1>5. ~(reader.at = "take" /\ IsTrade(reader.msg, c))'
  BY DEF TradesLater, IsTrade
<1>6. \A j \in DOMAIN reports' : IsTrade(reports'[j], c) => Coming(c, j)'
  BY <1>1, <1>2 DEF TradesLater
<1>7. up' => \A n \in DOMAIN orders' :
       orders'[n].call = c /\ orders'[n].status \notin Closed => Coming(c, Len(reports) + 1)'
  BY <1>3, <1>4 DEF TradesLater
<1> QED
  BY <1>1, <1>5, <1>6, <1>7 DEF TradesLater, IsTrade, Coming

LEMMA SaysLater ==
  ASSUME Setting, NEW c \in Calls, TradesLater(c), UNCHANGED <<reader, up>>,
         NEW e \in Execs, NEW s \in Statuses, NEW d \in Calls, NEW n \in OrderNos, Says(e, s, d, n),
         d = c /\ s \notin Closed => e \in {"new", "rejected", "replaced"}
                                     \/ Coming(c, Len(reports) + 1),
         d = c /\ e = "trade" => Coming(c, Len(reports) + 1)
  PROVE  TradesLater(c)'
<1> DEFINE m == Exec(e, s, d, id[d], n)
<1>1. m \in Report /\ m.to = d /\ m.type = "exec" /\ m.exec = e
  BY ExecIsReport DEF Setting, TypeOK, Exec
<1>2. reports' = Append(reports, m) /\ reports \in Seq(Report)
  BY DEF Says, Setting, TypeOK
<1>3. \A q \in DOMAIN orders' : \/ q = n /\ orders'[q].call = d /\ orders'[q].status = s
                                \/ q # n /\ q \in DOMAIN orders /\ orders'[q] = orders[q]
  BY DEF Says, Put
<1> HIDE DEF m
<1>4. IsTrade(m, c) => Coming(c, Len(reports) + 1)
  BY <1>1 DEF IsTrade
<1>5. \A q \in DOMAIN orders' :
           orders'[q].call = c /\ orders'[q].status \notin Closed =>
             \/ q \in DOMAIN orders /\ orders[q].call = c /\ orders[q].status \notin Closed
             \/ IsAnswer(m, c) \/ Coming(c, Len(reports) + 1)
  BY <1>1, <1>3 DEF IsAnswer
<1> QED
  BY <1>1, <1>2, <1>4, <1>5, AppendLater

LEMMA XAnswerLater ==
  ASSUME Setting, NEW c \in Calls, TradesLater(c), XAnswer PROVE TradesLater(c)'
<1> DEFINE d == Head(requests)
<1>1. /\ d \in Calls /\ UNCHANGED <<op, id, reader, up>>
      /\ \/ \E t \in {"reject", "mass"} : t \in Answers(op[d]) /\ Answer(d, t)
         \/ \E e \in {"new", "rejected", "replaced", "canceled"}, n \in OrderNos : Says(e, e, d, n)
  BY Answering DEF Setting, callVars
<1> HIDE DEF d
<1>2. ASSUME NEW t \in {"reject", "mass"}, Answer(d, t) PROVE TradesLater(c)'
  <2> DEFINE m == [type |-> t, id |-> id[d], to |-> d]
  <2>1. m \in Report /\ m.type # "exec"
    BY <1>1, AnswerIsReport DEF Setting, TypeOK
  <2>2. reports' = Append(reports, m) /\ reports \in Seq(Report) /\ orders' = orders
    BY <1>2 DEF Answer, Setting, TypeOK
  <2> HIDE DEF m
  <2>3. ~IsTrade(m, c)
    BY <2>1 DEF IsTrade
  <2> QED
    BY <1>1, <2>1, <2>2, <2>3, AppendLater
<1>3. ASSUME NEW e \in {"new", "rejected", "replaced", "canceled"}, NEW n \in OrderNos,
             Says(e, e, d, n)
      PROVE  TradesLater(c)'
  <2>1. e \in Execs /\ e \in Statuses /\ e # "trade" /\ (e = "canceled" => e \in Closed)
    BY DEF Execs, Statuses, Closed
  <2> QED
    BY <1>1, <1>3, <2>1, SaysLater
<1> QED
  BY <1>1, <1>2, <1>3

LEMMA UnpromptedLater ==
  ASSUME Setting, NEW c \in Calls, TradesLater(c), NEW n \in OrderNos, XTrade(n) \/ XCancel(n)
  PROVE  TradesLater(c)'
<1>1. /\ UNCHANGED <<reader, up>> /\ up /\ n \in DOMAIN orders /\ orders[n].call \in Calls
      /\ orders[n].status \notin Closed
      /\ \E e \in {"trade", "canceled"}, s \in {"partial", "filled", "canceled"} :
           Says(e, s, orders[n].call, n)
  BY Unprompted DEF Setting
<1>2. orders[n].call = c => Coming(c, Len(reports) + 1)
  BY <1>1 DEF TradesLater
<1>3. {"trade", "canceled"} \subseteq Execs /\ {"partial", "filled", "canceled"} \subseteq Statuses
  BY DEF Execs, Statuses, Closed
<1> QED
  BY <1>1, <1>2, <1>3, SaysLater

LEMMA ResendLater ==
  ASSUME Setting, NEW c \in Calls, TradesLater(c), Resend PROVE TradesLater(c)'
<1> DEFINE m == Head(reports)
<1>1. UNCHANGED <<reader, orders, up>> /\ reports # <<>> /\ reports' = Append(reports, m)
  BY DEF Resend
<1>2. m = reports[1] /\ 1 \in DOMAIN reports /\ reports \in Seq(Report) /\ Len(reports) \in Nat
  BY <1>1, Shortened DEF Setting, TypeOK
<1>3. m \in Report
  BY <1>2, Elements DEF Setting
<1> HIDE DEF m
<1>4. IsTrade(m, c) => Coming(c, 1)
  BY <1>2 DEF TradesLater
<1>5. Coming(c, 1) => Coming(c, Len(reports) + 1)
  BY <1>2, LenProperties DEF Coming
<1> QED
  BY <1>1, <1>2, <1>3, <1>4, <1>5, AppendLater

LEMMA BreakLater ==
  ASSUME NEW c \in Calls, TradesLater(c), Break PROVE TradesLater(c)'
<1>1. up' = FALSE /\ reports' = <<>> /\ reader' = reader
  BY DEF Break
<1> QED
  BY <1>1 DEF TradesLater, IsTrade

LEMMA ReadLater ==
  ASSUME Setting, NEW c \in Calls, TradesLater(c), Read PROVE TradesLater(c)'
<1>1. /\ reports # <<>> /\ reports' = Tail(reports) /\ reader = Idle
      /\ reader'.at = "take" /\ reader'.msg = Head(reports) /\ UNCHANGED <<orders, up>>
  BY DEF Read
<1>2. /\ 1 \in DOMAIN reports /\ Head(reports) = reports[1] /\ Len(reports) \in Nat
      /\ Len(reports') = Len(reports) - 1 /\ DOMAIN reports = 1..Len(reports)
      /\ \A i \in DOMAIN reports' : i + 1 \in DOMAIN reports /\ reports'[i] = reports[i + 1]
      /\ DOMAIN reports' = 1..(Len(reports) - 1)
  BY <1>1, Shortened DEF Setting, TypeOK
<1>3. ~(reader.at = "take")
  BY <1>1 DEF Idle
<1>4. \A j \in Nat : Coming(c, j + 1) => Coming(c, j)'
  <2> SUFFICES ASSUME NEW j \in Nat, NEW i \in DOMAIN reports, i < j + 1, IsAnswer(reports[i], c)
               PROVE  Coming(c, j)'
    BY <1>3 DEF Coming
  <2>1. CASE i = 1
    BY <1>1, <1>2, <2>1 DEF Coming, IsAnswer
  <2>2. CASE i # 1
    <3>1. i - 1 \in DOMAIN reports' /\ reports'[i - 1] = reports[i] /\ i - 1 < j
      BY <1>2, <2>2
    <3> QED
      BY <3>1 DEF Coming, IsAnswer
  <2> QED
    BY <2>1, <2>2
<1>5. ~(reader.at = "take" /\ IsTrade(reader.msg, c))'
  <2>1. ~Coming(c, 1)
    BY <1>2, <1>3 DEF Coming
  <2>2. ~IsTrade(reports[1], c)
    BY <1>2, <2>1 DEF TradesLater
  <2> QED
    BY <1>1, <1>2, <2>2 DEF IsTrade
<1>6. \A j \in DOMAIN reports' : IsTrade(reports'[j], c) => Coming(c, j)'
  <2> SUFFICES ASSUME NEW j \in DOMAIN reports', IsTrade(reports[j + 1], c) PROVE Coming(c, j)'
    BY <1>2
  <2>1. Coming(c, j + 1) /\ j \in Nat
    BY <1>2 DEF TradesLater
  <2> QED
    BY <1>4, <2>1
<1>7. up' => \A n \in DOMAIN orders' :
       orders'[n].call = c /\ orders'[n].status \notin Closed => Coming(c, Len(reports) + 1)'
  BY <1>1, <1>2, <1>4 DEF TradesLater, Coming, IsAnswer
<1> QED
  BY <1>1, <1>2, <1>5, <1>6, <1>7 DEF TradesLater, IsTrade, Coming

\* Who answers to a message's ClOrdID when it is a generated one.
LEMMA Addressee ==
  ASSUME Setting, NEW m \in Report, Addressed(m), NEW e \in Calls, id[e] \notin OwnIds, id[e] = m.id
  PROVE  m.to = e
<1>1. id[e] \in Nat /\ id[e] # 0 /\ id[m.to] = id[e] /\ m.to \in Calls
  BY ReportParts DEF Setting, TypeOK, Ids, Addressed
<1> QED
  BY <1>1 DEF Setting, Generated

LEMMA OnlyOps ==
  ASSUME NEW o \in Ops
  PROVE  /\ "new" \in Answers(o) => o = "create"
         /\ "rejected" \in Answers(o) => o = "create"
         /\ "replaced" \in Answers(o) => o = "modify"
         /\ "canceled" \in Answers(o) <=> o = "cancel"
         /\ "trade" \notin Answers(o)
  BY DEF Answers, Ops

\* Reading the answer takes the registration of the call it answers.
LEMMA TakeLater ==
  ASSUME Setting, NEW c \in Calls, TradesLater(c), IsRegistered(c), IsRegistered(c)', Take
  PROVE  TradesLater(c)'
<1>1. /\ reader.at = "take" /\ reader.msg \in Report /\ Addressed(reader.msg)
      /\ UNCHANGED <<op, id, reports, orders, up>>
      /\ reader.msg.type = "exec" => reader.in = Lookup(reader.msg)
  BY Elements DEF Take, Setting, Mail, Reading, callVars, exchangeVars
<1>2. CASE IsAnswer(reader.msg, c)
  <2>1. /\ reader.msg.id = id[c] /\ op[c] \in {"create", "modify"}
    <3>1. op[c] \in Ops
      BY DEF Setting, TypeOK
    <3>2. reader.msg.id = id[c] /\ reader.msg.exec \in Answers(op[c])
      BY <1>1, <1>2 DEF IsAnswer, Addressed
    <3> QED
      BY <1>2, <3>1, <3>2, OnlyOps DEF IsAnswer
  <2>2. Lookup(reader.msg) = <<"order">>
    BY <1>2 DEF IsAnswer, Lookup
  <2>3. Head(reader.in) = CorrelatorOf(op[c])
    BY <1>1, <1>2, <2>1, <2>2 DEF IsAnswer, CorrelatorOf
  <2>4. pending' = Unregister(CorrelatorOf(op[c]), id[c])
    BY <2>1, <2>3 DEF Take, IsRegistered
  <2> QED
    BY <1>1, <2>4, CorrelatorIsOne
    DEF IsRegistered, Registered, Unregister, Drop, Setting, TypeOK
<1>3. CASE ~IsAnswer(reader.msg, c)
  <2>1. \/ \E to : reader' = [at |-> "give", msg |-> reader.msg, to |-> to]
        \/ reader' = Resolved(reader.msg)
        \/ reader' = [at |-> "take", msg |-> reader.msg, in |-> Tail(reader.in)]
    BY Zenon DEF Take
  <2>2. reader'.at = "take" => reader'.msg = reader.msg
    BY <2>1 DEF Resolved, Idle
  <2> QED
    BY <1>1, <1>3, <2>2, AsideLater
<1> QED
  BY <1>2, <1>3

LEMMA AnswerFirstStep == Setting /\ AnswerFirst /\ [Next]_vars => AnswerFirst'
<1> SUFFICES ASSUME Setting, AnswerFirst, [Next]_vars, NEW c \in Calls,
                    (id[c] \notin OwnIds /\ IsRegistered(c))'
             PROVE  TradesLater(c)'
  BY DEF AnswerFirst
<1>1. CASE Register(c)
  BY <1>1, NewIsLater
<1>2. CASE ~Register(c)
  <2>1. IsRegistered(c)
    BY <1>2, StillRegistered DEF Setting
  <2>2. id[c] \notin OwnIds
    <3>1. CASE \E d \in Calls : Register(d)
      BY <1>2, <3>1, Registering DEF Setting
    <3>2. CASE \A d \in Calls : ~Register(d)
      BY <3>2, OnlyRegisterAsks DEF Setting
    <3> QED
      BY <3>1, <3>2
  <2>3. TradesLater(c)
    BY <2>1, <2>2 DEF AnswerFirst
  <2>4. ASSUME NEW d \in Calls, CallStep(d) PROVE TradesLater(c)'
    <3>1. UNCHANGED <<reader, reports, orders, up>>
      BY <2>4 DEF CallStep, Refuse, Register, SendRequest, TakeBack, GiveBack, Receive, Expire,
                  GiveUp, exchangeVars
    <3> QED
      BY <2>3, <3>1, AsideLater
  <2>5. CASE Give \/ FanOut
    <3>1. reader.at # "take" /\ reader'.at # "take" /\ UNCHANGED <<reports, orders, up>>
      BY <2>5 DEF Give, FanOut, Resolved, Idle, exchangeVars
    <3> QED
      BY <2>3, <3>1, AsideLater
  <2>6. CASE Consume \/ UNCHANGED vars
    <3>1. UNCHANGED <<reader, reports, orders, up>>
      BY <2>6 DEF Consume, vars, exchangeVars
    <3> QED
      BY <2>3, <3>1, AsideLater
  <2>7. CASE Environment
    BY <2>3, <2>7, XAnswerLater, UnpromptedLater, ResendLater, BreakLater DEF Environment
  <2> QED
    BY <2>1, <2>3, <2>4, <2>5, <2>6, <2>7, ReadLater, TakeLater DEF Next, ReaderStep
<1> QED
  BY <1>1, <1>2

GoodFor(c, r) ==
  CASE r.type = "exec"               -> r.to = c /\ r.exec \in Answers(op[c])
    [] r.type \in {"reject", "mass"} -> r.to = c /\ r.type \in Answers(op[c])
    [] OTHER                         -> r.type # "nothing"

\* What is in the channel of a call that generated its ClOrdID, about to be put
\* there, or returned, is its own answer.
DeliveredTo(c) ==
  /\ slot[c] # <<>> => pc[c] = "done" \/ GoodFor(c, Head(slot[c]))
  /\ reader.at = "give" /\ reader.to = c => GoodFor(c, reader.msg)
  /\ \A d \in Calls : pc[d] = "give" /\ giving[d] = c => d = c
  /\ pc[c] = "done" => GoodFor(c, Head(ret[c]))

Delivered == \A c \in Calls : id[c] \notin OwnIds => DeliveredTo(c)

LEMMA DeliveredInit == Init => Delivered
  BY DEF Init, Delivered, DeliveredTo, Idle

LEMMA RegisterDelivers ==
  ASSUME Setting, Delivered, NEW c \in Calls, Register(c) PROVE Delivered'
<1>1. /\ pc[c] = "idle" /\ pc' = [pc EXCEPT ![c] = "send"]
      /\ \A d \in Calls : d # c => id'[d] = id[d] /\ op'[d] = op[d]
      /\ UNCHANGED <<slot, giving, ret, reader>>
  BY Registering DEF Setting
<1>2. /\ slot[c] = <<>> /\ ~(reader.at = "give" /\ reader.to = c)
      /\ \A d \in Calls : ~(pc[d] = "give" /\ giving[d] = c)
  BY <1>1 DEF Setting, IInv, Untouched, ReaderGives, SendersGive
<1>3. DeliveredTo(c)'
  BY <1>1, <1>2 DEF DeliveredTo, Setting, IInv, Shape
<1>4. ASSUME NEW d \in Calls, d # c, DeliveredTo(d) PROVE DeliveredTo(d)'
  BY <1>1, <1>4 DEF DeliveredTo, GoodFor, Setting, IInv, Shape
<1> QED
  BY <1>1, <1>3, <1>4 DEF Delivered

\* A call moves on and nothing is given to anybody.
LEMMA MoveDelivers ==
  ASSUME Setting, Delivered, UNCHANGED <<op, id, reader>>, NEW c \in Calls, NEW to \in PCs \ {"give"},
         pc' = [pc EXCEPT ![c] = to], pc[c] # "done",
         to = "done" => GoodFor(c, Head(ret'[c])) \/ id[c] \in OwnIds,
         \A d \in Calls : /\ slot'[d] = slot[d] \/ slot'[d] = <<>>
                          /\ d # c => ret'[d] = ret[d] /\ giving'[d] = giving[d]
  PROVE  Delivered'
<1> SUFFICES ASSUME NEW e \in Calls, id[e] \notin OwnIds PROVE DeliveredTo(e)'
  BY DEF Delivered
<1>1. DeliveredTo(e) /\ pc \in [Calls -> PCs]
  BY DEF Delivered, Setting, IInv, Shape
<1> QED
  BY <1>1 DEF DeliveredTo, GoodFor

\* A registration under a generated ClOrdID is the call's that generated it.
LEMMA TakeBackDelivers ==
  ASSUME Setting, Delivered, NEW c \in Calls, TakeBack(c) PROVE Delivered'
<1> DEFINE k == CorrelatorOf(op[c])
<1>0. pc[c] = "unsent" /\ k \in Correlators /\ UNCHANGED <<op, id, slot, reader>>
  BY CorrelatorIsOne DEF TakeBack
<1>1. CASE Registered(k, id[c])
  <2>1. /\ giving' = [giving EXCEPT ![c] = pending[k][id[c]]]
        /\ pc' = [pc EXCEPT ![c] = "give"] /\ UNCHANGED ret
    BY <1>1 DEF TakeBack, Goto
  <2>2. pending[k][id[c]] \in Calls /\ id[pending[k][id[c]]] = id[c] /\ id[c] # 0
    BY <1>0, <1>1, FiledAsOwn DEF Registered, Setting, Generated
  <2> HIDE DEF k
  <2> DEFINE g == pending[k][id[c]]
  <2>3. id[g] \notin OwnIds => g = c
    BY <2>2 DEF Setting, TypeOK, Ids, Generated
  <2> HIDE DEF g
  <2> SUFFICES ASSUME NEW e \in Calls, id[e] \notin OwnIds PROVE DeliveredTo(e)'
    BY <1>0 DEF Delivered
  <2>4. DeliveredTo(e) /\ pc \in [Calls -> PCs] /\ giving \in [Calls -> Calls]
    BY DEF Delivered, Setting, IInv, Shape
  <2>5. \A d \in Calls : pc'[d] = "give" /\ giving'[d] = e => d = e
    BY <2>1, <2>3, <2>4 DEF DeliveredTo, g
  <2> QED
    BY <1>0, <2>1, <2>4, <2>5 DEF DeliveredTo, GoodFor
<1>2. CASE ~Registered(k, id[c])
  <2>1. /\ pc' = [pc EXCEPT ![c] = "done"] /\ ret' = [ret EXCEPT ![c] = <<[type |-> "unsent"]>>]
        /\ UNCHANGED giving
    BY <1>2 DEF TakeBack, Return, Goto
  <2>2. ret'[c] = <<[type |-> "unsent"]>> /\ \A d \in Calls : d # c => ret'[d] = ret[d]
    BY <2>1 DEF Setting, Kept
  <2>3. GoodFor(c, Head(ret'[c]))
    BY <2>2 DEF GoodFor
  <2> QED
    BY <1>0, <2>1, <2>2, <2>3, MoveDelivers DEF PCs
<1> QED
  BY <1>1, <1>2

LEMMA GiveBackDelivers ==
  ASSUME Setting, Delivered, NEW c \in Calls, GiveBack(c) PROVE Delivered'
<1>1. /\ pc[c] = "give" /\ pc' = [pc EXCEPT ![c] = "done"] /\ UNCHANGED <<op, id, reader>>
      /\ slot' = [slot EXCEPT ![giving[c]] = <<Nothing>>]
      /\ giving' = [giving EXCEPT ![c] = c]
      /\ ret' = [ret EXCEPT ![c] = <<[type |-> "unsent"]>>]
  BY DEF GiveBack, Return, Goto
<1>2. DOMAIN ret = Calls /\ DOMAIN slot = Calls /\ pc \in [Calls -> PCs] /\ giving \in [Calls -> Calls]
  BY DEF Setting, Kept, IInv, Shape
<1>3. GoodFor(c, Head(ret'[c]))
  BY <1>1, <1>2 DEF GoodFor
<1> SUFFICES ASSUME NEW e \in Calls, id[e] \notin OwnIds PROVE DeliveredTo(e)'
  BY <1>1 DEF Delivered
<1>4. DeliveredTo(e)
  BY DEF Delivered
<1>5. giving[c] = e => c = e
  BY <1>1, <1>4 DEF DeliveredTo
<1>6. CASE e = c
  BY <1>1, <1>2, <1>3, <1>4, <1>6 DEF DeliveredTo, GoodFor
<1>7. CASE e # c
  BY <1>1, <1>2, <1>4, <1>5, <1>7 DEF DeliveredTo, GoodFor
<1> QED
  BY <1>6, <1>7

\* What the reader takes a registration for is an answer, or the ClOrdID is the
\* caller's own.
LEMMA TakeDelivers ==
  ASSUME Setting, AnswerFirst, Delivered, Take PROVE Delivered'
<1> DEFINE k == Head(reader.in)
           m == reader.msg
           g == pending[k][m.id]
<1>1. /\ reader.at = "take" /\ m \in Report /\ Addressed(m) /\ k \in Correlators
      /\ UNCHANGED <<op, id, pc, slot, giving, ret>>
      /\ m.type = "exec" => reader.in = Lookup(m)
  BY Elements DEF Take, Setting, Mail, Reading, callVars, IInv, Shape, Taking
<1> SUFFICES ASSUME NEW e \in Calls, id[e] \notin OwnIds PROVE DeliveredTo(e)'
  BY <1>1 DEF Delivered
<1>2. ASSUME reader'.at = "give", reader'.to = e PROVE GoodFor(e, reader'.msg)
  <2>1. reader'.msg = m /\ e = g /\ m.id \in DOMAIN pending[k]
    <3>1. CASE Registered(k, m.id)
      BY <1>2, <3>1 DEF Take, Registered
    <3>2. CASE ~Registered(k, m.id)
      <4>1. reader' = Resolved(m) \/ reader'.at = "take"
        BY <3>2 DEF Take
      <4> QED
        BY <1>2, <4>1 DEF Resolved, Idle
    <3> QED
      BY <3>1, <3>2
  <2>2. IsRegistered(e) /\ CorrelatorOf(op[e]) = k /\ id[e] = m.id
    BY <1>1, <2>1, FiledAsOwn DEF Setting
  <2> HIDE DEF g, k, m
  <2>3. m.to = e
    BY <1>1, <2>2, Addressee
  <2>4. op[e] \in Ops
    BY DEF Setting, TypeOK
  <2>5. CASE m.type = "exec"
    <3>1. m.exec \in {"canceled", "trade"} \cup Answers(op[e])
      BY <1>1, <2>3, <2>5 DEF Addressed
    <3>2. m.exec # "trade"
      BY <1>1, <2>2, <2>3, <2>5 DEF AnswerFirst, TradesLater, IsTrade, m
    <3>3. ASSUME m.exec = "canceled" PROVE op[e] = "cancel"
      <4>1. Lookup(m) = <<"cancel">>
        BY <2>5, <3>3 DEF Lookup
      <4>2. k = "cancel"
        BY <1>1, <2>5, <4>1 DEF k
      <4> QED
        BY <2>2, <2>4, <4>2 DEF CorrelatorOf
    <3> QED
      BY <2>1, <2>3, <2>4, <2>5, <3>1, <3>2, <3>3, OnlyOps DEF GoodFor
  <2>6. CASE m.type # "exec"
    <3>1. m.type \in {"reject", "mass"} /\ m.type \in Answers(op[e])
      BY <1>1, <2>3, <2>6, ReportParts DEF Addressed
    <3> QED
      BY <2>1, <2>3, <3>1 DEF GoodFor
  <2> QED
    BY <2>5, <2>6
<1>3. DeliveredTo(e)
  BY DEF Delivered
<1> HIDE DEF k, m, g
<1> QED
  BY <1>1, <1>2, <1>3 DEF DeliveredTo, GoodFor

LEMMA GiveDelivers ==
  ASSUME Setting, Delivered, Give PROVE Delivered'
<1>1. /\ reader.at = "give" /\ slot' = [slot EXCEPT ![reader.to] = <<reader.msg>>]
      /\ reader' = Resolved(reader.msg) /\ UNCHANGED <<op, id, pc, giving, ret>>
  BY DEF Give, callVars
<1>2. reader'.at # "give" /\ DOMAIN slot = Calls
  BY <1>1 DEF Resolved, Idle, Setting, IInv, Shape
<1> SUFFICES ASSUME NEW e \in Calls, id[e] \notin OwnIds PROVE DeliveredTo(e)'
  BY <1>1 DEF Delivered
<1>3. DeliveredTo(e)
  BY DEF Delivered
<1>4. CASE reader.to = e
  <2>1. slot'[e] = <<reader.msg>> /\ GoodFor(e, reader.msg)
    BY <1>1, <1>2, <1>3, <1>4 DEF DeliveredTo
  <2>2. Head(slot'[e]) = reader.msg
    BY <2>1
  <2> QED
    BY <1>1, <1>2, <1>3, <2>1, <2>2 DEF DeliveredTo, GoodFor
<1>5. CASE reader.to # e
  BY <1>1, <1>2, <1>3, <1>5 DEF DeliveredTo, GoodFor
<1> QED
  BY <1>4, <1>5

\* Steps that leave the calls alone and give nothing.
LEMMA AsideDelivers ==
  ASSUME Delivered, UNCHANGED <<op, id, pc, slot, giving, ret>>,
         reader'.at # "give" \/ reader' = reader
  PROVE  Delivered'
  BY DEF Delivered, DeliveredTo, GoodFor

LEMMA DeliveredStep == Setting /\ AnswerFirst /\ Delivered /\ [Next]_vars => Delivered'
<1> SUFFICES ASSUME Setting, AnswerFirst, Delivered, [Next]_vars PROVE Delivered'
  OBVIOUS
<1>0. DOMAIN ret = Calls /\ DOMAIN slot = Calls
  BY DEF Setting, Kept, IInv, Shape
<1>1. ASSUME NEW c \in Calls, Refuse(c) \/ GiveUp(c) PROVE Delivered'
  <2>1. PICK t \in {"invalid", "ctx"} :
          /\ pc' = [pc EXCEPT ![c] = "done"] /\ pc[c] # "done"
          /\ ret' = [ret EXCEPT ![c] = <<[type |-> t]>>]
          /\ UNCHANGED <<op, id, reader, slot, giving>>
    BY <1>1 DEF Refuse, GiveUp, Return, Goto
  <2>2. Head(ret'[c]) = [type |-> t]
    BY <1>0, <2>1
  <2>3. GoodFor(c, Head(ret'[c]))
    BY <2>2 DEF GoodFor
  <2> QED
    BY <1>0, <2>1, <2>3, MoveDelivers DEF PCs
<1>2. ASSUME NEW c \in Calls, SendRequest(c) \/ Expire(c) PROVE Delivered'
  <2>1. PICK to \in {"wait", "unsent", "expired"} :
          /\ pc' = [pc EXCEPT ![c] = to] /\ pc[c] # "done"
          /\ UNCHANGED <<op, id, reader, slot, giving, ret>>
    BY <1>2, Zenon DEF SendRequest, Expire, Goto
  <2> QED
    BY <2>1, MoveDelivers DEF PCs
<1>3. ASSUME NEW c \in Calls, Receive(c) PROVE Delivered'
  <2>1. /\ pc' = [pc EXCEPT ![c] = "done"] /\ pc[c] = "wait" /\ slot[c] # <<>>
        /\ slot' = [slot EXCEPT ![c] = <<>>] /\ ret' = [ret EXCEPT ![c] = <<Head(slot[c])>>]
        /\ UNCHANGED <<op, id, reader, giving>>
    BY <1>3 DEF Receive, Return, Goto
  <2>2. Head(ret'[c]) = Head(slot[c])
    BY <1>0, <2>1
  <2>3. id[c] \notin OwnIds => GoodFor(c, Head(slot[c]))
    BY <2>1 DEF Delivered, DeliveredTo
  <2> QED
    BY <1>0, <2>1, <2>2, <2>3, MoveDelivers DEF PCs
<1>4. CASE Read \/ FanOut \/ Consume \/ Environment \/ UNCHANGED vars
  <2>1. /\ UNCHANGED <<op, id, pc, slot, giving, ret>>
        /\ reader'.at # "give" \/ reader' = reader
    <3>1. CASE Read \/ FanOut
      BY <3>1 DEF Read, FanOut, Idle, callVars
    <3>2. CASE Consume \/ Environment \/ UNCHANGED vars
      BY <3>2 DEF Consume, Environment, XAnswer, XTrade, XCancel, Resend, Break, callVars, vars
    <3> QED
      BY <1>4, <3>1, <3>2
  <2> QED
    BY <2>1, AsideDelivers
<1> QED
  BY <1>1, <1>2, <1>3, <1>4, RegisterDelivers, TakeBackDelivers, GiveBackDelivers, TakeDelivers,
     GiveDelivers DEF Next, CallStep, ReaderStep

\* A call whose ClOrdID was generated returns the answer to its own request
\* (forts/trading.go:41-43, 90-91, 129-131, 169-172; forts/id-mapping.go:61-62),
\* whatever the other calls do with ClOrdIDs of their own.
THEOREM AnswersAreOwn == Spec => []OwnAnswer
<1>1. Init => Generated /\ Mail /\ AnswerFirst /\ Delivered
  BY GeneratedInit, MailInit, AnswerFirstInit, DeliveredInit
<1>2. Spec => []Kept
  BY KeptInit, KeptStep, Invariance, PTL DEF Spec
<1>3. /\ TypeOK /\ IInv /\ Kept /\ Generated /\ Mail /\ AnswerFirst /\ Delivered /\ [Next]_vars
      => Generated' /\ Mail' /\ AnswerFirst' /\ Delivered'
  BY GeneratedStep, MailStep, AnswerFirstStep, DeliveredStep DEF Setting
<1>4. Delivered => OwnAnswer
  BY DEF Delivered, DeliveredTo, GoodFor, OwnAnswer
<1> QED
  BY <1>1, <1>2, <1>3, <1>4, EntryTypes, Invariance, PTL DEF Spec

-----------------------------------------------------------------------------
(* The cache, the position and what the exchange said.                      *)

About(m, n) == m.type = "exec" /\ m.order = n

\* The reader has put into the cache what it hands out.
CachedWas(m) ==
  m.type = "exec" =>
    /\ m.order \in DOMAIN openOrders
    /\ m.status \in Closed /\ repeats = 0 => openOrders[m.order] \in Closed

Cached ==
  /\ reader.at # "read" => CachedWas(reader.msg)
  /\ \A c \in Calls : /\ slot[c] # <<>> => CachedWas(Head(slot[c]))
                      /\ ret[c] # <<>> => CachedWas(Head(ret[c]))

\* Only orders the exchange knows are cached or reported.
Known ==
  /\ DOMAIN openOrders \subseteq DOMAIN orders
  /\ \A i \in DOMAIN reports : reports[i].type = "exec" => reports[i].order \in DOMAIN orders

\* A closed order stays closed: nothing is reported about it after it closed.
ClosedIsLast ==
  /\ \A n \in DOMAIN openOrders : openOrders[n] \in Closed =>
       orders[n].status \in Closed /\ \A i \in DOMAIN reports : ~About(reports[i], n)
  /\ \A n \in DOMAIN orders : \A i \in DOMAIN reports :
       About(reports[i], n) /\ reports[i].status \in Closed =>
         orders[n].status \in Closed /\ \A j \in DOMAIN reports : About(reports[j], n) => j <= i

\* The last report about an order, or the cache when none is under way, has its
\* status.
Shown(n) ==
  \/ /\ n \in DOMAIN openOrders /\ openOrders[n] = orders[n].status
     /\ \A i \in DOMAIN reports : ~About(reports[i], n)
  \/ \E j \in DOMAIN reports :
       /\ About(reports[j], n) /\ reports[j].status = orders[n].status
       /\ \A i \in DOMAIN reports : About(reports[i], n) => i <= j

AllShown == \A n \in DOMAIN orders : Shown(n)

\* The fills under way.
Fills == {i \in DOMAIN reports : reports[i].type = "exec" /\ reports[i].exec = "trade"}

Booked == IsFiniteSet(Fills) /\ position + Cardinality(Fills) = traded

Current == /\ repeats = 0 => ClosedIsLast
           /\ up /\ repeats = 0 => AllShown /\ Booked

LEMMA CurrentInit == Init => Cached /\ Known /\ Current
<1> SUFFICES ASSUME Init PROVE Cached /\ Known /\ Current
  OBVIOUS
<1>1. /\ reader = Idle /\ openOrders = <<>> /\ position = 0 /\ reports = <<>> /\ orders = <<>>
      /\ traded = 0 /\ \A c \in Calls : slot[c] = <<>> /\ ret[c] = <<>>
  BY DEF Init
<1>2. DOMAIN <<>> = {} /\ Idle.at = "read"
  BY DEF Idle
<1>3. Fills = {}
  BY <1>1, <1>2 DEF Fills
<1>4. Booked
  BY <1>1, <1>3, FS_EmptySet DEF Booked
<1>5. Cached /\ Known /\ ClosedIsLast /\ AllShown
  BY <1>1, <1>2 DEF Cached, Known, ClosedIsLast, AllShown
<1> QED
  BY <1>4, <1>5 DEF Current

-----------------------------------------------------------------------------
\* One fill more under way, and one fill less.
LEMMA FillsAppended ==
  ASSUME IsFiniteSet(Fills), reports \in Seq(Report), NEW m \in Report,
         reports' = Append(reports, m)
  PROVE  /\ IsFiniteSet(Fills')
         /\ Cardinality(Fills') = Cardinality(Fills)
              + IF m.type = "exec" /\ m.exec = "trade" THEN 1 ELSE 0
<1> DEFINE l == Len(reports) + 1
<1>1. /\ DOMAIN reports' = DOMAIN reports \cup {l} /\ l \notin DOMAIN reports
      /\ \A i \in DOMAIN reports : reports'[i] = reports[i]
      /\ reports'[l] = m
  BY Appended
<1>2. Fills' = IF m.type = "exec" /\ m.exec = "trade" THEN Fills \cup {l} ELSE Fills
  BY <1>1 DEF Fills
<1>3. l \notin Fills /\ Cardinality(Fills) \in Nat
  BY <1>1, FS_CardinalityType DEF Fills
<1> HIDE DEF l
<1>4. IsFiniteSet(Fills \cup {l}) /\ Cardinality(Fills \cup {l}) = Cardinality(Fills) + 1
  BY <1>3, FS_AddElement
<1>5. CASE m.type = "exec" /\ m.exec = "trade"
  BY <1>2, <1>4, <1>5
<1>6. CASE ~(m.type = "exec" /\ m.exec = "trade")
  <2>1. Fills' = Fills
    BY <1>2, <1>6
  <2> QED
    BY <1>3, <1>6, <2>1
<1> QED
  BY <1>5, <1>6

LEMMA FillsShortened ==
  ASSUME IsFiniteSet(Fills), reports \in Seq(Report), reports # <<>>, reports' = Tail(reports)
  PROVE  /\ IsFiniteSet(Fills')
         /\ Cardinality(Fills) = Cardinality(Fills')
              + IF reports[1].type = "exec" /\ reports[1].exec = "trade" THEN 1 ELSE 0
<1>1. /\ 1 \in DOMAIN reports /\ Len(reports) \in Nat
      /\ DOMAIN reports = 1..Len(reports) /\ DOMAIN reports' = 1..(Len(reports) - 1)
      /\ \A i \in DOMAIN reports' : i + 1 \in DOMAIN reports /\ reports'[i] = reports[i + 1]
  BY Shortened
<1> DEFINE rest == Fills \ {1}
           f == [i \in rest |-> i - 1]
<1>2. /\ IsFiniteSet(rest)
      /\ Cardinality(rest) = IF 1 \in Fills THEN Cardinality(Fills) - 1 ELSE Cardinality(Fills)
  BY FS_RemoveElement
<1>3. \A i \in rest : i - 1 \in Fills'
  BY <1>1 DEF Fills
<1>4. \A i \in Fills' : i + 1 \in rest
  BY <1>1 DEF Fills
<1>5. rest \subseteq Int /\ Fills' \subseteq Int
  BY <1>1 DEF Fills
<1>6. f \in Bijection(rest, Fills')
  <2> HIDE DEF rest
  <2>1. f \in [rest -> Fills']
    BY <1>3
  <2>2. \A x, y \in rest : f[x] = f[y] => x = y
    BY <1>5
  <2>3. \A t \in Fills' : \E s \in rest : f[s] = t
    BY <1>4, <1>5
  <2> HIDE DEF f
  <2> QED
    BY <2>1, <2>2, <2>3 DEF Bijection, Injection, Surjection, IsInjective
<1>7. ExistsBijection(rest, Fills')
  BY <1>6 DEF ExistsBijection
<1>8. IsFiniteSet(Fills') /\ Cardinality(Fills') = Cardinality(rest)
  <2> HIDE DEF rest
  <2> QED
    BY <1>2, <1>7, FS_Bijection
<1>9. 1 \in Fills <=> reports[1].type = "exec" /\ reports[1].exec = "trade"
  BY <1>1 DEF Fills
<1> HIDE DEF rest
<1> QED
  BY <1>2, <1>8, <1>9, FS_CardinalityType

LEMMA BookedNext ==
  ASSUME IsFiniteSet(Fills'), position' + Cardinality(Fills') = traded'
  PROVE  Booked'
  BY DEF Booked

LEMMA StillCurrent ==
  ASSUME Known, Current, UNCHANGED <<openOrders, position, reports, orders, traded, repeats, up>>
  PROVE  Known' /\ Current'
<1>1. Known' /\ (repeats = 0 => ClosedIsLast')
  BY DEF Known, Current, ClosedIsLast, About
<1>2. AllShown => AllShown'
  BY DEF AllShown, Shown, About
<1>3. Fills' = Fills
  BY DEF Fills
<1>4. Booked => Booked'
  BY <1>3, BookedNext DEF Booked
<1> QED
  BY <1>1, <1>2, <1>4 DEF Current

\* A report about an order that is open or new is the last about it.
LEMMA SaysCurrent ==
  ASSUME TypeOK, Known, Current, UNCHANGED <<openOrders, position, repeats, up>>,
         NEW e \in Execs, NEW s \in Statuses, NEW c \in Calls, NEW n \in OrderNos,
         Says(e, s, c, n), n = Len(orders) + 1 \/ Open(n),
         traded' = IF e = "trade" THEN traded + 1 ELSE traded
  PROVE  Known' /\ Current'
<1> DEFINE m == Exec(e, s, c, id[c], n)
           l == Len(reports) + 1
<1>1. m \in Report /\ m.type = "exec" /\ m.exec = e /\ m.order = n /\ m.status = s
  BY ExecIsReport DEF TypeOK, Exec
<1>2. reports' = Append(reports, m) /\ reports \in Seq(Report) /\ Len(orders) \in Nat
      /\ DOMAIN orders = 1..Len(orders)
  BY LenProperties DEF Says, TypeOK
<1>3. /\ DOMAIN orders' = DOMAIN orders \cup {n} /\ orders'[n].status = s
      /\ \A q \in DOMAIN orders : q # n => orders'[q] = orders[q]
  BY DEF Says, Put
<1>4. n \in DOMAIN orders => orders[n].status \notin Closed
  BY <1>2 DEF Open
<1> HIDE DEF m
<1>5. /\ DOMAIN reports' = DOMAIN reports \cup {l} /\ DOMAIN reports = 1..Len(reports)
      /\ \A i \in DOMAIN reports : reports'[i] = reports[i]
      /\ reports'[l] = m /\ l \notin DOMAIN reports /\ l \in Nat
      /\ \A i \in DOMAIN reports : i \in Nat /\ i <= l
  BY <1>1, <1>2, Appended
<1> HIDE DEF l
<1>6. Known'
  BY <1>1, <1>3, <1>5 DEF Known
<1>7. ASSUME repeats = 0 PROVE ClosedIsLast'
  <2>1. ClosedIsLast
    BY <1>7 DEF Current
  <2>2. n \in DOMAIN openOrders => openOrders[n] \notin Closed
    BY <1>4, <2>1 DEF Known, ClosedIsLast
  <2>3. \A i \in DOMAIN reports : About(reports[i], n) => reports[i].status \notin Closed
    BY <1>4, <2>1 DEF Known, ClosedIsLast, About
  <2>4. ASSUME NEW q \in DOMAIN openOrders, openOrders[q] \in Closed
        PROVE  orders'[q].status \in Closed /\ \A i \in DOMAIN reports' : ~About(reports'[i], q)
    <3>1. q # n /\ orders[q].status \in Closed /\ \A i \in DOMAIN reports : ~About(reports[i], q)
      BY <2>1, <2>2, <2>4 DEF ClosedIsLast
    <3> QED
      BY <1>1, <1>3, <1>5, <3>1, <2>4 DEF About, Known
  <2>5. ASSUME NEW q \in DOMAIN orders', NEW i \in DOMAIN reports',
               About(reports'[i], q), reports'[i].status \in Closed
        PROVE  orders'[q].status \in Closed
               /\ \A j \in DOMAIN reports' : About(reports'[j], q) => j <= i
    <3>1. CASE i = l
      BY <1>1, <1>3, <1>5, <2>5, <3>1 DEF About
    <3>2. CASE i # l
      <4>1. i \in DOMAIN reports /\ About(reports[i], q) /\ reports[i].status \in Closed /\ q # n
        BY <1>5, <2>3, <2>5, <3>2
      <4>2. /\ q \in DOMAIN orders /\ orders[q].status \in Closed
            /\ \A j \in DOMAIN reports : About(reports[j], q) => j <= i
        BY <1>3, <2>1, <4>1 DEF ClosedIsLast
      <4> QED
        BY <1>1, <1>3, <1>5, <4>1, <4>2 DEF About
    <3> QED
      BY <3>1, <3>2
  <2> QED
    BY <2>4, <2>5 DEF ClosedIsLast, About
<1>8. ASSUME AllShown PROVE AllShown'
  <2> SUFFICES ASSUME NEW q \in DOMAIN orders' PROVE Shown(q)'
    BY DEF AllShown
  <2>1. CASE q = n
    BY <1>1, <1>3, <1>5, <2>1 DEF Shown, About
  <2>2. CASE q # n
    <3>1. Shown(q) /\ orders'[q] = orders[q] /\ ~About(m, q)
      BY <1>1, <1>3, <1>8, <2>2 DEF AllShown, About
    <3> QED
      BY <1>5, <3>1 DEF Shown, About
  <2> QED
    BY <2>1, <2>2
<1>9. ASSUME Booked PROVE Booked'
  <2>1. /\ IsFiniteSet(Fills')
        /\ Cardinality(Fills') = Cardinality(Fills) + IF e = "trade" THEN 1 ELSE 0
    BY <1>1, <1>2, <1>9, FillsAppended DEF Booked
  <2>2. position \in Nat /\ Cardinality(Fills) \in Nat /\ position + Cardinality(Fills) = traded
    BY <1>9, FS_CardinalityType DEF Booked, TypeOK
  <2> QED
    BY <2>1, <2>2, BookedNext
<1> QED
  BY <1>6, <1>7, <1>8, <1>9 DEF Current

LEMMA AnswerCurrent ==
  ASSUME TypeOK, Known, Current, UNCHANGED <<openOrders, position, traded, repeats, up>>,
         NEW c \in Calls, NEW t \in {"reject", "mass"}, Answer(c, t)
  PROVE  Known' /\ Current'
<1> DEFINE m == [type |-> t, id |-> id[c], to |-> c]
           l == Len(reports) + 1
<1>1. m \in Report /\ m.type # "exec"
  BY AnswerIsReport DEF TypeOK
<1>2. reports' = Append(reports, m) /\ reports \in Seq(Report) /\ orders' = orders
  BY DEF Answer, TypeOK
<1> HIDE DEF m
<1>3. /\ DOMAIN reports' = DOMAIN reports \cup {l}
      /\ \A i \in DOMAIN reports : reports'[i] = reports[i]
      /\ reports'[l] = m
  BY <1>1, <1>2, Appended
<1> HIDE DEF l
<1>4. \A n : /\ \A i \in DOMAIN reports : About(reports'[i], n) <=> About(reports[i], n)
             /\ ~About(reports'[l], n)
  BY <1>1, <1>3 DEF About
<1>5. Known'
  BY <1>1, <1>2, <1>3 DEF Known
<1>6. ClosedIsLast => ClosedIsLast'
  BY <1>1, <1>2, <1>3 DEF ClosedIsLast, About
<1>7. AllShown => AllShown'
  <2> SUFFICES ASSUME NEW n \in DOMAIN orders, Shown(n) PROVE Shown(n)'
    BY <1>2 DEF AllShown
  <2> QED
    BY <1>1, <1>2, <1>3 DEF Shown, About
<1>8. ASSUME Booked PROVE Booked'
  <2>1. IsFiniteSet(Fills') /\ Cardinality(Fills') = Cardinality(Fills) + 0
    BY <1>1, <1>2, <1>8, FillsAppended DEF Booked
  <2>2. Cardinality(Fills) \in Nat /\ position + Cardinality(Fills) = traded
    BY <1>8, FS_CardinalityType DEF Booked
  <2> QED
    BY <2>1, <2>2, BookedNext
<1> QED
  BY <1>5, <1>6, <1>7, <1>8 DEF Current

LEMMA ConnectionCurrent ==
  ASSUME TypeOK, Known, Current, Resend \/ Break PROVE Known' /\ Current'
<1>1. CASE Resend
  <2> DEFINE m == Head(reports)
             l == Len(reports) + 1
  <2>1. /\ UNCHANGED <<openOrders, orders>> /\ repeats' = repeats + 1
        /\ reports' = Append(reports, m) /\ reports \in Seq(Report) /\ reports # <<>>
    BY <1>1 DEF Resend, TypeOK, cacheVars
  <2>2. m = reports[1] /\ 1 \in DOMAIN reports
    BY <2>1, Shortened
  <2>3. m \in Report
    BY <2>2, Elements
  <2> HIDE DEF m
  <2>4. /\ DOMAIN reports' = DOMAIN reports \cup {l}
        /\ \A i \in DOMAIN reports : reports'[i] = reports[i]
        /\ reports'[l] = m
    BY <2>1, <2>3, Appended
  <2> HIDE DEF l
  <2>5. Known'
    BY <2>1, <2>2, <2>4 DEF Known
  <2>6. repeats' # 0
    BY <2>1 DEF TypeOK
  <2> QED
    BY <2>5, <2>6 DEF Current
<1>2. CASE Break
  <2>1. UNCHANGED <<openOrders, orders, repeats>> /\ reports' = <<>> /\ up' = FALSE
    BY <1>2 DEF Break, cacheVars
  <2>2. Known' /\ (repeats = 0 => ClosedIsLast')
    BY <2>1 DEF Known, Current, ClosedIsLast
  <2> QED
    BY <2>1, <2>2 DEF Current
<1> QED
  BY <1>1, <1>2

\* Reading the last report about an order makes the cache say what it said.
LEMMA ReadCurrent == ASSUME TypeOK, Known, Current, Read PROVE Known' /\ Current'
<1> DEFINE h == Head(reports)
<1>1. /\ reports \in Seq(Report) /\ reports # <<>> /\ reports' = Tail(reports)
      /\ UNCHANGED <<orders, traded, repeats, up>>
      /\ IF h.type = "exec"
         THEN /\ openOrders' = Put(openOrders, h.order, h.status)
              /\ position' = position + Filled(h)
         ELSE UNCHANGED <<openOrders, position>>
  BY DEF Read, TypeOK, Cache, InfoOf
<1>2. /\ 1 \in DOMAIN reports /\ h = reports[1] /\ Len(reports) \in Nat
      /\ DOMAIN reports = 1..Len(reports) /\ DOMAIN reports' = 1..(Len(reports) - 1)
      /\ \A i \in DOMAIN reports' : i + 1 \in DOMAIN reports /\ reports'[i] = reports[i + 1]
  BY <1>1, Shortened
<1>3. \A i \in DOMAIN reports : i # 1 => i - 1 \in DOMAIN reports' /\ reports'[i - 1] = reports[i]
  BY <1>2
<1> HIDE DEF h
<1>4. /\ h.type = "exec" => /\ DOMAIN openOrders' = DOMAIN openOrders \cup {h.order}
                            /\ openOrders'[h.order] = h.status
      /\ \A q \in DOMAIN openOrders : ~About(h, q) => openOrders'[q] = openOrders[q]
      /\ h.type # "exec" => openOrders' = openOrders
  BY <1>1 DEF Put, About
<1>5. Known'
  BY <1>1, <1>2, <1>4 DEF Known
<1>6. ASSUME ClosedIsLast PROVE ClosedIsLast'
  <2>1. ASSUME NEW q \in DOMAIN openOrders', openOrders'[q] \in Closed
        PROVE  orders[q].status \in Closed /\ \A i \in DOMAIN reports' : ~About(reports'[i], q)
    <3>1. CASE About(h, q)
      <4>1. /\ q \in DOMAIN orders /\ h.status \in Closed
        BY <1>2, <1>4, <2>1, <3>1 DEF About, Known
      <4>2. /\ orders[q].status \in Closed
            /\ \A j \in DOMAIN reports : About(reports[j], q) => j <= 1
        BY <1>2, <1>6, <3>1, <4>1 DEF ClosedIsLast
      <4>3. \A i \in DOMAIN reports' : i + 1 \in DOMAIN reports /\ ~(i + 1 <= 1)
        BY <1>2
      <4> QED
        BY <1>2, <4>2, <4>3
    <3>2. CASE ~About(h, q)
      <4>1. q \in DOMAIN openOrders /\ openOrders[q] \in Closed
        BY <1>4, <2>1, <3>2 DEF About
      <4> QED
        BY <1>2, <1>6, <4>1 DEF ClosedIsLast
    <3> QED
      BY <3>1, <3>2
  <2>2. ASSUME NEW q \in DOMAIN orders, NEW i \in DOMAIN reports',
               About(reports'[i], q), reports'[i].status \in Closed
        PROVE  /\ orders[q].status \in Closed
               /\ \A j \in DOMAIN reports' : About(reports'[j], q) => j <= i
    <3>1. /\ orders[q].status \in Closed
          /\ \A j \in DOMAIN reports : About(reports[j], q) => j <= i + 1
      BY <1>2, <1>6, <2>2 DEF ClosedIsLast
    <3> QED
      BY <1>2, <3>1
  <2> QED
    BY <1>1, <2>1, <2>2 DEF ClosedIsLast, About
<1>7. ASSUME AllShown PROVE AllShown'
  <2> SUFFICES ASSUME NEW q \in DOMAIN orders, Shown(q) PROVE Shown(q)'
    BY <1>1, <1>7 DEF AllShown
  <2>1. CASE /\ q \in DOMAIN openOrders /\ openOrders[q] = orders[q].status
             /\ \A i \in DOMAIN reports : ~About(reports[i], q)
    <3>1. openOrders'[q] = orders[q].status /\ q \in DOMAIN openOrders'
      BY <1>2, <1>4, <2>1
    <3>2. \A i \in DOMAIN reports' : ~About(reports'[i], q)
      BY <1>2, <2>1
    <3> QED
      BY <1>1, <3>1, <3>2 DEF Shown, About
  <2>2. ASSUME NEW j \in DOMAIN reports,
               About(reports[j], q), reports[j].status = orders[q].status,
               \A i \in DOMAIN reports : About(reports[i], q) => i <= j
        PROVE  Shown(q)'
    <3>1. CASE j = 1
      <4>1. openOrders'[q] = orders[q].status /\ q \in DOMAIN openOrders'
        BY <1>2, <1>4, <2>2, <3>1 DEF About
      <4>2. \A i \in DOMAIN reports' : i + 1 \in DOMAIN reports /\ ~(i + 1 <= j)
        BY <1>2, <3>1
      <4>3. \A i \in DOMAIN reports' : ~About(reports'[i], q)
        BY <1>2, <2>2, <4>2
      <4> QED
        BY <1>1, <4>1, <4>3 DEF Shown, About
    <3>2. CASE j # 1
      <4>1. j - 1 \in DOMAIN reports' /\ reports'[j - 1] = reports[j]
        BY <1>3, <3>2
      <4>2. \A i \in DOMAIN reports' : About(reports'[i], q) => i <= j - 1
        <5> SUFFICES ASSUME NEW i \in DOMAIN reports', About(reports[i + 1], q) PROVE i <= j - 1
          BY <1>2
        <5>1. i + 1 <= j /\ i \in Nat /\ j \in Nat
          BY <1>2, <2>2
        <5> QED
          BY <5>1
      <4> QED
        BY <1>1, <2>2, <4>1, <4>2 DEF Shown, About
    <3> QED
      BY <3>1, <3>2
  <2> QED
    BY <2>1, <2>2 DEF Shown
<1>8. ASSUME Booked PROVE Booked'
  <2> DEFINE one == IF h.type = "exec" /\ h.exec = "trade" THEN 1 ELSE 0
  <2>1. IsFiniteSet(Fills') /\ Cardinality(Fills) = Cardinality(Fills') + one
    BY <1>1, <1>2, <1>8, FillsShortened DEF Booked
  <2>2. position' = position + one
    <3>1. position + 0 = position
      BY DEF TypeOK
    <3> QED
      BY <1>1, <3>1 DEF Filled
  <2>3. position \in Nat /\ Cardinality(Fills') \in Nat /\ one \in Nat
        /\ position + Cardinality(Fills) = traded
    BY <1>8, <2>1, FS_CardinalityType DEF Booked, TypeOK
  <2> HIDE DEF one
  <2>4. position' + Cardinality(Fills') = traded'
    BY <1>1, <2>1, <2>2, <2>3
  <2> QED
    BY <2>1, <2>4, BookedNext
<1> QED
  BY <1>1, <1>5, <1>6, <1>7, <1>8 DEF Current

LEMMA CurrentStep == TypeOK /\ Known /\ Current /\ [Next]_vars => Known' /\ Current'
<1> SUFFICES ASSUME TypeOK, Known, Current, [Next]_vars PROVE Known' /\ Current'
  OBVIOUS
<1>1. CASE \/ Take \/ Give \/ FanOut \/ Consume \/ UNCHANGED vars
           \/ \E c \in Calls : CallStep(c)
  <2>1. UNCHANGED <<openOrders, position, reports, orders, traded, repeats, up>>
    <3>1. CASE Take \/ Give \/ FanOut \/ Consume \/ UNCHANGED vars
      BY <3>1 DEF Take, Give, FanOut, Consume, vars, cacheVars, exchangeVars
    <3>2. ASSUME NEW c \in Calls, CallStep(c)
          PROVE  UNCHANGED <<openOrders, position, reports, orders, traded, repeats, up>>
      BY <3>2 DEF CallStep, Refuse, Register, SendRequest, TakeBack, GiveBack, Receive, Expire,
                  GiveUp, cacheVars, exchangeVars
    <3> QED
      BY <1>1, <3>1, <3>2
  <2> QED
    BY <2>1, StillCurrent
<1>2. CASE XAnswer
  <2> DEFINE c == Head(requests)
  <2>1. /\ c \in Calls /\ UNCHANGED <<openOrders, position, traded, repeats, up>>
        /\ \/ \E t \in {"reject", "mass"} : t \in Answers(op[c]) /\ Answer(c, t)
           \/ \E e \in {"new", "rejected", "replaced", "canceled"}, n \in OrderNos :
                e \in Answers(op[c]) /\ Says(e, e, c, n) /\ (n = Len(orders) + 1 \/ Open(n))
    BY <1>2, Answering DEF XAnswer, cacheVars
  <2>2. {"new", "rejected", "replaced", "canceled"} \subseteq Execs \cap Statuses
    BY DEF Execs, Statuses, Closed
  <2> HIDE DEF c
  <2>3. ASSUME NEW t \in {"reject", "mass"}, Answer(c, t) PROVE Known' /\ Current'
    BY <2>1, <2>3, AnswerCurrent
  <2>4. ASSUME NEW e \in {"new", "rejected", "replaced", "canceled"}, NEW n \in OrderNos,
               Says(e, e, c, n), n = Len(orders) + 1 \/ Open(n)
        PROVE  Known' /\ Current'
    BY <2>1, <2>2, <2>4, SaysCurrent
  <2> QED
    BY <2>1, <2>3, <2>4
<1>3. ASSUME NEW n \in OrderNos, XTrade(n) \/ XCancel(n) PROVE Known' /\ Current'
  <2>1. /\ UNCHANGED <<openOrders, position, repeats, up>> /\ orders[n].call \in Calls /\ Open(n)
        /\ \E e \in {"trade", "canceled"}, s \in {"partial", "filled", "canceled"} :
             /\ Says(e, s, orders[n].call, n)
             /\ traded' = IF e = "trade" THEN traded + 1 ELSE traded
    BY <1>3, Unprompted DEF XTrade, XCancel, cacheVars
  <2>2. {"trade", "canceled"} \subseteq Execs /\ {"partial", "filled", "canceled"} \subseteq Statuses
    BY DEF Execs, Statuses, Closed
  <2> QED
    BY <2>1, <2>2, SaysCurrent
<1> QED
  BY <1>1, <1>2, <1>3, ReadCurrent, ConnectionCurrent DEF Next, ReaderStep, Environment

\* With every report read and none of them twice, the cache is the exchange's and
\* every fill is booked exactly once (forts/trading.go:239-240), for any number of
\* calls, orders and fills.
THEOREM CacheIsTheExchanges == Spec => []CacheIsCurrent
<1>1. TypeOK /\ Known /\ Current => CacheIsCurrent
  <2> SUFFICES ASSUME TypeOK, Known, Current, up, reports = <<>>, repeats = 0
               PROVE  openOrders = [n \in DOMAIN orders |-> orders[n].status] /\ position = traded
    BY Zenon DEF CacheIsCurrent
  <2>1. AllShown /\ Booked /\ DOMAIN reports = {}
    BY DEF Current
  <2>2. \A n \in DOMAIN orders : n \in DOMAIN openOrders /\ openOrders[n] = orders[n].status
    BY <2>1 DEF AllShown, Shown
  <2>3. openOrders = [n \in DOMAIN orders |-> orders[n].status]
    BY <2>2 DEF Known, TypeOK, IsMap
  <2>4. Fills = {}
    BY <2>1 DEF Fills
  <2>5. position = traded
    BY <2>1, <2>4, FS_EmptySet DEF Booked, TypeOK
  <2> QED
    BY <2>3, <2>5
<1> QED
  BY <1>1, CurrentInit, CurrentStep, EntryTypes, PTL DEF Spec

\* Whatever holds of a message that was read goes on holding.
LEMMA CachedKeeps ==
  ASSUME TypeOK, Known, Current, [Next]_vars
  PROVE  \A m : CachedWas(m) => CachedWas(m)'
<1>1. CASE Read
  <2> DEFINE h == Head(reports)
  <2>1. /\ reports # <<>> /\ reports \in Seq(Report) /\ repeats' = repeats
        /\ \/ h.type = "exec" /\ openOrders' = Put(openOrders, h.order, h.status)
           \/ UNCHANGED openOrders
    BY <1>1 DEF Read, TypeOK, Cache, InfoOf
  <2>2. 1 \in DOMAIN reports /\ h = reports[1]
    BY <2>1, Shortened
  <2> HIDE DEF h
  <2>3. \A n \in DOMAIN openOrders : openOrders[n] \in Closed /\ repeats = 0 => ~About(h, n)
    BY <2>2 DEF Current, ClosedIsLast
  <2> QED
    BY <2>1, <2>3 DEF CachedWas, Put, About
<1>2. CASE ~Read
  <2>1. UNCHANGED openOrders /\ (repeats' = repeats \/ repeats' = repeats + 1)
    <3>1. CASE Take \/ Give \/ FanOut \/ Consume \/ UNCHANGED vars
      BY <3>1 DEF Take, Give, FanOut, Consume, vars, cacheVars, exchangeVars
    <3>2. CASE Environment
      BY <3>2 DEF Environment, XAnswer, XTrade, XCancel, Resend, Break, cacheVars
    <3>3. ASSUME NEW c \in Calls, CallStep(c)
          PROVE  UNCHANGED <<openOrders, repeats>>
      BY <3>3 DEF CallStep, Refuse, Register, SendRequest, TakeBack, GiveBack, Receive, Expire,
                  GiveUp, cacheVars, exchangeVars
    <3> QED
      BY <1>2, <3>1, <3>2, <3>3 DEF Next, ReaderStep
  <2>2. repeats' = 0 => repeats = 0
    BY <2>1 DEF TypeOK
  <2> QED
    BY <2>1, <2>2 DEF CachedWas
<1> QED
  BY <1>1, <1>2

LEMMA CachedMoves ==
  ASSUME Cached, \A m : CachedWas(m) => CachedWas(m)',
         reader'.at # "read" => reader.at # "read" /\ reader'.msg = reader.msg,
         \A c \in Calls :
           /\ slot'[c] # <<>> => \/ slot'[c] = slot[c] \/ Head(slot'[c]).type # "exec"
                                 \/ reader.at # "read" /\ Head(slot'[c]) = reader.msg
           /\ ret'[c] # <<>> => \/ ret'[c] = ret[c] \/ Head(ret'[c]).type # "exec"
                                \/ slot[c] # <<>> /\ Head(ret'[c]) = Head(slot[c])
  PROVE  Cached'
<1>1. reader'.at # "read" => CachedWas(reader.msg)'
  BY DEF Cached
<1> QED
  BY DEF Cached, CachedWas

LEMMA CachedStep ==
  TypeOK /\ IInv /\ Kept /\ Known /\ Current /\ Cached /\ [Next]_vars => Cached'
<1> SUFFICES ASSUME TypeOK, IInv, Kept, Known, Current, Cached, [Next]_vars PROVE Cached'
  OBVIOUS
<1>0. DOMAIN ret = Calls /\ DOMAIN slot = Calls /\ giving \in [Calls -> Calls]
  BY DEF Kept, IInv, Shape
<1>1. \A m : CachedWas(m) => CachedWas(m)'
  BY CachedKeeps
<1>2. CASE Read
  <2>0. PICK h : h = Head(reports)
    OBVIOUS
  <2>1. /\ reader'.msg = h /\ UNCHANGED <<slot, ret>>
        /\ h.type = "exec" => openOrders' = Put(openOrders, h.order, h.status)
    BY <1>2, <2>0 DEF Read, Cache, InfoOf, callVars
  <2>2. CachedWas(h)'
    BY <2>1 DEF CachedWas, Put
  <2> QED
    BY <1>1, <2>1, <2>2 DEF Cached, CachedWas
<1>3. CASE Take \/ FanOut \/ Consume \/ Environment \/ UNCHANGED vars
  <2>1. UNCHANGED <<slot, ret>>
    BY <1>3 DEF Take, FanOut, Consume, Environment, XAnswer, XTrade, XCancel, Resend, Break,
                callVars, vars
  <2>2. reader'.at # "read" => reader.at # "read" /\ reader'.msg = reader.msg
    <3>1. CASE Take
      <4>1. reader.at = "take"
        BY <3>1 DEF Take
      <4>2. \/ \E to : reader' = [at |-> "give", msg |-> reader.msg, to |-> to]
            \/ reader' = Resolved(reader.msg)
            \/ reader' = [at |-> "take", msg |-> reader.msg, in |-> Tail(reader.in)]
        BY <3>1, Zenon DEF Take
      <4> QED
        BY <4>1, <4>2 DEF Resolved, Idle
    <3>2. CASE FanOut
      BY <3>2 DEF FanOut, Idle
    <3>3. CASE Consume \/ Environment \/ UNCHANGED vars
      BY <3>3 DEF Consume, Environment, XAnswer, XTrade, XCancel, Resend, Break, vars
    <3> QED
      BY <1>3, <3>1, <3>2, <3>3
  <2> QED
    BY <1>1, <2>1, <2>2, CachedMoves
<1>4. CASE Give
  <2>1. /\ reader.at = "give" /\ slot' = [slot EXCEPT ![reader.to] = <<reader.msg>>]
        /\ reader' = Resolved(reader.msg) /\ UNCHANGED ret
    BY <1>4 DEF Give, callVars
  <2>2. reader'.at # "read" => reader'.msg = reader.msg
    BY <2>1 DEF Resolved, Idle
  <2>3. \A c \in Calls : slot'[c] = slot[c] \/ Head(slot'[c]) = reader.msg
    BY <1>0, <2>1
  <2> QED
    BY <1>1, <2>1, <2>2, <2>3, CachedMoves
<1>5. ASSUME NEW c \in Calls, Refuse(c) \/ GiveUp(c) \/ TakeBack(c) PROVE Cached'
  <2>1. /\ UNCHANGED <<slot, reader>>
        /\ ret' = ret \/ \E t \in {"invalid", "ctx", "unsent"} : ret' = [ret EXCEPT ![c] = <<[type |-> t]>>]
    BY <1>5 DEF Refuse, GiveUp, TakeBack, Return
  <2>2. \A d \in Calls : ret'[d] = ret[d] \/ Head(ret'[d]).type # "exec"
    BY <1>0, <2>1
  <2> QED
    BY <1>1, <2>1, <2>2, CachedMoves
<1>6. ASSUME NEW c \in Calls, Register(c) \/ SendRequest(c) \/ Expire(c) PROVE Cached'
  <2>1. UNCHANGED <<slot, reader, ret>>
    BY <1>6 DEF Register, SendRequest, Expire
  <2> QED
    BY <1>1, <2>1, CachedMoves
<1>7. ASSUME NEW c \in Calls, GiveBack(c) PROVE Cached'
  <2>1. /\ slot' = [slot EXCEPT ![giving[c]] = <<Nothing>>] /\ UNCHANGED reader
        /\ ret' = [ret EXCEPT ![c] = <<[type |-> "unsent"]>>]
    BY <1>7 DEF GiveBack, Return
  <2>2. \A d \in Calls : /\ ret'[d] = ret[d] \/ Head(ret'[d]).type # "exec"
                         /\ slot'[d] = slot[d] \/ Head(slot'[d]).type # "exec"
    BY <1>0, <2>1 DEF Nothing
  <2> QED
    BY <1>1, <2>1, <2>2, CachedMoves
<1>8. ASSUME NEW c \in Calls, Receive(c) PROVE Cached'
  <2>1. /\ slot[c] # <<>> /\ slot' = [slot EXCEPT ![c] = <<>>] /\ UNCHANGED reader
        /\ ret' = [ret EXCEPT ![c] = <<Head(slot[c])>>]
    BY <1>8 DEF Receive, Return
  <2>2. \A d \in Calls : /\ d # c => ret'[d] = ret[d]
                         /\ slot'[d] = slot[d] \/ slot'[d] = <<>>
    BY <1>0, <2>1
  <2>3. ret'[c] = <<Head(slot[c])>>
    BY <1>0, <2>1
  <2>4. Head(ret'[c]) = Head(slot[c])
    BY <2>3
  <2> QED
    BY <1>1, <2>1, <2>2, <2>4, CachedMoves
<1> QED
  BY <1>2, <1>3, <1>4, <1>5, <1>6, <1>7, <1>8 DEF Next, CallStep, ReaderStep

\* What a call returned is in the cache by then, and an order it returned as closed
\* is not listed as open (forts/trading.go:239-240).
THEOREM ReturnedWasCached == Spec => []ReturnedIsCached
<1>1. Spec => []Kept
  BY KeptInit, KeptStep, Invariance, PTL DEF Spec
<1>2. TypeOK /\ IInv /\ Kept /\ Known /\ Current /\ Cached /\ [Next]_vars
        => Known' /\ Current' /\ Cached'
  BY CurrentStep, CachedStep
<1>3. Spec => []Cached
  BY <1>1, <1>2, CurrentInit, EntryTypes, Invariance, PTL DEF Spec
<1>4. Kept /\ Cached => ReturnedIsCached
  BY DEF Kept, Cached, CachedWas, ReturnedIsCached
<1> QED
  BY <1>1, <1>3, <1>4, PTL
=============================================================================
