--------------------------- MODULE FixSessionProofs ---------------------------
(***************************************************************************)
(* Proofs about one FIX session, for any numbers of messages and faults    *)
(* and any earlier session of the day: what the client writes reaches the  *)
(* Gate numbered without a hole, from whatever goroutines it comes; a gap  *)
(* in what the Gate has sent is asked for and, after a single fault, made  *)
(* good; and Err tells of fatal errors only.                               *)
(*                                                                         *)
(* The first rests on the connection never coming back: a write that       *)
(* fails, or a number used up for nothing, happens only where nobody reads *)
(* any more.  The next two follow an application message through the       *)
(* queues: a number that the counter has passed is being dispatched, is in *)
(* a frame or in a ResendRequest under way, or was handed over; and before *)
(* the first fault the frames under way are the rest of the log, in order, *)
(* so that what the fault loses is not below the counter.  The last        *)
(* compares what is under way: neither the counter nor a frame before it   *)
(* has reached the number of a message sent for the first time.            *)
(*                                                                         *)
(* Below them, the frames themselves: a message becomes one frame, and the *)
(* read loop gets it back as soon as all of its bytes are there.           *)
(***************************************************************************)
EXTENDS FixSession, FixCodec, WellFoundedInduction, FiniteSetTheorems, TLAPS

\* A queue, whatever it holds.
IsQueue(q) == \E S : q \in Seq(S)

Shape ==
  /\ outSeq \in Nat /\ gateIn \in Nat /\ IsQueue(toGate)
  /\ caller = "new" => reader.at = "off"

IInv == Shape /\ NumberedInOrder

\* What they look at, but for the two that tell whether the session is new.
core == <<outSeq, gateIn, toGate, conn, closing>>

-----------------------------------------------------------------------------
LEMMA QueueAppend ==
  ASSUME NEW q, IsQueue(q), NEW x
  PROVE  /\ IsQueue(Append(q, x)) /\ Len(q) \in Nat /\ DOMAIN q = 1..Len(q)
         /\ Len(Append(q, x)) = Len(q) + 1 /\ DOMAIN Append(q, x) = 1..Len(q) + 1
         /\ Append(q, x)[Len(q) + 1] = x
         /\ \A i \in 1..Len(q) : Append(q, x)[i] = q[i]
<1>1. PICK S : q \in Seq(S)
  BY DEF IsQueue
<1>2. q \in Seq(S \cup {x}) /\ x \in S \cup {x}
  BY <1>1
<1>3. Append(q, x) \in Seq(S \cup {x})
  BY <1>2
<1> QED
  BY <1>2, <1>3 DEF IsQueue

LEMMA QueueTail ==
  ASSUME NEW q, IsQueue(q), q # <<>>
  PROVE  /\ IsQueue(Tail(q)) /\ Len(q) \in Nat \ {0} /\ DOMAIN q = 1..Len(q)
         /\ Len(Tail(q)) = Len(q) - 1 /\ DOMAIN Tail(q) = 1..Len(q) - 1
         /\ \A i \in 1..Len(q) - 1 : Tail(q)[i] = q[i + 1]
<1>1. PICK S : q \in Seq(S)
  BY DEF IsQueue
<1>2. Tail(q) \in Seq(S)
  BY <1>1
<1> QED
  BY <1>1, <1>2 DEF IsQueue

LEMMA EmptyQueue == IsQueue(<<>>) /\ DOMAIN <<>> = {} /\ Len(<<>>) = 0
<1>1. <<>> \in Seq({})
  OBVIOUS
<1> QED
  BY <1>1 DEF IsQueue

-----------------------------------------------------------------------------
\* One write under writeMu.
LEMMA WriteNumbers ==
  ASSUME Shape, NumberedInOrder, NEW m, Write(m), gateIn' = gateIn, Alive' => Alive
  PROVE  /\ outSeq' \in Nat /\ IsQueue(toGate') /\ NumberedInOrder'
<1>1. outSeq' = outSeq + 1
  BY DEF Write, NextOut
<1>2. CASE ~Alive
  BY <1>1, <1>2 DEF Shape, Write, NumberedInOrder
<1>3. CASE Alive
  <2>1. toGate' = Append(toGate, Encoded(m))
    BY <1>3 DEF Write
  <2>2. Encoded(m).seq = gateIn + Len(toGate)
    BY <1>3 DEF Encoded, NumberedInOrder
  <2>3. /\ IsQueue(toGate') /\ Len(toGate) \in Nat /\ DOMAIN toGate = 1..Len(toGate)
        /\ Len(toGate') = Len(toGate) + 1 /\ DOMAIN toGate' = 1..Len(toGate) + 1
        /\ toGate'[Len(toGate) + 1] = Encoded(m)
        /\ \A i \in 1..Len(toGate) : toGate'[i] = toGate[i]
    BY <2>1, QueueAppend DEF Shape
  <2>4. ASSUME NEW i \in DOMAIN toGate' PROVE toGate'[i].seq = gateIn' + i - 1
    <3>1. CASE i \in 1..Len(toGate)
      BY <1>3, <2>3, <3>1 DEF NumberedInOrder
    <3>2. CASE i = Len(toGate) + 1
      BY <2>2, <2>3, <3>2 DEF Shape
    <3> QED
      BY <2>3, <2>4, <3>1, <3>2
  <2>5. outSeq' = gateIn' + Len(toGate')
    BY <1>1, <1>3, <2>3 DEF Shape, NumberedInOrder
  <2> QED
    BY <1>1, <2>3, <2>4, <2>5 DEF Shape, NumberedInOrder
<1> QED
  BY <1>2, <1>3

\* A write that succeeds or fails: the number goes on only if it is written.
LEMMA SendNumbers ==
  ASSUME Shape, NumberedInOrder, NEW m, Send(m), gateIn' = gateIn, Alive' => Alive
  PROVE  /\ outSeq' \in Nat /\ IsQueue(toGate') /\ NumberedInOrder'
<1>1. CASE \E x : x = m /\ Write(x)
  BY <1>1, WriteNumbers
<1>2. CASE WriteError
  BY <1>2 DEF WriteError, Shape, NumberedInOrder
<1> QED
  BY <1>1, <1>2 DEF Send

-----------------------------------------------------------------------------
LEMMA InitInv == Init => IInv
<1> SUFFICES ASSUME Init PROVE IInv
  OBVIOUS
<1>1. outSeq \in Nat /\ gateIn \in Nat /\ outSeq = gateIn
  BY FaultsNatural DEF Init, Seeded
<1>2. toGate = <<>> /\ reader.at = "off"
  BY DEF Init
<1>3. NumberedInOrder
  <2>1. outSeq = gateIn + 0
    BY <1>1
  <2> QED
    BY <1>2, <2>1, EmptyQueue DEF NumberedInOrder
<1>4. Shape
  BY <1>1, <1>2, EmptyQueue DEF Shape
<1> QED
  BY <1>3, <1>4 DEF IInv

\* A step that writes nothing.
LEMMA AsideInv ==
  ASSUME IInv, UNCHANGED core, caller' = "new" => reader'.at = "off"
  PROVE  IInv'
  BY DEF core, IInv, Shape, NumberedInOrder, Alive

\* A step that writes, or fails to.
LEMMA WritingInv ==
  ASSUME IInv, NEW m, Send(m), UNCHANGED gateIn, Alive' <=> Alive,
         caller' = "new" => reader'.at = "off"
  PROVE  IInv'
<1>1. outSeq' \in Nat /\ IsQueue(toGate') /\ NumberedInOrder'
  BY SendNumbers DEF IInv
<1> QED
  BY <1>1 DEF IInv, Shape

\* Writing a Logon or a Heartbeat: what Send does, on a connection not yet closed.
LEMMA WriteSends ==
  ASSUME NEW m, (closing # "closed" /\ Write(m)) \/ WriteError PROVE Send(m)
  BY DEF Send

LEMMA LogonInv == ASSUME IInv, Caller PROVE IInv'
<1>1. CASE StartLogon \/ AwaitLogon
  BY <1>1, AsideInv
  DEF StartLogon, AwaitLogon, closeVars, writeVars, gateVars, hist, core, IInv, Shape
<1>2. CASE SendLogon
  <2>1. /\ Send([type |-> "logon"]) /\ UNCHANGED <<gateIn, reader, conn, closing>>
        /\ caller' # "new"
    BY <1>2, WriteSends DEF SendLogon, gateVars, hist
  <2>2. Alive' <=> Alive
    BY <2>1 DEF Alive
  <2> QED
    BY <2>1, <2>2, WritingInv
<1> QED
  BY <1>1, <1>2 DEF Caller

LEMMA HeartInv == ASSUME IInv, Heart \/ SendApp PROVE IInv'
<1>1. CASE StopHeart
  BY <1>1, AsideInv DEF StopHeart, closeVars, writeVars, gateVars, hist, core, IInv, Shape
<1>2. CASE Tick \/ SendApp
  <2>1. /\ \E m : Send(m)
        /\ UNCHANGED <<gateIn, reader, caller, conn, closing>>
    BY <1>2, WriteSends DEF Tick, SendApp, closeVars, gateVars, hist
  <2>2. Alive' <=> Alive
    BY <2>1 DEF Alive
  <2> QED
    BY <2>1, <2>2, WritingInv DEF IInv, Shape
<1> QED
  BY <1>1, <1>2 DEF Heart

LEMMA CloserInv == ASSUME IInv, Closer PROVE IInv'
<1>1. CASE CloseSignals
  <2>1. /\ \E m : Send(m)
        /\ UNCHANGED <<gateIn, reader, caller, conn>>
        /\ closing = "open" /\ closing' = "signalled"
    BY <1>1 DEF CloseSignals, gateVars, hist
  <2>2. Alive' <=> Alive
    BY <2>1 DEF Alive
  <2> QED
    BY <2>1, <2>2, WritingInv DEF IInv, Shape
<1>2. CASE CloseDisconnects
  <2>1. /\ ~Alive' /\ toGate' = <<>>
        /\ UNCHANGED <<outSeq, gateIn, reader, caller>>
    BY <1>2 DEF CloseDisconnects, Disconnected, Alive, hist
  <2> QED
    BY <2>1, EmptyQueue DEF IInv, Shape, NumberedInOrder
<1> QED
  BY <1>1, <1>2 DEF Closer

LEMMA ReadInv == ASSUME IInv, Read PROVE IInv'
<1> DEFINE m == Head(fromGate)
<1>1. Track(m) /\ reader.at = "read" /\ UNCHANGED <<gateIn, caller, conn, closing>>
  BY DEF Read, closeVars
<1>2. (Alive' <=> Alive) /\ caller' # "new"
  BY <1>1 DEF Alive, IInv, Shape
<1> HIDE DEF m
<1>3. CASE UNCHANGED <<outSeq, toGate>>
  BY <1>1, <1>2, <1>3, AsideInv DEF core
<1>4. CASE \E w : Send(w)
  BY <1>1, <1>2, <1>4, WritingInv
<1> QED
  BY <1>1, <1>3, <1>4 DEF Track, writeVars

LEMMA ReaderInv == ASSUME IInv, Reader PROVE IInv'
<1>1. CASE CheckDone \/ SkipFrame \/ Dispatch
  <2>1. UNCHANGED core /\ reader.at \in {"top", "read", "dispatch"} /\ UNCHANGED caller
    BY <1>1 DEF CheckDone, SkipFrame, Dispatch, closeVars, writeVars, gateVars, hist, core
  <2> QED
    BY <2>1, AsideInv DEF IInv, Shape
<1>2. CASE Reply
  <2>1. /\ \E m : Send(m)
        /\ UNCHANGED <<gateIn, caller, conn, closing>>
        /\ reader.at = "reply"
    BY <1>2 DEF Reply, closeVars, gateVars, hist
  <2>2. (Alive' <=> Alive) /\ caller' # "new"
    BY <2>1 DEF Alive, IInv, Shape
  <2> QED
    BY <2>1, <2>2, WritingInv
<1>3. CASE ReadFails
  <2>1. reader.at = "read" /\ UNCHANGED <<outSeq, gateIn, toGate, conn, closing, caller>>
    BY <1>3 DEF ReadFails, closeVars, gateVars
  <2> QED
    BY <2>1, AsideInv DEF core, IInv, Shape
<1> QED
  BY <1>1, <1>2, <1>3, ReadInv DEF Reader

LEMMA GateInv == ASSUME IInv, Gate \/ CancelContext \/ CallClose PROVE IInv'
<1>1. CASE GateSends \/ GateStrays \/ GateForgetsNumber \/ CancelContext \/ CallClose
  BY <1>1, AsideInv
  DEF GateSends, GateStrays, GateForgetsNumber, CancelContext, CallClose, closeVars, writeVars,
      gateVars, hist, core, IInv, Shape
<1>a. CASE Stall
  <2>1. Alive /\ UNCHANGED <<outSeq, gateIn, toGate, reader, caller>>
    BY <1>a DEF Stall, Alive, writeVars, gateVars
  <2> QED
    BY <2>1 DEF IInv, Shape, NumberedInOrder
<1>2. CASE Break
  <2>1. /\ ~Alive' /\ toGate' = <<>>
        /\ UNCHANGED <<outSeq, gateIn, reader, caller>>
    BY <1>2 DEF Break, Alive, hist
  <2> QED
    BY <2>1, EmptyQueue DEF IInv, Shape, NumberedInOrder
<1>3. CASE GateReads
  <2>1. /\ Alive /\ toGate # <<>> /\ toGate' = Tail(toGate) /\ gateIn' = gateIn + 1
        /\ UNCHANGED <<outSeq, conn, closing, reader, caller>>
    BY <1>3 DEF GateReads, closeVars, hist
  <2>2. /\ IsQueue(toGate') /\ Len(toGate) \in Nat \ {0} /\ DOMAIN toGate = 1..Len(toGate)
        /\ Len(toGate') = Len(toGate) - 1 /\ DOMAIN toGate' = 1..Len(toGate) - 1
        /\ \A i \in 1..Len(toGate) - 1 : toGate'[i] = toGate[i + 1]
    BY <2>1, QueueTail DEF IInv, Shape
  <2>3. ASSUME NEW i \in DOMAIN toGate' PROVE toGate'[i].seq = gateIn' + i - 1
    <3>1. i + 1 \in DOMAIN toGate /\ toGate'[i] = toGate[i + 1]
      BY <2>2
    <3>2. toGate[i + 1].seq = gateIn + (i + 1) - 1
      BY <2>1, <3>1 DEF IInv, NumberedInOrder
    <3> QED
      BY <2>1, <2>2, <3>1, <3>2 DEF IInv, Shape
  <2>4. outSeq' = gateIn' + Len(toGate')
    BY <2>1, <2>2 DEF IInv, Shape, NumberedInOrder
  <2>5. Shape'
    BY <2>1, <2>2 DEF IInv, Shape
  <2> QED
    BY <2>1, <2>3, <2>4, <2>5 DEF IInv, NumberedInOrder, Alive
<1> QED
  BY <1>1, <1>a, <1>2, <1>3 DEF Gate

LEMMA StepInv == IInv /\ [Next]_vars => IInv'
<1> SUFFICES ASSUME IInv, [Next]_vars PROVE IInv'
  OBVIOUS
<1>1. CASE UNCHANGED vars
  BY <1>1, AsideInv DEF vars, core, IInv, Shape
<1> QED
  BY <1>1, LogonInv, HeartInv, CloserInv, ReaderInv, GateInv DEF Next, Client

THEOREM SessionInvariance == Spec => []IInv
  BY InitInv, StepInv, PTL DEF Spec

\* The Gate receives consecutive numbers from callers, heartbeat, reader and Close
\* together, also when an earlier session's counters were restored
\* (internal/fix/session.go:90-101, 144-165).
THEOREM NumbersInOrder == Spec => []NumberedInOrder
  BY SessionInvariance, PTL DEF IInv

-----------------------------------------------------------------------------
(* Least numbers, and induction over a set of numbers                       *)

\* A non-empty set of natural numbers has a least element.
LEMMA LeastNumber ==
  ASSUME NEW T, T \subseteq Nat, T # {}
  PROVE  \E m \in T : \A k \in T : m <= k
<1>1. IsWellFoundedOn(OpToRel(<, Nat), Nat)
  BY NatLessThanWellFounded, Zenon
<1>2. PICK m \in T : \A k \in T : <<k, m>> \notin OpToRel(<, Nat)
  BY WFMin, <1>1, Zenon
<1>3. \A k \in T : m <= k
  <2> TAKE k \in T
  <2>1. k \in Nat /\ m \in Nat
    OBVIOUS
  <2>2. (<<k, m>> \in OpToRel(<, Nat)) <=> (<<k, m>> \in Nat \X Nat /\ k < m)
    BY DEF OpToRel
  <2>3. ~(k < m)
    BY <1>2, <2>1, <2>2
  <2> QED BY <2>1, <2>3
<1> QED BY <1>3

\* Induction: a set of naturals that holds 0 and is closed under successor is
\* all of them.
LEMMA SetInduction ==
  ASSUME NEW S, S \subseteq Nat, 0 \in S, \A n \in Nat : n \in S => n + 1 \in S
  PROVE  S = Nat
<1> SUFFICES ASSUME Nat \ S # {} PROVE FALSE
  OBVIOUS
<1>1. PICK m \in Nat \ S : \A k \in Nat \ S : m <= k
  BY LeastNumber
<1>2. m - 1 \in Nat /\ ~(m <= m - 1)
  BY <1>1
<1>3. m - 1 \in S
  BY <1>1, <1>2
<1>4. (m - 1) + 1 \in S
  BY <1>2, <1>3
<1> QED BY <1>1, <1>4

-----------------------------------------------------------------------------
(* The answer to a ResendRequest                                            *)

\* f is the loop over the first n numbers of the log.
IsAnswer(f, numbers, n) ==
  f = [k \in 0..n |->
         IF k = 0 THEN <<>>
         ELSE IF k \in numbers THEN Append(f[k - 1], Resent(k)) ELSE f[k - 1]]

\* The loop is defined however far it goes.
LEMMA AnswerExists ==
  ASSUME NEW numbers, NEW n \in Nat
  PROVE  \E f : IsAnswer(f, numbers, n)
<1> DEFINE More(prev, k) == IF k \in numbers THEN Append(prev, Resent(k)) ELSE prev
           S == {m \in Nat : \E f : IsAnswer(f, numbers, m)}
<1>1. 0 \in S
  <2>1. IsAnswer([k \in 0..0 |-> <<>>], numbers, 0)
    BY DEF IsAnswer
  <2> QED
    BY <2>1
<1>2. ASSUME NEW m \in Nat, m \in S PROVE m + 1 \in S
  <2>1. PICK f : IsAnswer(f, numbers, m)
    BY <1>2
  <2>2. \A k \in 0..m : f[k] = IF k = 0 THEN <<>> ELSE More(f[k - 1], k)
    BY <2>1 DEF IsAnswer
  <2> DEFINE g == [k \in 0..(m + 1) |-> IF k <= m THEN f[k] ELSE More(f[m], m + 1)]
  <2> HIDE DEF More
  <2>3. ASSUME NEW k \in 0..(m + 1)
        PROVE  g[k] = IF k = 0 THEN <<>> ELSE More(g[k - 1], k)
    <3>1. CASE k = 0
      BY <3>1, <2>2
    <3>2. CASE k \in 1..m
      <4>1. g[k] = f[k] /\ g[k - 1] = f[k - 1]
        BY <3>2
      <4> QED
        BY <4>1, <3>2, <2>2
    <3>3. CASE k = m + 1
      BY <3>3
    <3> QED
      BY <3>1, <3>2, <3>3
  <2>4. g = [k \in 0..(m + 1) |-> IF k = 0 THEN <<>> ELSE More(g[k - 1], k)]
    BY <2>3
  <2>5. IsAnswer(g, numbers, m + 1)
    BY <2>4, Zenon DEF IsAnswer, More
  <2> QED
    BY <2>5
<1> HIDE DEF S
<1>3. S \subseteq Nat
  BY DEF S
<1>4. n \in S
  BY <1>1, <1>2, <1>3, SetInduction
<1> QED
  BY <1>4 DEF S

\* The Gate answers for exactly the numbers it was asked for.
LEMMA AgainAnswers ==
  ASSUME NEW numbers, numbers \subseteq 1..MaxIn
  PROVE  /\ Again(numbers) \in Seq({Resent(k) : k \in numbers})
         /\ \A k \in numbers : \E i \in DOMAIN Again(numbers) : Again(numbers)[i] = Resent(k)
<1>0. MaxIn \in Nat
  BY MaxInPositive
<1> DEFINE f == AgainUpTo(numbers)
           T == {Resent(k) : k \in numbers}
<1>1. \E g : IsAnswer(g, numbers, MaxIn)
  BY <1>0, AnswerExists
<1>2. f = CHOOSE g : IsAnswer(g, numbers, MaxIn)
  BY DEF AgainUpTo, IsAnswer
<1>3. IsAnswer(f, numbers, MaxIn)
  BY <1>1, <1>2
<1> HIDE DEF f
<1> DEFINE More(prev, k) == IF k \in numbers THEN Append(prev, Resent(k)) ELSE prev
<1>a. \A k \in 0..MaxIn : f[k] = IF k = 0 THEN <<>> ELSE More(f[k - 1], k)
  BY <1>3 DEF IsAnswer
<1> HIDE DEF More
<1>4. f[0] = <<>> /\ \A k \in 1..MaxIn : f[k] = More(f[k - 1], k)
  BY <1>0, <1>a
<1> DEFINE Holds(s, k) == /\ s \in Seq(T)
                          /\ \A n \in numbers : n <= k => \E i \in DOMAIN s : s[i] = Resent(n)
           S == {k \in Nat : k <= MaxIn => Holds(f[k], k)}
<1>5. 0 \in S
  <2>1. f[0] \in Seq(T)
    BY <1>4
  <2>2. \A n \in numbers : ~(n <= 0)
    BY <1>0
  <2> QED
    BY <2>1, <2>2
<1>6. ASSUME NEW k \in Nat, k \in S PROVE k + 1 \in S
  <2> SUFFICES ASSUME k + 1 <= MaxIn PROVE Holds(f[k + 1], k + 1)
    OBVIOUS
  <2>1. Holds(f[k], k) /\ k + 1 \in 1..MaxIn
    BY <1>0, <1>6
  <2>2. f[k + 1] = IF k + 1 \in numbers THEN Append(f[k], Resent(k + 1)) ELSE f[k]
    BY <1>4, <2>1 DEF More
  <2>3. CASE k + 1 \notin numbers
    BY <2>1, <2>2, <2>3
  <2>4. CASE k + 1 \in numbers
    <3> DEFINE s == f[k]
               t == f[k + 1]
    <3>1. s \in Seq(T) /\ Resent(k + 1) \in T /\ t = Append(s, Resent(k + 1))
      BY <2>1, <2>2, <2>4
    <3> HIDE DEF s, t, T
    <3>2. /\ t \in Seq(T) /\ Len(s) \in Nat /\ DOMAIN t = 1..Len(s) + 1 /\ DOMAIN s = 1..Len(s)
          /\ t[Len(s) + 1] = Resent(k + 1) /\ \A i \in 1..Len(s) : t[i] = s[i]
      BY <3>1
    <3>3. ASSUME NEW n \in numbers, n <= k + 1 PROVE \E i \in DOMAIN t : t[i] = Resent(n)
      <4>1. CASE n = k + 1
        BY <3>2, <4>1
      <4>2. CASE n <= k
        <5>1. PICK i \in DOMAIN s : s[i] = Resent(n)
          BY <2>1, <4>2 DEF s
        <5> QED
          BY <3>2, <5>1
      <4> QED
        BY <3>3, <4>1, <4>2
    <3> QED
      BY <3>2, <3>3 DEF t
  <2> QED
    BY <2>3, <2>4
<1> HIDE DEF S, Holds
<1>7. S \subseteq Nat
  BY DEF S
<1>8. MaxIn \in S
  BY <1>0, <1>5, <1>6, <1>7, SetInduction
<1>9. Holds(f[MaxIn], MaxIn)
  BY <1>0, <1>8 DEF S
<1> QED
  BY <1>0, <1>9 DEF Holds, T, f, Again

-----------------------------------------------------------------------------
(* What is under way                                                        *)

\* The numbers that the ResendRequests of a queue ask for.
Requests(q) ==
  UNION {q[i].msg.numbers : i \in {j \in DOMAIN q : q[j].msg.type = "resend"}}

\* The numbers of the frames of a queue.
Numbers(q) == {q[i].seq : i \in DOMAIN q}

\* The frames that say what the Gate has logged under their number, if they have one.
Truth ==
  {f \in Frames :
     /\ f.seq # 0 => f.seq \in DOMAIN log
     /\ f.type = "reset" => log[f.seq] # "app" /\ f.new = f.seq + 1
     /\ f.type # "reset" /\ f.seq # 0 => f.type = log[f.seq]}

Bounded ==
  /\ IsQueue(toGate) /\ faults \in Nat
  /\ Len(log) <= MaxIn /\ inSeq <= Len(log) + 1
  /\ Requests(toGate) \subseteq DOMAIN log

\* What arrives is true, and what is dispatched has been tracked.
Faithful ==
  /\ fromGate \in Seq(Truth)
  /\ reader.at = "dispatch" => reader.msg \in Truth /\ reader.msg.seq < inSeq
  /\ reader.at = "reply" => reader.msg.type # "resend"

\* As long as no frame was lost or came astray, the rest of the log is what is
\* under way, in order, and nothing is asked for again.
InOrder ==
  Alive /\ faults = 0 =>
    /\ Len(fromGate) + inSeq = Len(log) + 1 /\ Requests(toGate) = {}
    /\ \A i \in DOMAIN fromGate :
         fromGate[i].seq = inSeq + i - 1 /\ fromGate[i].type # "reset"
    /\ reader.at = "dispatch" => reader.msg.type # "reset"

\* With one fault, what was passed over is asked for, on its way or handed over.
Coming ==
  Alive /\ faults <= 1 =>
    \A n \in DOMAIN log :
      log[n] = "app" /\ n < inSeq =>
        \/ handed[n] > 0
        \/ reader.at = "dispatch" /\ reader.msg.seq = n
        \/ n \in Numbers(fromGate) \/ n \in Requests(toGate)

\* The types, in groups.
Controls ==
  /\ caller \in {"new", "send", "await", "logged on", "refused"}
  /\ reader.at \in {"off", "top", "read", "dispatch", "reply", "done"}
  /\ heart \in {"off", "on", "done"} /\ conn \in {"up", "stalled", "broken"}
  /\ closing \in {"open", "signalled", "closed"}
  /\ ack \in {<<>>, <<"ok">>, <<"closed">>}

Flags == ctxDone \in BOOLEAN /\ wanted \in BOOLEAN /\ failed \in BOOLEAN /\ strayed \in BOOLEAN

Counters == outSeq \in Nat \ {0} /\ gateIn \in Nat \ {0}

Data ==
  /\ inSeq \in 1..MaxIn + 1 /\ log \in Seq(Kinds) /\ fromGate \in Seq(Frames)
  /\ handed \in [0..MaxIn -> Nat] /\ asked \subseteq 1..MaxIn

Typed == Controls /\ Flags /\ Counters /\ Data

GapInv == Typed /\ Bounded /\ Faithful /\ InOrder /\ Coming /\ NothingSkipped

-----------------------------------------------------------------------------
LEMMA RequestsOfQueue ==
  ASSUME NEW q, IsQueue(q)
  PROVE  /\ Requests(<<>>) = {}
         /\ \A x : Requests(Append(q, x))
                   = Requests(q) \cup (IF x.msg.type = "resend" THEN x.msg.numbers ELSE {})
         /\ q # <<>> => Requests(q) = Requests(Tail(q)) \cup
              (IF Head(q).msg.type = "resend" THEN Head(q).msg.numbers ELSE {})
<1>1. Requests(<<>>) = {}
  BY DEF Requests
<1>2. ASSUME NEW x
      PROVE  Requests(Append(q, x))
             = Requests(q) \cup (IF x.msg.type = "resend" THEN x.msg.numbers ELSE {})
  <2> DEFINE r == Append(q, x)
  <2>1. /\ Len(q) \in Nat /\ DOMAIN q = 1..Len(q) /\ DOMAIN r = 1..Len(q) + 1
        /\ r[Len(q) + 1] = x /\ \A i \in 1..Len(q) : r[i] = q[i]
    BY QueueAppend
  <2> HIDE DEF r
  <2>2. ASSUME NEW n \in Requests(r)
        PROVE  n \in Requests(q) \/ (x.msg.type = "resend" /\ n \in x.msg.numbers)
    <3>1. PICK i \in DOMAIN r : r[i].msg.type = "resend" /\ n \in r[i].msg.numbers
      BY <2>2 DEF Requests
    <3>2. i = Len(q) + 1 \/ (i \in DOMAIN q /\ r[i] = q[i])
      BY <2>1, <3>1
    <3> QED
      BY <2>1, <3>1, <3>2 DEF Requests
  <2>3. ASSUME NEW n \in Requests(q) PROVE n \in Requests(r)
    <3>1. PICK i \in DOMAIN q : q[i].msg.type = "resend" /\ n \in q[i].msg.numbers
      BY <2>3 DEF Requests
    <3>2. i \in DOMAIN r /\ r[i] = q[i]
      BY <2>1
    <3> QED
      BY <3>1, <3>2 DEF Requests
  <2>4. ASSUME NEW n \in x.msg.numbers, x.msg.type = "resend" PROVE n \in Requests(r)
    <3>1. Len(q) + 1 \in DOMAIN r
      BY <2>1
    <3> QED
      BY <2>1, <2>4, <3>1 DEF Requests
  <2>5. Requests(r) = Requests(q) \cup (IF x.msg.type = "resend" THEN x.msg.numbers ELSE {})
    BY <2>2, <2>3, <2>4
  <2> QED
    BY <2>5 DEF r
<1>3. ASSUME q # <<>>
      PROVE  Requests(q) = Requests(Tail(q)) \cup
               (IF Head(q).msg.type = "resend" THEN Head(q).msg.numbers ELSE {})
  <2> DEFINE r == Tail(q)
  <2>1. /\ Len(q) \in Nat \ {0} /\ DOMAIN q = 1..Len(q) /\ DOMAIN r = 1..Len(q) - 1
        /\ \A i \in 1..Len(q) - 1 : r[i] = q[i + 1]
    BY <1>3, QueueTail
  <2>a. Head(q) = q[1]
    BY DEF IsQueue
  <2> HIDE DEF r
  <2>2. ASSUME NEW n \in Requests(q)
        PROVE  n \in Requests(r) \/ (q[1].msg.type = "resend" /\ n \in q[1].msg.numbers)
    <3>1. PICK i \in DOMAIN q : q[i].msg.type = "resend" /\ n \in q[i].msg.numbers
      BY <2>2 DEF Requests
    <3>2. i = 1 \/ (i - 1 \in DOMAIN r /\ r[i - 1] = q[i])
      BY <2>1, <3>1
    <3> QED
      BY <2>1, <3>1, <3>2 DEF Requests
  <2>3. ASSUME NEW n \in Requests(r) PROVE n \in Requests(q)
    <3>1. PICK i \in DOMAIN r : r[i].msg.type = "resend" /\ n \in r[i].msg.numbers
      BY <2>3 DEF Requests
    <3>2. i + 1 \in DOMAIN q /\ r[i] = q[i + 1]
      BY <2>1
    <3> QED
      BY <3>1, <3>2 DEF Requests
  <2>4. ASSUME NEW n \in q[1].msg.numbers, q[1].msg.type = "resend" PROVE n \in Requests(q)
    <3>1. 1 \in DOMAIN q
      BY <2>1
    <3> QED
      BY <2>4, <3>1 DEF Requests
  <2>5. Requests(q) = Requests(r) \cup
               (IF q[1].msg.type = "resend" THEN q[1].msg.numbers ELSE {})
    BY <2>2, <2>3, <2>4
  <2> QED
    BY <2>a, <2>5 DEF r
<1> QED
  BY <1>1, <1>2, <1>3

LEMMA NumbersOfQueue ==
  ASSUME NEW S, NEW q \in Seq(S)
  PROVE  /\ Numbers(<<>>) = {}
         /\ q # <<>> => Numbers(q) = Numbers(Tail(q)) \cup {Head(q).seq}
         /\ \A p \in Seq(S) : Numbers(q \o p) = Numbers(q) \cup Numbers(p)
         /\ \A x \in S : Numbers(Append(q, x)) = Numbers(q) \cup {x.seq}
<1>1. Numbers(<<>>) = {}
  BY DEF Numbers
<1>2. ASSUME q # <<>> PROVE Numbers(q) = Numbers(Tail(q)) \cup {Head(q).seq}
  <2> DEFINE r == Tail(q)
  <2>1. /\ Len(q) \in Nat \ {0} /\ DOMAIN q = 1..Len(q) /\ DOMAIN r = 1..Len(q) - 1
        /\ \A i \in 1..Len(q) - 1 : r[i] = q[i + 1]
    BY <1>2
  <2>a. Head(q) = q[1]
    OBVIOUS
  <2> HIDE DEF r
  <2>2. \A i \in DOMAIN q : i = 1 \/ (i - 1 \in DOMAIN r /\ r[i - 1] = q[i])
    BY <2>1
  <2>3. \A i \in DOMAIN r : i + 1 \in DOMAIN q /\ r[i] = q[i + 1]
    BY <2>1
  <2>4. 1 \in DOMAIN q
    BY <2>1
  <2>5. Numbers(q) = Numbers(r) \cup {q[1].seq}
    BY <2>2, <2>3, <2>4 DEF Numbers
  <2> QED
    BY <2>a, <2>5 DEF r
<1>3. ASSUME NEW p \in Seq(S) PROVE Numbers(q \o p) = Numbers(q) \cup Numbers(p)
  <2> DEFINE r == q \o p
  <2>1. /\ Len(q) \in Nat /\ DOMAIN q = 1..Len(q) /\ Len(p) \in Nat /\ DOMAIN p = 1..Len(p)
        /\ DOMAIN r = 1..Len(q) + Len(p) /\ \A i \in 1..Len(q) : r[i] = q[i]
        /\ \A i \in 1..Len(p) : r[Len(q) + i] = p[i]
    OBVIOUS
  <2> HIDE DEF r
  <2>2. \A i \in DOMAIN r :
          \/ i \in DOMAIN q /\ r[i] = q[i]
          \/ i - Len(q) \in DOMAIN p /\ r[i] = p[i - Len(q)]
    <3> TAKE i \in DOMAIN r
    <3>1. CASE i <= Len(q)
      BY <2>1, <3>1
    <3>2. CASE i > Len(q)
      <4>1. i - Len(q) \in 1..Len(p) /\ Len(q) + (i - Len(q)) = i
        BY <2>1, <3>2
      <4> QED
        BY <2>1, <4>1
    <3> QED
      BY <2>1, <3>1, <3>2
  <2>3. \A i \in DOMAIN q : i \in DOMAIN r /\ r[i] = q[i]
    BY <2>1
  <2>4. \A i \in DOMAIN p : Len(q) + i \in DOMAIN r /\ r[Len(q) + i] = p[i]
    BY <2>1
  <2>5. Numbers(r) = Numbers(q) \cup Numbers(p)
    BY <2>2, <2>3, <2>4 DEF Numbers
  <2> QED
    BY <2>5 DEF r
<1>4. ASSUME NEW x \in S PROVE Numbers(Append(q, x)) = Numbers(q) \cup {x.seq}
  <2>1. Append(q, x) = q \o <<x>> /\ <<x>> \in Seq(S)
    OBVIOUS
  <2>2. Numbers(<<x>>) = {x.seq}
    BY DEF Numbers
  <2> QED
    BY <1>3, <2>1, <2>2
<1> QED
  BY <1>1, <1>2, <1>3, <1>4

-----------------------------------------------------------------------------
\* A write reaches the queue if there is a connection.
LEMMA SendQueues ==
  ASSUME outSeq \in Nat \ {0}, failed \in BOOLEAN, IsQueue(toGate), NEW m, Send(m)
  PROVE  /\ IsQueue(toGate') /\ outSeq' \in Nat \ {0} /\ failed' \in BOOLEAN
         /\ \/ Requests(toGate') = Requests(toGate)
            \/ m.type = "resend" /\ Requests(toGate') = Requests(toGate) \cup m.numbers
         /\ Alive /\ m.type = "resend" => Requests(toGate') = Requests(toGate) \cup m.numbers
<1>1. Encoded(m).msg = m
  BY DEF Encoded
<1>2. CASE Write(m)
  <2>1. outSeq' = outSeq + 1 /\ failed' = failed
        /\ toGate' = IF Alive THEN Append(toGate, Encoded(m)) ELSE toGate
    BY <1>2 DEF Write, NextOut
  <2>2. CASE Alive
    <3>1. toGate' = Append(toGate, Encoded(m))
      BY <2>1, <2>2
    <3>2. IsQueue(toGate')
      BY <3>1, QueueAppend
    <3>3. Requests(toGate') = Requests(toGate) \cup (IF m.type = "resend" THEN m.numbers ELSE {})
      BY <1>1, <3>1, RequestsOfQueue
    <3> QED
      BY <2>1, <3>2, <3>3
  <2>3. CASE ~Alive
    BY <2>1, <2>3
  <2> QED
    BY <2>2, <2>3
<1>3. CASE WriteError
  BY <1>3 DEF WriteError
<1> QED
  BY <1>2, <1>3 DEF Send

LEMMA InitGap == Init => GapInv
<1> SUFFICES ASSUME Init PROVE GapInv
  OBVIOUS
<1>0. MaxIn \in Nat \ {0} /\ MaxFaults \in Nat /\ MaxBefore \in 0..MaxIn
  BY MaxInPositive, FaultsNatural
<1>1. PICK sent \in 0..MaxBefore : \E got \in 0..sent : Seeded(sent, got)
  BY DEF Init
<1>2. PICK got \in 0..sent : Seeded(sent, got)
  BY <1>1
<1>3. /\ sent \in Nat /\ got \in Nat /\ got <= sent /\ sent <= MaxIn
      /\ log = [n \in 1..sent |-> "app"] /\ gateIn = sent + 1 /\ outSeq = gateIn
      /\ inSeq = got + 1 /\ faults = sent - got
      /\ handed = [n \in 0..MaxIn |-> IF n \in 1..got THEN 1 ELSE 0]
  BY <1>0, <1>1, <1>2 DEF Seeded
<1>4. log \in Seq(Kinds) /\ Len(log) = sent /\ DOMAIN log = 1..sent
  <2>1. log \in [1..sent -> Kinds]
    BY <1>3 DEF Kinds
  <2> QED
    BY <1>3, <2>1
<1>5. /\ caller = "new" /\ reader = [at |-> "off"] /\ heart = "off"
      /\ ctxDone = FALSE /\ closing = "open" /\ wanted = FALSE /\ ack = <<>>
      /\ failed = FALSE /\ conn = "up" /\ toGate = <<>> /\ fromGate = <<>>
      /\ asked = {} /\ strayed = FALSE
  BY DEF Init
<1>6. IsQueue(toGate) /\ Requests(toGate) = {} /\ Len(fromGate) = 0 /\ DOMAIN fromGate = {}
  BY <1>5, EmptyQueue, RequestsOfQueue
<1>7. Typed
  <2>1. fromGate \in Seq(Frames) /\ handed \in [0..MaxIn -> Nat]
    BY <1>3, <1>5
  <2>2. Counters /\ Data
    BY <1>0, <1>3, <1>4, <1>5, <2>1 DEF Counters, Data
  <2>3. Controls
    BY <1>5 DEF Controls
  <2>4. Flags
    BY <1>5 DEF Flags
  <2> QED
    BY <2>2, <2>3, <2>4 DEF Typed
<1>8. Bounded
  BY <1>3, <1>4, <1>6 DEF Bounded
<1>9. Faithful
  BY <1>5 DEF Faithful
<1>10. InOrder
  BY <1>3, <1>4, <1>5, <1>6 DEF InOrder
<1>11. \A n \in DOMAIN log : n < inSeq => handed[n] > 0
  BY <1>0, <1>3, <1>4
<1>12. Coming /\ NothingSkipped
  BY <1>11 DEF Coming, NothingSkipped
<1> QED
  BY <1>7, <1>8, <1>9, <1>10, <1>12 DEF GapInv

\* A step that leaves alone what the Gate has sent and what was made of it.
LEMMA AsideGap ==
  ASSUME GapInv, Typed', IsQueue(toGate'), Requests(toGate') = Requests(toGate),
         UNCHANGED <<log, fromGate, inSeq, handed, asked, faults>>, Alive' => Alive,
         \/ reader' = reader
         \/ /\ reader.at # "dispatch" /\ reader'.at # "dispatch"
            /\ reader'.at = "reply" => reader'.msg.type # "resend"
  PROVE  GapInv'
<1>1. Truth' = Truth
  BY DEF Truth
<1>2. Bounded'
  BY DEF GapInv, Bounded
<1>3. Faithful'
  BY <1>1 DEF GapInv, Faithful
<1>4. InOrder'
  BY DEF GapInv, InOrder
<1>5. Coming' /\ NothingSkipped'
  BY DEF GapInv, Coming, NothingSkipped, Numbers
<1> QED
  BY <1>2, <1>3, <1>4, <1>5 DEF GapInv

\* The connection goes: what is on it is lost, but for what has arrived.
LEMMA CutGap ==
  ASSUME GapInv, Typed', ~Alive', toGate' = <<>>, StillBuffered,
         UNCHANGED <<log, inSeq, handed, asked, faults, reader>>
  PROVE  GapInv'
<1>1. Truth' = Truth
  BY DEF Truth
<1>2. Bounded'
  BY EmptyQueue, RequestsOfQueue DEF GapInv, Bounded
<1>3. Faithful'
  <2>1. fromGate' = <<>> \/ fromGate' = fromGate
    BY DEF StillBuffered
  <2>2. <<>> \in Seq(Truth) /\ fromGate \in Seq(Truth)
    BY DEF GapInv, Faithful
  <2>3. fromGate' \in Seq(Truth)
    BY <2>1, <2>2
  <2> QED
    BY <1>1, <2>3 DEF GapInv, Faithful
<1>4. InOrder' /\ Coming' /\ NothingSkipped'
  BY DEF GapInv, InOrder, Coming, NothingSkipped
<1> QED
  BY <1>2, <1>3, <1>4 DEF GapInv

\* A write of something other than a ResendRequest.
LEMMA WritingGap ==
  ASSUME GapInv, Typed', NEW m, Send(m), m.type # "resend", Alive' => Alive,
         UNCHANGED <<log, fromGate, inSeq, handed, asked, faults>>,
         \/ reader' = reader
         \/ reader.at # "dispatch" /\ reader'.at \notin {"dispatch", "reply"}
  PROVE  GapInv'
<1>1. IsQueue(toGate') /\ Requests(toGate') = Requests(toGate)
  BY SendQueues DEF GapInv, Typed, Counters, Flags, Bounded
<1> QED
  BY <1>1, AsideGap

-----------------------------------------------------------------------------
\* Steps of callers, of the ticker and of the reader that write nothing.
LEMMA QuietStepsGap ==
  ASSUME IInv, GapInv,
         \/ StartLogon \/ AwaitLogon \/ StopHeart \/ CancelContext \/ CallClose
         \/ CheckDone \/ ReadFails
  PROVE  GapInv'
<1>0. Controls /\ Flags /\ Counters /\ Data /\ IsQueue(toGate)
  BY DEF GapInv, Typed, Bounded
<1>a. UNCHANGED <<log, fromGate, inSeq, handed, asked, faults, toGate, outSeq, gateIn, conn,
                  closing>>
  BY DEF StartLogon, AwaitLogon, StopHeart, CancelContext, CallClose, CheckDone, ReadFails,
         closeVars, writeVars, gateVars, hist
<1>b. \/ reader' = reader
      \/ reader.at # "dispatch" /\ reader'.at \in {"top", "read", "done"}
  <2>1. CASE StartLogon
    BY <2>1 DEF StartLogon, IInv, Shape
  <2>2. CASE CheckDone \/ ReadFails
    BY <2>2 DEF CheckDone, ReadFails, ReaderReturns
  <2>3. CASE AwaitLogon \/ StopHeart \/ CancelContext \/ CallClose
    BY <2>3 DEF AwaitLogon, StopHeart, CancelContext, CallClose
  <2> QED
    BY <2>1, <2>2, <2>3
<1>1. /\ UNCHANGED <<log, fromGate, inSeq, handed, asked, faults, toGate, outSeq, gateIn, conn,
                     closing>>
      /\ \/ reader' = reader
         \/ reader.at # "dispatch" /\ reader'.at \in {"top", "read", "done"}
  BY <1>a, <1>b
<1>2. Controls'
  <2>1. /\ caller' \in {"new", "send", "await", "logged on", "refused"}
        /\ heart' \in {"off", "on", "done"}
    BY <1>0 DEF StartLogon, AwaitLogon, StopHeart, CancelContext, CallClose, CheckDone, ReadFails,
                Controls
  <2>2. ack' \in {<<>>, <<"ok">>, <<"closed">>}
    BY <1>0 DEF StartLogon, AwaitLogon, StopHeart, CancelContext, CallClose, CheckDone, ReadFails,
         ReaderReturns, Controls
  <2>3. reader'.at \in {"off", "top", "read", "dispatch", "reply", "done"}
    BY <1>0, <1>1 DEF Controls
  <2> QED
    BY <1>0, <1>1, <2>1, <2>2, <2>3 DEF Controls
<1>3. Flags'
  BY <1>0 DEF StartLogon, AwaitLogon, StopHeart, CancelContext, CallClose, CheckDone, ReadFails,
         ClosedCh, closeVars, writeVars, hist, Flags
<1>4. Typed'
  BY <1>0, <1>1, <1>2, <1>3 DEF Counters, Data, Typed
<1>5. Alive' = Alive
  BY <1>1 DEF Alive
<1>6. IsQueue(toGate') /\ Requests(toGate') = Requests(toGate)
  BY <1>0, <1>1
<1> QED
  BY <1>1, <1>4, <1>5, <1>6, AsideGap

\* Steps that write, other than the tracking of a number.
LEMMA WritingStepsGap ==
  ASSUME IInv, GapInv, SendLogon \/ SendApp \/ Tick \/ CloseSignals \/ Reply
  PROVE  GapInv'
<1>0. Controls /\ Flags /\ Counters /\ Data /\ IsQueue(toGate)
  BY DEF GapInv, Typed, Bounded
<1>1. UNCHANGED <<log, fromGate, inSeq, handed, asked, faults, gateIn, conn, strayed, ack,
                  ctxDone>>
  BY DEF SendLogon, SendApp, Tick, CloseSignals, Reply, closeVars, gateVars, hist
<1>b. reader' = reader \/ (reader.at = "reply" /\ reader'.at = "top")
  <2>1. CASE Reply
    BY <2>1 DEF Reply
  <2>2. CASE SendLogon \/ SendApp \/ Tick \/ CloseSignals
    BY <2>2 DEF SendLogon, SendApp, Tick, CloseSignals
  <2> QED
    BY <2>1, <2>2
<1>2. \E m : Send(m) /\ m.type # "resend"
  <2>1. CASE Reply
    BY <2>1 DEF GapInv, Faithful, Reply
  <2>2. CASE SendLogon \/ Tick
    <3>1. Send([type |-> "logon"]) \/ Send([type |-> "admin"])
      BY <2>2, WriteSends DEF SendLogon, Tick
    <3> QED
      BY <3>1
  <2>3. CASE SendApp \/ CloseSignals
    <3>1. Send([type |-> "app"]) \/ Send([type |-> "logout"])
      BY <2>3 DEF SendApp, CloseSignals
    <3> QED
      BY <3>1
  <2> QED
    BY <2>1, <2>2, <2>3
<1>3. outSeq' \in Nat \ {0} /\ failed' \in BOOLEAN
  BY <1>0, <1>2, SendQueues DEF Counters, Flags
<1>4. /\ caller' \in {caller, "await", "refused"} /\ heart' \in {heart, "done"}
      /\ closing' = closing \/ (closing = "open" /\ closing' = "signalled")
      /\ wanted' \in BOOLEAN
  BY <1>0 DEF SendLogon, SendApp, Tick, CloseSignals, Reply, closeVars, Flags
<1>5. Controls'
  BY <1>0, <1>1, <1>b, <1>4 DEF Controls
<1>6. Flags'
  BY <1>0, <1>1, <1>3, <1>4 DEF Flags
<1>7. Typed'
  BY <1>0, <1>1, <1>3, <1>5, <1>6 DEF Counters, Data, Typed
<1>8. Alive' => Alive
  BY <1>1, <1>4 DEF Alive
<1> QED
  BY <1>1, <1>b, <1>2, <1>7, <1>8, WritingGap

\* Steps that end the connection.
LEMMA CuttingStepsGap == ASSUME GapInv, CloseDisconnects \/ Break PROVE GapInv'
<1>0. Controls /\ Flags /\ Counters /\ Data
  BY DEF GapInv, Typed
<1>1. /\ UNCHANGED <<log, inSeq, handed, asked, faults, gateIn, outSeq, strayed, ack, ctxDone,
                     reader, caller, heart, wanted, failed>>
      /\ toGate' = <<>> /\ StillBuffered
      /\ \/ closing' = "closed" /\ conn' = conn
         \/ closing' = closing /\ conn' = "broken"
  BY DEF CloseDisconnects, Disconnected, Break, closeVars, hist
<1>2. Controls'
  BY <1>0, <1>1 DEF Controls
<1>3. Flags' /\ Counters'
  BY <1>0, <1>1 DEF Flags, Counters
<1>4. fromGate' \in Seq(Frames)
  <2>1. (fromGate' = <<>> \/ fromGate' = fromGate) /\ <<>> \in Seq(Frames)
    BY <1>1 DEF StillBuffered
  <2> QED
    BY <1>0, <2>1 DEF Data
<1>5. Typed'
  BY <1>0, <1>1, <1>2, <1>3, <1>4 DEF Data, Typed
<1>6. ~Alive'
  BY <1>1 DEF Alive
<1> QED
  BY <1>1, <1>5, <1>6, CutGap

\* The first frame under way.
LEMMA FirstFrame ==
  ASSUME GapInv, fromGate # <<>>, NEW m, m = Head(fromGate), NEW rest, rest = Tail(fromGate)
  PROVE  /\ m \in Truth /\ m \in Frames /\ m.seq \in 0..Len(log) /\ m.seq \in 0..MaxIn
         /\ rest \in Seq(Truth) /\ rest \in Seq(Frames)
         /\ Len(log) \in Nat /\ DOMAIN log = 1..Len(log)
         /\ Len(fromGate) \in Nat /\ DOMAIN fromGate = 1..Len(fromGate)
         /\ Len(rest) = Len(fromGate) - 1 /\ DOMAIN rest = 1..Len(rest)
         /\ 1 \in DOMAIN fromGate /\ m = fromGate[1]
         /\ \A i \in DOMAIN rest : i + 1 \in DOMAIN fromGate /\ rest[i] = fromGate[i + 1]
         /\ Numbers(fromGate) = Numbers(rest) \cup {m.seq}
<1>1. fromGate \in Seq(Truth) /\ log \in Seq(Kinds)
  BY DEF GapInv, Typed, Data, Faithful
<1>2. m \in Truth /\ rest \in Seq(Truth)
  BY <1>1
<1>3. /\ Len(fromGate) \in Nat \ {0} /\ DOMAIN fromGate = 1..Len(fromGate)
      /\ Len(rest) = Len(fromGate) - 1 /\ DOMAIN rest = 1..Len(rest)
      /\ m = fromGate[1] /\ \A i \in 1..Len(rest) : rest[i] = fromGate[i + 1]
  BY <1>1
<1>4. Numbers(fromGate) = Numbers(rest) \cup {m.seq}
  BY <1>1, NumbersOfQueue
<1>5. Truth \subseteq Frames /\ rest \in Seq(Frames)
  <2>1. fromGate \in Seq(Frames)
    BY DEF GapInv, Typed, Data
  <2> QED
    BY <2>1 DEF Truth
<1>6. Len(log) \in Nat /\ DOMAIN log = 1..Len(log) /\ Len(log) <= MaxIn /\ MaxIn \in Nat
  BY <1>1, MaxInPositive DEF GapInv, Bounded
<1>7. m.seq \in 0..Len(log)
  BY <1>2, <1>6 DEF Truth
<1> QED
  BY <1>2, <1>3, <1>4, <1>5, <1>6, <1>7

\* trackIncomingSeq: what the counter passes is the frame itself or asked for.
LEMMA TrackPasses ==
  ASSUME GapInv, NEW m \in Truth, m.seq \in 0..Len(log), Track(m)
  PROVE  /\ inSeq' \in inSeq..Len(log) + 1 /\ m.seq < inSeq'
         /\ \A n \in Nat : n < inSeq' =>
              \/ n < inSeq \/ n = m.seq
              \/ n \in asked' /\ (Alive => n \in Requests(toGate'))
         /\ asked \subseteq asked' /\ asked' \subseteq 1..MaxIn
         /\ Requests(toGate) \subseteq Requests(toGate') /\ IsQueue(toGate')
         /\ Requests(toGate') \subseteq DOMAIN log
         /\ m.seq = inSeq => inSeq' = inSeq + 1 /\ UNCHANGED toGate
         /\ outSeq' \in Nat \ {0} /\ failed' \in BOOLEAN
<1>1. /\ IsQueue(toGate) /\ Requests(toGate) \subseteq DOMAIN log /\ asked \subseteq 1..MaxIn
      /\ inSeq \in Nat \ {0} /\ inSeq <= Len(log) + 1 /\ log \in Seq(Kinds) /\ Len(log) \in Nat
      /\ outSeq \in Nat \ {0} /\ failed \in BOOLEAN
      /\ DOMAIN log = 1..Len(log) /\ Len(log) <= MaxIn /\ MaxIn \in Nat
  <2>1. log \in Seq(Kinds)
    BY DEF GapInv, Typed, Data
  <2>2. Len(log) \in Nat /\ DOMAIN log = 1..Len(log)
    BY <2>1
  <2> QED
    BY <2>1, <2>2, MaxInPositive DEF GapInv, Typed, Data, Counters, Flags, Bounded
<1>a. CASE m.seq = 0 /\ UNCHANGED <<inSeq, writeVars, asked>>
  BY <1>1, <1>a DEF writeVars
<1>2. CASE m.seq = inSeq /\ inSeq' = inSeq + 1 /\ UNCHANGED <<writeVars, asked>>
  BY <1>1, <1>2 DEF writeVars
<1>3. CASE /\ m.seq > inSeq /\ inSeq' = m.seq + 1 /\ asked' = asked \cup Missing(m.seq)
           /\ Send([type |-> "resend", numbers |-> Missing(m.seq)])
  <2> DEFINE w == [type |-> "resend", numbers |-> Missing(m.seq)]
  <2>1. Missing(m.seq) = inSeq..m.seq - 1 /\ Missing(m.seq) \subseteq 1..Len(log)
    BY <1>1, <1>3 DEF Missing
  <2>2. w.type = "resend" /\ w.numbers = Missing(m.seq) /\ Send(w)
    BY <1>3
  <2> HIDE DEF w
  <2>3. /\ IsQueue(toGate') /\ outSeq' \in Nat \ {0} /\ failed' \in BOOLEAN
        /\ \/ Requests(toGate') = Requests(toGate)
           \/ Requests(toGate') = Requests(toGate) \cup Missing(m.seq)
        /\ Alive => Requests(toGate') = Requests(toGate) \cup Missing(m.seq)
    BY <1>1, <2>2, SendQueues
  <2>4. ASSUME NEW n \in Nat, n < inSeq', ~(n < inSeq), n # m.seq PROVE n \in Missing(m.seq)
    BY <1>1, <1>3, <2>1, <2>4
  <2>5. /\ Missing(m.seq) \subseteq asked' /\ asked \subseteq asked' /\ asked' \subseteq 1..MaxIn
        /\ Requests(toGate) \subseteq Requests(toGate') /\ Requests(toGate') \subseteq DOMAIN log
        /\ Alive => Missing(m.seq) \subseteq Requests(toGate')
    <3>1. 1..Len(log) \subseteq 1..MaxIn
      BY <1>1
    <3>2. asked' = asked \cup Missing(m.seq) /\ asked \subseteq 1..MaxIn
      BY <1>1, <1>3
    <3>3. Missing(m.seq) \subseteq DOMAIN log /\ Requests(toGate) \subseteq DOMAIN log
      BY <1>1, <2>1
    <3> QED
      BY <2>1, <2>3, <3>1, <3>2, <3>3, Zenon
  <2>6. inSeq' \in inSeq..Len(log) + 1 /\ m.seq < inSeq' /\ m.seq # inSeq
    BY <1>1, <1>3
  <2> QED
    BY <2>3, <2>4, <2>5, <2>6
<1>4. CASE /\ m.seq \in 1..inSeq - 1 /\ failed' = (failed \/ Unrecoverable(m))
           /\ UNCHANGED <<inSeq, outSeq, toGate, asked>>
  <2>1. failed' \in BOOLEAN
    BY <1>4
  <2> QED
    BY <1>1, <1>4, <2>1
<1> QED
  BY <1>a, <1>2, <1>3, <1>4 DEF Track, Past

LEMMA ReadGap == ASSUME GapInv, Read PROVE GapInv'
<1> PICK m, rest : m = Head(fromGate) /\ rest = Tail(fromGate)
  OBVIOUS
<1>1. /\ reader.at = "read" /\ fromGate # <<>> /\ Track(m) /\ fromGate' = rest
      /\ reader' = [at |-> "dispatch", msg |-> m]
      /\ UNCHANGED <<caller, heart, ctxDone, closing, wanted, ack, conn, gateIn, log, handed,
                     strayed, faults>>
  BY DEF Read, closeVars
<1>2. /\ m \in Truth /\ m \in Frames /\ m.seq \in 0..Len(log) /\ m.seq \in 0..MaxIn
      /\ rest \in Seq(Truth) /\ rest \in Seq(Frames)
      /\ Len(log) \in Nat /\ DOMAIN log = 1..Len(log)
      /\ Len(fromGate) \in Nat /\ DOMAIN fromGate = 1..Len(fromGate)
      /\ Len(rest) = Len(fromGate) - 1 /\ DOMAIN rest = 1..Len(rest)
      /\ 1 \in DOMAIN fromGate /\ m = fromGate[1]
      /\ \A i \in DOMAIN rest : i + 1 \in DOMAIN fromGate /\ rest[i] = fromGate[i + 1]
      /\ Numbers(fromGate) = Numbers(rest) \cup {m.seq}
  BY <1>1, FirstFrame
<1>3. /\ inSeq' \in inSeq..Len(log) + 1 /\ m.seq < inSeq'
      /\ \A n \in Nat : n < inSeq' =>
           \/ n < inSeq \/ n = m.seq
           \/ n \in asked' /\ (Alive => n \in Requests(toGate'))
      /\ asked \subseteq asked' /\ asked' \subseteq 1..MaxIn
      /\ Requests(toGate) \subseteq Requests(toGate') /\ IsQueue(toGate')
      /\ Requests(toGate') \subseteq DOMAIN log
      /\ m.seq = inSeq => inSeq' = inSeq + 1 /\ UNCHANGED toGate
      /\ outSeq' \in Nat \ {0} /\ failed' \in BOOLEAN
  BY <1>1, <1>2, TrackPasses
<1>4. /\ inSeq \in Nat \ {0} /\ Len(log) <= MaxIn /\ MaxIn \in Nat /\ Alive' = Alive
      /\ reader'.at = "dispatch" /\ reader'.msg = m
  BY <1>1, MaxInPositive DEF GapInv, Typed, Data, Bounded, Alive
<1>5. Typed'
  <2>1. Controls'
    BY <1>1, <1>4 DEF GapInv, Typed, Controls
  <2>2. Flags'
    BY <1>1, <1>3 DEF GapInv, Typed, Flags
  <2>3. Counters'
    BY <1>1, <1>3 DEF GapInv, Typed, Counters
  <2>4. inSeq' \in 1..MaxIn + 1
    BY <1>3, <1>4, <1>2
  <2>5. Data'
    BY <1>1, <1>2, <1>3, <2>4 DEF GapInv, Typed, Data
  <2> QED
    BY <2>1, <2>2, <2>3, <2>5 DEF Typed
<1>6. Bounded'
  BY <1>1, <1>2, <1>3 DEF GapInv, Bounded
<1>7. Faithful'
  <2>1. Truth' = Truth
    BY <1>1 DEF Truth
  <2> QED
    BY <1>1, <1>2, <1>3, <1>4, <2>1 DEF Faithful
<1>8. InOrder'
  <2> SUFFICES ASSUME Alive, faults = 0 PROVE InOrder'
    BY <1>1, <1>4 DEF InOrder
  <2>1. /\ Len(fromGate) + inSeq = Len(log) + 1 /\ Requests(toGate) = {}
        /\ \A i \in DOMAIN fromGate :
             fromGate[i].seq = inSeq + i - 1 /\ fromGate[i].type # "reset"
    BY DEF GapInv, InOrder
  <2>2. m.seq = inSeq /\ m.type # "reset"
    <3>1. 1 \in DOMAIN fromGate /\ m = fromGate[1]
      BY <1>2
    <3>2. m.seq = inSeq + 1 - 1 /\ m.type # "reset"
      BY <2>1, <3>1
    <3> QED
      BY <1>4, <3>2
  <2>3. inSeq' = inSeq + 1 /\ toGate' = toGate
    BY <1>3, <2>2
  <2>4. \A i \in DOMAIN rest : rest[i].seq = inSeq' + i - 1 /\ rest[i].type # "reset"
    BY <1>2, <1>4, <2>1, <2>3
  <2>5. Len(rest) + inSeq' = Len(log) + 1
    <3>1. Len(rest) = Len(fromGate) - 1 /\ Len(fromGate) \in Nat /\ Len(log) \in Nat
      BY <1>2
    <3>2. Len(fromGate) + inSeq = Len(log) + 1 /\ inSeq' = inSeq + 1 /\ inSeq \in Nat
      BY <1>4, <2>1, <2>3
    <3>3. (Len(fromGate) - 1) + (inSeq + 1) = Len(log) + 1
      BY <3>1, <3>2
    <3> QED
      BY <3>1, <3>2, <3>3, Zenon
  <2> QED
    BY <1>1, <1>4, <2>1, <2>2, <2>3, <2>4, <2>5 DEF InOrder
<1>9. Coming'
  <2> SUFFICES ASSUME Alive, faults <= 1, NEW n \in DOMAIN log, log[n] = "app", n < inSeq'
               PROVE  \/ handed[n] > 0 \/ m.seq = n \/ n \in Numbers(rest)
                      \/ n \in Requests(toGate')
    BY <1>1, <1>4 DEF Coming
  <2>1. CASE n < inSeq
    BY <1>1, <1>2, <1>3, <2>1 DEF GapInv, Coming
  <2>2. CASE ~(n < inSeq)
    BY <1>2, <1>3, <2>2
  <2> QED
    BY <2>1, <2>2
<1>10. NothingSkipped'
  <2> SUFFICES ASSUME NEW n \in DOMAIN log, log[n] = "app", n < inSeq'
               PROVE  handed[n] > 0 \/ n \in asked' \/ m.seq = n
    BY <1>1, <1>4 DEF NothingSkipped
  <2>1. CASE n < inSeq
    BY <1>1, <1>3, <2>1 DEF GapInv, NothingSkipped
  <2>2. CASE ~(n < inSeq)
    BY <1>2, <1>3, <2>2
  <2> QED
    BY <2>1, <2>2
<1> QED
  BY <1>5, <1>6, <1>7, <1>8, <1>9, <1>10 DEF GapInv

\* Decode fails: if it is the first fault, everything below the counter had been
\* handed over, and what is lost is not below it.
LEMMA SkipFrameGap == ASSUME GapInv, SkipFrame PROVE GapInv'
<1> PICK m, rest : m = Head(fromGate) /\ rest = Tail(fromGate)
  OBVIOUS
<1>1. /\ reader.at = "read" /\ fromGate # <<>> /\ fromGate' = rest
      /\ reader' = [at |-> "top"] /\ faults' = faults + 1
      /\ UNCHANGED <<caller, heart, ctxDone, closing, wanted, ack, conn, gateIn, log, handed,
                     outSeq, toGate, failed, inSeq, asked, strayed>>
  BY DEF SkipFrame, closeVars, writeVars, hist
<1>2. rest \in Seq(Truth) /\ rest \in Seq(Frames) /\ DOMAIN log = 1..Len(log)
      /\ DOMAIN fromGate = 1..Len(fromGate)
  BY <1>1, FirstFrame
<1>3. reader'.at = "top" /\ faults \in Nat /\ Alive' = Alive /\ inSeq \in Nat
  BY <1>1 DEF GapInv, Typed, Data, Bounded, Alive
<1>5. Typed'
  <2>1. Controls' /\ Counters'
    BY <1>1, <1>3 DEF GapInv, Typed, Controls, Counters
  <2>2. Flags'
    BY <1>1 DEF GapInv, Typed, Flags
  <2>5. Data'
    BY <1>1, <1>2 DEF GapInv, Typed, Data
  <2> QED
    BY <2>1, <2>2, <2>5 DEF Typed
<1>6. Bounded'
  BY <1>1, <1>3 DEF GapInv, Bounded
<1>7. Faithful'
  <2>1. Truth' = Truth
    BY <1>1 DEF Truth
  <2> QED
    BY <1>1, <1>2, <1>3, <2>1 DEF Faithful
<1>8. InOrder'
  BY <1>1, <1>3 DEF InOrder
<1>9. Coming'
  <2> SUFFICES ASSUME Alive, faults + 1 <= 1, NEW n \in DOMAIN log, log[n] = "app", n < inSeq
               PROVE  handed[n] > 0
    BY <1>1, <1>3 DEF Coming
  <2>1. faults = 0
    BY <1>3
  <2>2. n \notin Requests(toGate)
    BY <2>1 DEF GapInv, InOrder
  <2>3. n \notin Numbers(fromGate)
    <3> SUFFICES ASSUME NEW i \in DOMAIN fromGate, fromGate[i].seq = n PROVE FALSE
      BY DEF Numbers
    <3>1. n = inSeq + i - 1 /\ i \in Nat \ {0}
      BY <1>2, <2>1 DEF GapInv, InOrder
    <3> QED
      BY <1>3, <3>1
  <2> QED
    BY <1>1, <2>1, <2>2, <2>3 DEF GapInv, Coming
<1>10. NothingSkipped'
  BY <1>1, <1>3 DEF GapInv, NothingSkipped
<1> QED
  BY <1>5, <1>6, <1>7, <1>8, <1>9, <1>10 DEF GapInv

\* What is dispatched is handed over if it is for the application, and a counter
\* that moves back moves to what was passed already.
LEMMA DispatchGap == ASSUME GapInv, Dispatch PROVE GapInv'
<1> PICK m : m = reader.msg
  OBVIOUS
<1>1. /\ reader.at = "dispatch"
      /\ inSeq' = IF m.type = "reset" THEN m.new ELSE inSeq
      /\ handed' = IF m.type = "app" THEN [handed EXCEPT ![m.seq] = @ + 1] ELSE handed
      /\ UNCHANGED <<caller, heart, ctxDone, closing, outSeq, toGate, failed, conn, gateIn, log,
                     fromGate, asked, strayed, faults>>
  BY DEF Dispatch, ForApp, writeVars, gateVars, hist
<1>2. /\ reader'.at \in {"top", "reply"}
      /\ reader'.at = "reply" => reader'.msg.type # "resend"
  <2>1. \/ reader' = [at |-> "reply", msg |-> [type |-> "admin"]]
        \/ reader' = [at |-> "reply", msg |-> [type |-> "reset", new |-> outSeq]]
        \/ reader' = [at |-> "top"]
    BY DEF Dispatch
  <2> QED
    BY <2>1
<1>3. (ack' = <<"ok">> \/ ack' = ack) /\ wanted' \in BOOLEAN
  BY DEF Dispatch, GapInv, Typed, Flags
<1>4. log \in Seq(Kinds) /\ Len(log) \in Nat /\ DOMAIN log = 1..Len(log)
      /\ Len(log) <= MaxIn /\ MaxIn \in Nat
  <2>1. log \in Seq(Kinds)
    BY DEF GapInv, Typed, Data
  <2> QED
    BY <2>1, MaxInPositive DEF GapInv, Bounded
<1>5. /\ m \in Truth /\ m.seq \in 0..Len(log) /\ m.seq \in 0..MaxIn /\ m.seq < inSeq
      /\ m.type = "reset" => log[m.seq] # "app" /\ m.new = m.seq + 1
      /\ m.type # "reset" /\ m.seq # 0 => m.type = log[m.seq]
  <2>1. m \in Truth /\ m.seq < inSeq
    BY <1>1 DEF GapInv, Faithful
  <2>2. m.seq \in 0..Len(log)
    BY <1>4, <2>1 DEF Truth
  <2> QED
    BY <1>4, <2>1, <2>2 DEF Truth
<1>6. inSeq \in Nat /\ inSeq' \in 1..inSeq /\ inSeq <= Len(log) + 1
  <2>1. inSeq \in 1..MaxIn + 1 /\ inSeq <= Len(log) + 1
    BY DEF GapInv, Typed, Data, Bounded
  <2>2. inSeq' = inSeq \/ inSeq' = m.seq + 1
    BY <1>1, <1>5
  <2> QED
    BY <1>4, <1>5, <2>1, <2>2
<1>7. handed' \in [0..MaxIn -> Nat]
      /\ \A n \in 1..MaxIn : handed[n] > 0 => handed'[n] > 0
  BY <1>1, <1>5 DEF GapInv, Typed, Data
<1>8. \A n \in DOMAIN log : log[n] = "app" /\ n = m.seq => handed'[n] > 0
  <2> SUFFICES ASSUME m.type = "app" PROVE handed'[m.seq] > 0
    BY <1>4, <1>5
  <2>1. handed \in [0..MaxIn -> Nat]
    BY DEF GapInv, Typed, Data
  <2> QED
    BY <1>1, <1>5, <2>1
<1>9. Typed'
  <2>1. Controls'
    BY <1>1, <1>2, <1>3 DEF GapInv, Typed, Controls
  <2>2. Flags' /\ Counters'
    BY <1>1, <1>3 DEF GapInv, Typed, Flags, Counters
  <2>3. inSeq' \in 1..MaxIn + 1
    BY <1>4, <1>6
  <2>4. Data'
    BY <1>1, <1>7, <2>3 DEF GapInv, Typed, Data
  <2> QED
    BY <2>1, <2>2, <2>4 DEF Typed
<1>10. Bounded'
  BY <1>1, <1>4, <1>6 DEF GapInv, Bounded
<1>11. Faithful'
  <2>1. Truth' = Truth
    BY <1>1 DEF Truth
  <2> QED
    BY <1>1, <1>2, <2>1 DEF GapInv, Faithful
<1>12. Alive' = Alive
  BY <1>1 DEF Alive
<1>13. InOrder'
  <2> SUFFICES ASSUME Alive, faults = 0 PROVE InOrder'
    BY <1>1, <1>12 DEF InOrder
  <2>1. m.type # "reset"
    BY <1>1 DEF GapInv, InOrder
  <2>2. inSeq' = inSeq
    BY <1>1, <2>1
  <2> QED
    BY <1>1, <1>2, <2>2 DEF GapInv, InOrder
<1>14. Coming'
  <2> SUFFICES ASSUME Alive, faults <= 1, NEW n \in DOMAIN log, log[n] = "app", n < inSeq'
               PROVE  handed'[n] > 0 \/ n \in Numbers(fromGate) \/ n \in Requests(toGate)
    BY <1>1, <1>12 DEF Coming
  <2>1. n < inSeq /\ n \in 1..MaxIn
    BY <1>4, <1>6
  <2>2. \/ handed[n] > 0 \/ m.seq = n \/ n \in Numbers(fromGate) \/ n \in Requests(toGate)
    BY <1>1, <2>1 DEF GapInv, Coming
  <2> QED
    BY <1>7, <1>8, <2>1, <2>2
<1>15. NothingSkipped'
  <2> SUFFICES ASSUME NEW n \in DOMAIN log, log[n] = "app", n < inSeq'
               PROVE  handed'[n] > 0 \/ n \in asked
    BY <1>1 DEF NothingSkipped
  <2>1. n < inSeq /\ n \in 1..MaxIn
    BY <1>4, <1>6
  <2>2. handed[n] > 0 \/ n \in asked \/ m.seq = n
    BY <1>1, <2>1 DEF GapInv, NothingSkipped
  <2> QED
    BY <1>7, <1>8, <2>1, <2>2
<1> QED
  BY <1>9, <1>10, <1>11, <1>13, <1>14, <1>15 DEF GapInv

-----------------------------------------------------------------------------
(* The Gate                                                                 *)

LEMMA LongerLog ==
  ASSUME NEW a \in Nat, NEW b \in Nat, a <= b, NEW c \in Nat, c <= a + 1
  PROVE  1..a \subseteq 1..b /\ c <= b + 1 /\ \A n \in 1..b : n < c => n \in 1..a
  OBVIOUS

\* Only what stands in place of a message is a SequenceReset.
LEMMA FillsHaveNumbers ==
  ASSUME MaxIn \in Nat, NEW f \in Frames, f.type = "reset" PROVE f.seq # 0
<1>1. CASE f \in [type : Kinds, seq : 0..MaxIn, dup : {FALSE}]
  <2>1. f.type \in Kinds
    BY <1>1
  <2> QED
    BY <2>1 DEF Kinds
<1>2. CASE f \in [type : {"app"}, seq : 1..MaxIn, dup : {TRUE}]
  BY <1>2
<1>3. CASE f \in [type : {"reset"}, seq : 1..MaxIn, dup : {TRUE}, new : 1..MaxIn + 1]
  BY <1>3
<1> QED
  BY <1>1, <1>2, <1>3, Zenon DEF Frames

\* A frame that the Gate appends, with what it adds to its log, if anything.
LEMMA AppendedGap ==
  ASSUME GapInv, Controls', Flags', Counters', UNCHANGED <<inSeq, handed, asked, reader>>,
         Alive' = Alive, IsQueue(toGate'), Requests(toGate') = Requests(toGate),
         NEW f \in Truth', fromGate' = Append(fromGate, f), faults' \in Nat, faults <= faults',
         log' \in Seq(Kinds), Len(log) <= Len(log'), Len(log') <= MaxIn,
         \A n \in DOMAIN log : log'[n] = log[n],
         faults' = 0 => Len(log') = Len(log) + 1 /\ f.seq = Len(log') /\ f.type # "reset"
  PROVE  GapInv'
<1>1. /\ log \in Seq(Kinds) /\ Len(log) \in Nat /\ DOMAIN log = 1..Len(log) /\ MaxIn \in Nat
      /\ fromGate \in Seq(Frames) /\ fromGate \in Seq(Truth) /\ inSeq \in Nat /\ faults \in Nat
      /\ inSeq <= Len(log) + 1
  <2>1. log \in Seq(Kinds) /\ fromGate \in Seq(Frames) /\ fromGate \in Seq(Truth)
    BY DEF GapInv, Typed, Data, Faithful
  <2> QED
    BY <2>1, MaxInPositive DEF GapInv, Typed, Data, Bounded
<1>2. Len(log') \in Nat /\ DOMAIN log' = 1..Len(log')
  OBVIOUS
<1>3. DOMAIN log \subseteq DOMAIN log' /\ \A n \in DOMAIN log' : n < inSeq => n \in DOMAIN log
  <2>1. 1..Len(log) \subseteq 1..Len(log') /\ \A n \in 1..Len(log') : n < inSeq => n \in 1..Len(log)
    BY <1>1, <1>2, LongerLog, Zenon
  <2> QED
    BY <1>1, <1>2, <2>1, Zenon
<1>4. Truth \subseteq Truth' /\ Truth' \subseteq Frames
  <2>1. ASSUME NEW g \in Truth PROVE g \in Truth'
    <3>1. CASE g.seq = 0
      <4>1. g \in Frames
        BY DEF Truth
      <4>2. g.type # "reset"
        BY <1>1, <3>1, <4>1, FillsHaveNumbers
      <4> QED
        BY <3>1, <4>1, <4>2 DEF Truth
    <3>2. CASE g.seq # 0
      <4>1. g.seq \in DOMAIN log /\ g.seq \in DOMAIN log' /\ log'[g.seq] = log[g.seq]
        BY <1>3, <3>2 DEF Truth
      <4> QED
        BY <3>2, <4>1 DEF Truth
    <3> QED
      BY <3>1, <3>2
  <2> QED
    BY <2>1 DEF Truth
<1>5. fromGate' \in Seq(Truth')
  <2>1. fromGate \in Seq(Truth')
    BY <1>1, <1>4
  <2> QED
    BY <2>1
<1>6. fromGate' \in Seq(Frames)
  BY <1>1, <1>4
<1>7. Typed'
  BY <1>2, <1>6 DEF GapInv, Typed, Data
<1>8. Bounded'
  <2>1. inSeq <= Len(log') + 1
    BY <1>1, <1>2, LongerLog, Zenon
  <2>2. Requests(toGate') \subseteq DOMAIN log'
    BY <1>3 DEF GapInv, Bounded
  <2> QED
    BY <2>1, <2>2 DEF Bounded
<1>9. Faithful'
  BY <1>4, <1>5 DEF GapInv, Faithful
<1>10. InOrder'
  <2> SUFFICES ASSUME Alive, faults' = 0 PROVE InOrder'
    BY DEF InOrder
  <2>1. /\ Len(fromGate) + inSeq = Len(log) + 1 /\ Requests(toGate) = {}
        /\ reader.at = "dispatch" => reader.msg.type # "reset"
    BY <1>1 DEF GapInv, InOrder
  <2>2. ASSUME NEW i \in DOMAIN fromGate
        PROVE  fromGate[i].seq = inSeq + i - 1 /\ fromGate[i].type # "reset"
    BY <1>1 DEF GapInv, InOrder
  <2>3. Len(log') = Len(log) + 1 /\ f.seq = Len(log') /\ f.type # "reset"
    OBVIOUS
  <2>4. /\ Len(fromGate) \in Nat /\ DOMAIN fromGate = 1..Len(fromGate)
        /\ Len(fromGate') = Len(fromGate) + 1 /\ DOMAIN fromGate' = 1..Len(fromGate) + 1
        /\ fromGate'[Len(fromGate) + 1] = f
        /\ \A i \in 1..Len(fromGate) : fromGate'[i] = fromGate[i]
    BY <1>1
  <2>5. ASSUME NEW i \in DOMAIN fromGate'
        PROVE  fromGate'[i].seq = inSeq + i - 1 /\ fromGate'[i].type # "reset"
    <3>1. CASE i \in DOMAIN fromGate
      BY <2>2, <2>4, <3>1
    <3>2. CASE i = Len(fromGate) + 1
      <4>1. f.seq = inSeq + (Len(fromGate) + 1) - 1
        BY <1>1, <2>1, <2>3, <2>4
      <4> QED
        BY <2>3, <2>4, <3>2, <4>1
    <3> QED
      BY <2>4, <3>1, <3>2
  <2>6. Len(fromGate') + inSeq' = Len(log') + 1
    BY <1>1, <2>1, <2>3, <2>4
  <2> QED
    BY <2>1, <2>5, <2>6 DEF InOrder
<1>11. Coming'
  <2> SUFFICES ASSUME Alive, faults' <= 1, NEW n \in DOMAIN log', log'[n] = "app", n < inSeq
               PROVE  \/ handed[n] > 0
                      \/ reader.at = "dispatch" /\ reader.msg.seq = n
                      \/ n \in Numbers(fromGate') \/ n \in Requests(toGate)
    BY DEF Coming
  <2>1. n \in DOMAIN log /\ log[n] = "app"
    BY <1>3
  <2>a. faults <= 1
    BY <1>1
  <2>2. Numbers(fromGate) \subseteq Numbers(fromGate')
    <3>1. fromGate \in Seq(Truth')
      BY <1>1, <1>4
    <3> QED
      BY <3>1, NumbersOfQueue
  <2> QED
    BY <2>1, <2>a, <2>2 DEF GapInv, Coming
<1>12. NothingSkipped'
  <2> SUFFICES ASSUME NEW n \in DOMAIN log', log'[n] = "app", n < inSeq
               PROVE  \/ handed[n] > 0 \/ n \in asked
                      \/ reader.at = "dispatch" /\ reader.msg.seq = n
    BY DEF NothingSkipped
  <2>1. n \in DOMAIN log /\ log[n] = "app"
    BY <1>3
  <2> QED
    BY <2>1 DEF GapInv, NothingSkipped
<1> QED
  BY <1>7, <1>8, <1>9, <1>10, <1>11, <1>12 DEF GapInv

\* A message with the next number.
LEMMA LiveGap ==
  ASSUME GapInv, Controls', Flags', Counters', UNCHANGED <<inSeq, handed, asked, reader, faults>>,
         Alive' = Alive, IsQueue(toGate'), Requests(toGate') = Requests(toGate),
         NEW kind \in Kinds, Live(kind)
  PROVE  GapInv'
<1> DEFINE f == [type |-> kind, seq |-> Len(log) + 1, dup |-> FALSE]
<1>1. log \in Seq(Kinds) /\ MaxIn \in Nat /\ faults \in Nat /\ kind # "reset"
  BY MaxInPositive DEF GapInv, Typed, Data, Bounded, Kinds
<1>2. /\ log' = Append(log, kind) /\ fromGate' = Append(fromGate, f) /\ Len(log) < MaxIn
      /\ Len(log) \in Nat
  BY <1>1 DEF Live
<1>3. Len(log') = Len(log) + 1 /\ DOMAIN log' = 1..Len(log) + 1 /\ log'[Len(log) + 1] = kind
  BY <1>1, <1>2
<1>4. f \in Frames
  <2>1. Len(log) + 1 \in 0..MaxIn
    BY <1>1, <1>2
  <2>2. f \in [type : Kinds, seq : 0..MaxIn, dup : {FALSE}]
    BY <2>1
  <2> QED
    BY <2>2, Zenon DEF Frames
<1>a. log' \in Seq(Kinds) /\ Len(log) <= Len(log') /\ Len(log') <= MaxIn
      /\ \A n \in DOMAIN log : log'[n] = log[n]
  BY <1>1, <1>2
<1>5. f \in Truth'
  BY <1>1, <1>2, <1>3, <1>4 DEF Truth
<1>6. f.seq = Len(log') /\ f.type # "reset"
  BY <1>1, <1>3
<1> HIDE DEF f
<1> QED
  BY <1>1, <1>2, <1>3, <1>a, <1>5, <1>6, AppendedGap

\* The answer to a ResendRequest tells the truth.
LEMMA AgainTruth ==
  ASSUME GapInv, NEW numbers, numbers \subseteq DOMAIN log
  PROVE  /\ Again(numbers) \in Seq(Truth) /\ numbers \subseteq Numbers(Again(numbers))
         /\ numbers = {} => Again(numbers) = <<>>
<1>1. /\ log \in Seq(Kinds) /\ Len(log) \in Nat /\ DOMAIN log = 1..Len(log) /\ MaxIn \in Nat
      /\ Len(log) <= MaxIn
  <2>1. log \in Seq(Kinds)
    BY DEF GapInv, Typed, Data
  <2> QED
    BY <2>1, MaxInPositive DEF GapInv, Bounded
<1>2. ASSUME NEW k \in numbers PROVE Resent(k) \in Truth /\ Resent(k).seq = k /\ k \in 1..MaxIn
  <2>1. k \in 1..MaxIn /\ k + 1 \in 1..MaxIn + 1 /\ k \in DOMAIN log
    BY <1>1
  <2>2. CASE log[k] = "app"
    <3>1. Resent(k) = [type |-> "app", seq |-> k, dup |-> TRUE]
      BY <2>2 DEF Resent
    <3>2. Resent(k) \in [type : {"app"}, seq : 1..MaxIn, dup : {TRUE}]
      BY <2>1, <3>1
    <3>3. Resent(k) \in Frames
      BY <3>2, Zenon DEF Frames
    <3> QED
      BY <2>1, <2>2, <3>1, <3>3 DEF Truth
  <2>3. CASE log[k] # "app"
    <3>1. Resent(k) = [type |-> "reset", seq |-> k, dup |-> TRUE, new |-> k + 1]
      BY <2>3 DEF Resent
    <3>2. Resent(k) \in [type : {"reset"}, seq : 1..MaxIn, dup : {TRUE}, new : 1..MaxIn + 1]
      BY <2>1, <3>1
    <3>3. Resent(k) \in Frames
      BY <3>2, Zenon DEF Frames
    <3> QED
      BY <2>1, <2>3, <3>1, <3>3 DEF Truth
  <2> QED
    BY <2>2, <2>3
<1> DEFINE T == {Resent(k) : k \in numbers}
<1>3. /\ Again(numbers) \in Seq(T)
      /\ \A k \in numbers : \E i \in DOMAIN Again(numbers) : Again(numbers)[i] = Resent(k)
  BY <1>2, AgainAnswers
<1>4. T \subseteq Truth
  BY <1>2
<1>5. numbers = {} => Again(numbers) = <<>>
  <2> SUFFICES ASSUME numbers = {} PROVE Again(numbers) = <<>>
    OBVIOUS
  <2>1. Again(numbers) \in Seq({})
    BY <1>3
  <2> QED
    BY <2>1
<1>6. numbers \subseteq Numbers(Again(numbers))
  BY <1>2, <1>3 DEF Numbers
<1> QED
  <2>1. Again(numbers) \in Seq(Truth)
    BY <1>3, <1>4
  <2> QED
    BY <1>5, <1>6, <2>1

\* The Gate answers a ResendRequest.
LEMMA ResendGap ==
  ASSUME GapInv, Controls', Flags', Counters', Alive' = Alive, IsQueue(toGate'),
         UNCHANGED <<inSeq, handed, asked, reader, faults, log>>,
         NEW numbers, Requests(toGate) = Requests(toGate') \cup numbers,
         fromGate' = fromGate \o Again(numbers)
  PROVE  GapInv'
<1> PICK again : again = Again(numbers)
  OBVIOUS
<1>1. numbers \subseteq DOMAIN log
  BY DEF GapInv, Bounded
<1>2. /\ again \in Seq(Truth) /\ numbers \subseteq Numbers(again) /\ fromGate' = fromGate \o again
      /\ numbers = {} => again = <<>>
  BY <1>1, AgainTruth
<1>3. fromGate \in Seq(Truth) /\ Truth' = Truth /\ Truth \subseteq Frames
  BY DEF GapInv, Faithful, Truth
<1>4. fromGate' \in Seq(Truth)
  BY <1>2, <1>3
<1>5. fromGate' \in Seq(Frames)
  BY <1>3, <1>4
<1>6. Numbers(fromGate') = Numbers(fromGate) \cup Numbers(again)
  BY <1>2, <1>3, NumbersOfQueue
<1>7. Typed'
  BY <1>5 DEF GapInv, Typed, Data
<1>8. Bounded'
  BY DEF GapInv, Bounded
<1>9. Faithful'
  BY <1>3, <1>4 DEF GapInv, Faithful
<1>10. InOrder'
  <2> SUFFICES ASSUME Alive, faults = 0 PROVE InOrder'
    BY DEF InOrder
  <2>1. Requests(toGate) = {}
    BY DEF GapInv, InOrder
  <2>2. numbers = {} /\ Requests(toGate') = {}
    BY <2>1
  <2>3. fromGate' = fromGate
    BY <1>2, <1>3, <2>2
  <2> QED
    BY <2>2, <2>3 DEF GapInv, InOrder
<1>11. Coming'
  BY <1>2, <1>6 DEF GapInv, Coming
<1>12. NothingSkipped'
  BY DEF GapInv, NothingSkipped
<1> QED
  BY <1>7, <1>8, <1>9, <1>10, <1>11, <1>12 DEF GapInv

LEMMA GateReadsGap == ASSUME GapInv, GateReads PROVE GapInv'
<1> PICK h : h = Head(toGate)
  OBVIOUS
<1>1. /\ Alive /\ toGate # <<>> /\ toGate' = Tail(toGate) /\ gateIn' = gateIn + 1
      /\ UNCHANGED <<caller, reader, heart, ctxDone, closing, wanted, ack, outSeq, failed, inSeq,
                     conn, handed, asked, strayed, faults>>
  BY DEF GateReads, closeVars, hist
<1>2. /\ IsQueue(toGate) /\ IsQueue(toGate') /\ Alive' = Alive
      /\ Requests(toGate) = Requests(toGate') \cup
           (IF h.msg.type = "resend" THEN h.msg.numbers ELSE {})
  <2>1. IsQueue(toGate)
    BY DEF GapInv, Bounded
  <2> QED
    BY <1>1, <2>1, QueueTail, RequestsOfQueue DEF Alive
<1>3. Controls' /\ Counters'
  <2>1. Controls'
    BY <1>1 DEF GapInv, Typed, Controls
  <2>2. Counters'
    BY <1>1 DEF GapInv, Typed, Counters
  <2> QED
    BY <2>1, <2>2
<1>4. Flags'
  BY <1>1 DEF GapInv, Typed, Flags
<1>5. CASE h.msg.type = "logon" /\ (Live("logon") \/ Live("logout"))
  <2>1. Requests(toGate') = Requests(toGate)
    BY <1>2, <1>5
  <2>2. "logon" \in Kinds /\ "logout" \in Kinds
    BY DEF Kinds
  <2> QED
    BY <1>1, <1>2, <1>3, <1>4, <1>5, <2>1, <2>2, LiveGap
<1>6. CASE /\ h.msg.type = "resend" /\ UNCHANGED log
           /\ fromGate' = fromGate \o Again(h.msg.numbers)
  <2>1. Requests(toGate) = Requests(toGate') \cup h.msg.numbers
    BY <1>2, <1>6
  <2> QED
    BY <1>1, <1>2, <1>3, <1>4, <1>6, <2>1, ResendGap
<1>7. CASE h.msg.type # "resend" /\ UNCHANGED <<log, fromGate>>
  <2>1. Requests(toGate') = Requests(toGate)
    BY <1>2, <1>7
  <2>2. Typed'
    BY <1>1, <1>3, <1>4, <1>7 DEF GapInv, Typed, Data
  <2> QED
    BY <1>1, <1>2, <1>7, <2>1, <2>2, AsideGap
<1> QED
  BY <1>5, <1>6, <1>7 DEF GateReads

LEMMA GateSendsGap == ASSUME GapInv, GateSends PROVE GapInv'
<1>1. /\ \E kind \in Kinds : Live(kind)
      /\ UNCHANGED <<caller, reader, heart, ctxDone, closing, wanted, ack, outSeq, toGate, failed,
                     inSeq, conn, gateIn, handed, asked, strayed, faults>>
  BY DEF GateSends, closeVars, writeVars, hist
<1>2. Controls' /\ Counters'
  BY <1>1 DEF GapInv, Typed, Controls, Counters
<1>3. Flags'
  BY <1>1 DEF GapInv, Typed, Flags
<1>4. Alive' = Alive /\ IsQueue(toGate') /\ Requests(toGate') = Requests(toGate)
  BY <1>1 DEF Alive, GapInv, Bounded
<1> QED
  BY <1>1, <1>2, <1>3, <1>4, LiveGap

LEMMA GateStraysGap == ASSUME GapInv, GateStrays PROVE GapInv'
<1>1. PICK n \in DOMAIN log :
        /\ log[n] = "app"
        /\ fromGate' = Append(fromGate, [type |-> "app", seq |-> n, dup |-> FALSE])
  BY DEF GateStrays
<1> DEFINE f == [type |-> "app", seq |-> n, dup |-> FALSE]
<1>2. /\ UNCHANGED <<caller, reader, heart, ctxDone, closing, wanted, ack, outSeq, toGate, failed,
                     inSeq, conn, gateIn, handed, asked, log>>
      /\ faults' = faults + 1 /\ strayed' = TRUE
  BY DEF GateStrays, closeVars, writeVars
<1>3. Controls' /\ Counters'
  BY <1>2 DEF GapInv, Typed, Controls, Counters
<1>4. Flags'
  BY <1>2 DEF GapInv, Typed, Flags
<1>5. Alive' = Alive /\ IsQueue(toGate') /\ Requests(toGate') = Requests(toGate)
  BY <1>2 DEF Alive, GapInv, Bounded
<1>6. log \in Seq(Kinds) /\ Len(log) \in Nat /\ DOMAIN log = 1..Len(log) /\ Len(log) <= MaxIn
      /\ MaxIn \in Nat /\ faults \in Nat
  <2>1. log \in Seq(Kinds)
    BY DEF GapInv, Typed, Data
  <2> QED
    BY <2>1, MaxInPositive DEF GapInv, Bounded
<1>7. f \in Truth'
  <2>1. n \in 0..MaxIn /\ n \in DOMAIN log'
    BY <1>2, <1>6
  <2>2. f \in Frames
    BY <2>1 DEF Frames, Kinds
  <2> QED
    BY <1>1, <1>2, <2>1, <2>2 DEF Truth
<1>8. faults' \in Nat /\ faults <= faults' /\ faults' # 0
  BY <1>2, <1>6
<1> HIDE DEF f
<1>9. fromGate' = Append(fromGate, f)
  BY <1>1 DEF f
<1>10. log' \in Seq(Kinds) /\ Len(log) <= Len(log') /\ Len(log') <= MaxIn
       /\ \A k \in DOMAIN log : log'[k] = log[k]
  BY <1>2, <1>6
<1> QED
  BY <1>2, <1>3, <1>4, <1>5, <1>7, <1>8, <1>9, <1>10, AppendedGap

\* A message without a number is one of the log, but true of none.
LEMMA GateForgetsNumberGap == ASSUME GapInv, GateForgetsNumber PROVE GapInv'
<1> DEFINE f == [type |-> "app", seq |-> 0, dup |-> FALSE]
<1>1. /\ UNCHANGED <<caller, reader, heart, ctxDone, closing, wanted, ack, outSeq, toGate, failed,
                     inSeq, conn, gateIn, handed, asked, strayed>>
      /\ faults' = faults + 1 /\ fromGate' = Append(fromGate, f)
      /\ log' = Append(log, "app") /\ Len(log) < MaxIn
  BY DEF GateForgetsNumber, closeVars, writeVars, hist
<1>2. Controls' /\ Counters'
  BY <1>1 DEF GapInv, Typed, Controls, Counters
<1>3. Flags'
  BY <1>1 DEF GapInv, Typed, Flags
<1>4. Alive' = Alive /\ IsQueue(toGate') /\ Requests(toGate') = Requests(toGate)
  BY <1>1 DEF Alive, GapInv, Bounded
<1>5. log \in Seq(Kinds) /\ Len(log) \in Nat /\ MaxIn \in Nat /\ faults \in Nat /\ "app" \in Kinds
  <2>1. log \in Seq(Kinds)
    BY DEF GapInv, Typed, Data
  <2> QED
    BY <2>1, MaxInPositive DEF GapInv, Bounded, Kinds
<1>6. f \in Truth'
  <2>1. 0 \in 0..MaxIn
    BY <1>5
  <2>2. f \in [type : Kinds, seq : 0..MaxIn, dup : {FALSE}]
    BY <1>5, <2>1
  <2>3. f \in Frames
    BY <2>2, Zenon DEF Frames
  <2>4. f.seq = 0 /\ f.type # "reset"
    OBVIOUS
  <2> HIDE DEF f
  <2> QED
    BY <2>3, <2>4 DEF Truth
<1>7. faults' \in Nat /\ faults <= faults' /\ faults' # 0
  BY <1>1, <1>5
<1>8. log' \in Seq(Kinds) /\ Len(log) <= Len(log') /\ Len(log') <= MaxIn
      /\ \A k \in DOMAIN log : log'[k] = log[k]
  BY <1>1, <1>5
<1> HIDE DEF f
<1> QED
  BY <1>1, <1>2, <1>3, <1>4, <1>6, <1>7, <1>8, AppendedGap

LEMMA StallGap == ASSUME GapInv, Stall PROVE GapInv'
<1>1. /\ UNCHANGED <<caller, reader, heart, ctxDone, closing, wanted, ack, outSeq, toGate, failed,
                     inSeq, gateIn, log, fromGate, handed, asked, strayed, faults>>
      /\ Alive /\ conn' = "stalled"
  BY DEF Stall, Alive, closeVars, writeVars, gateVars, hist
<1>2. Controls' /\ Counters' /\ Data'
  BY <1>1 DEF GapInv, Typed, Controls, Counters, Data
<1>3. Flags'
  BY <1>1 DEF GapInv, Typed, Flags
<1>4. IsQueue(toGate') /\ Requests(toGate') = Requests(toGate)
  BY <1>1 DEF GapInv, Bounded
<1> QED
  BY <1>1, <1>2, <1>3, <1>4, AsideGap DEF Typed

-----------------------------------------------------------------------------
LEMMA StepGap == IInv /\ GapInv /\ [Next]_vars => GapInv'
<1> SUFFICES ASSUME IInv, GapInv, [Next]_vars PROVE GapInv'
  OBVIOUS
<1>1. CASE StartLogon \/ AwaitLogon \/ StopHeart \/ CancelContext \/ CallClose
           \/ CheckDone \/ ReadFails
  BY <1>1, QuietStepsGap
<1>2. CASE SendLogon \/ SendApp \/ Tick \/ CloseSignals \/ Reply
  BY <1>2, WritingStepsGap
<1>3. CASE CloseDisconnects \/ Break
  BY <1>3, CuttingStepsGap
<1>4. CASE Read \/ SkipFrame \/ Dispatch
  BY <1>4, ReadGap, SkipFrameGap, DispatchGap
<1>5. CASE GateReads \/ GateSends \/ GateStrays \/ GateForgetsNumber \/ Stall
  BY <1>5, GateReadsGap, GateSendsGap, GateStraysGap, GateForgetsNumberGap, StallGap
<1>6. CASE UNCHANGED vars
  <2>1. UNCHANGED <<caller, reader, heart, ctxDone, closing, wanted, ack, outSeq, inSeq, failed,
                    conn, toGate, gateIn, log, fromGate, handed, asked, strayed, faults>>
    BY <1>6 DEF vars
  <2>2. Controls' /\ Counters' /\ Data'
    BY <2>1 DEF GapInv, Typed, Controls, Counters, Data
  <2>3. Flags'
    BY <2>1 DEF GapInv, Typed, Flags
  <2>4. Alive' = Alive /\ IsQueue(toGate') /\ Requests(toGate') = Requests(toGate)
    BY <2>1 DEF Alive, GapInv, Bounded
  <2> QED
    BY <2>1, <2>2, <2>3, <2>4, AsideGap DEF Typed
<1> QED
  BY <1>1, <1>2, <1>3, <1>4, <1>5, <1>6
  DEF Next, Client, Gate, Caller, Closer, Reader, Heart

LEMMA SessionAndGap == Spec => [](IInv /\ GapInv)
  BY InitInv, StepInv, InitGap, StepGap, PTL DEF Spec

\* What each number below the counter has come to, through every step.
THEOREM GapInvariance == Spec => []GapInv
  BY SessionAndGap, PTL

\* The session's fields and what is under way keep their types: also where a
\* SequenceReset moves the counter, it stays within the numbers of the Gate
\* (internal/fix/session.go:248-281, 309-315).
THEOREM SessionTypes == Spec => []TypeOK
<1>1. GapInv => TypeOK
  BY DEF GapInv, Typed, Controls, Flags, Counters, Data, TypeOK
<1> QED
  BY <1>1, GapInvariance, PTL

\* An application message that the counter has passed was handed over, is being
\* dispatched or was asked for again, however often the counter moves back
\* (internal/fix/session.go:248-281).
THEOREM GapsAreAskedFor == Spec => []NothingSkipped
  BY GapInvariance, PTL DEF GapInv

\* After one lost, unreadable or stray frame, once nothing is under way, every
\* application message below the counter has reached appHandler: what was lost
\* was not yet passed, and its ResendRequest is answered behind what is under way
\* (internal/fix/session.go:248-281, 283-326).
THEOREM GapsAreMadeGood == Spec => []GapIsMadeGood
<1>1. GapInv => GapIsMadeGood
  <2> SUFFICES ASSUME GapInv, Quiet, faults <= 1, NEW n \in DOMAIN log, log[n] = "app",
                      n < inSeq
               PROVE  handed[n] > 0
    BY DEF GapIsMadeGood
  <2>1. Alive /\ toGate = <<>> /\ fromGate = <<>> /\ reader.at = "read"
    BY DEF Quiet
  <2>2. Requests(toGate) = {} /\ Numbers(fromGate) = {}
    BY <2>1, EmptyQueue, RequestsOfQueue, NumbersOfQueue DEF Numbers
  <2> QED
    BY <2>1, <2>2 DEF GapInv, Coming
<1> QED
  BY <1>1, GapInvariance, PTL

-----------------------------------------------------------------------------
(* What is still to come                                                    *)

\* A message sent for the first time, with a number.
Fresh(f) == ~f.dup /\ f.seq # 0

\* The counter, what is being dispatched and everything under way before it are
\* below a fresh message, and so is the number that a gap fill leads to.
Ahead(i) ==
  /\ inSeq <= fromGate[i].seq
  /\ reader.at = "dispatch" => reader.msg.seq < fromGate[i].seq
  /\ \A j \in 1..i - 1 : fromGate[j].seq < fromGate[i].seq

NoneOvertaken == ~strayed => \A i \in DOMAIN fromGate : Fresh(fromGate[i]) => Ahead(i)

AlarmInv == NoFalseAlarm /\ NoneOvertaken

\* The numbers that the rest of the proof compares.
LEMMA Compared ==
  ASSUME GapInv
  PROVE  /\ inSeq \in Nat \ {0} /\ Len(log) \in Nat /\ inSeq <= Len(log) + 1
         /\ Len(fromGate) \in Nat /\ DOMAIN fromGate = 1..Len(fromGate)
         /\ \A i \in DOMAIN fromGate : fromGate[i] \in Truth /\ fromGate[i].seq \in 0..Len(log)
         /\ reader.at = "dispatch" => reader.msg.seq \in 0..Len(log)
<1>1. log \in Seq(Kinds) /\ fromGate \in Seq(Truth) /\ inSeq \in 1..MaxIn + 1 /\ MaxIn \in Nat
  BY MaxInPositive DEF GapInv, Typed, Data, Faithful
<1>2. Len(log) \in Nat /\ DOMAIN log = 1..Len(log)
  BY <1>1
<1>3. \A f \in Truth : f.seq \in 0..Len(log)
  BY <1>2 DEF Truth
<1> QED
  BY <1>1, <1>2, <1>3 DEF GapInv, Bounded, Faithful

\* A step that moves no number and no message, and fails, if at all, for cause.
LEMMA AsideAlarm ==
  ASSUME AlarmInv, UNCHANGED <<inSeq, strayed>>, fromGate' = <<>> \/ fromGate' = fromGate,
         reader' = reader \/ (reader.at # "done" /\ reader'.at # "dispatch"),
         Alive' => Alive, failed' => failed \/ ~Alive' \/ reader'.at = "done"
  PROVE  AlarmInv'
<1>1. NoFalseAlarm'
  BY DEF AlarmInv, NoFalseAlarm
<1>2. CASE fromGate' = fromGate
  BY <1>1, <1>2 DEF AlarmInv, NoneOvertaken, Ahead, Fresh
<1>3. CASE fromGate' = <<>>
  BY <1>1, <1>3, EmptyQueue DEF AlarmInv, NoneOvertaken
<1> QED
  BY <1>2, <1>3

\* A write fails only without a connection.
LEMMA SendFails ==
  ASSUME NEW m, Send(m) PROVE failed' = failed \/ ~Alive
  BY DEF Send, Write, WriteError

\* The message at the head is the first to be tracked, and a number that is too low
\* is no fresh one's.
LEMMA ReadAlarm == ASSUME GapInv, AlarmInv, Read PROVE AlarmInv'
<1> PICK m, rest : m = Head(fromGate) /\ rest = Tail(fromGate)
  OBVIOUS
<1>1. /\ reader.at = "read" /\ fromGate # <<>> /\ Track(m) /\ fromGate' = rest
      /\ reader'.at = "dispatch" /\ reader'.msg = m
      /\ UNCHANGED <<closing, conn, strayed>>
  BY DEF Read, closeVars
<1>2. /\ m.seq \in 0..Len(log) /\ m = fromGate[1] /\ 1 \in DOMAIN fromGate
      /\ Len(fromGate) \in Nat /\ DOMAIN fromGate = 1..Len(fromGate)
      /\ Len(rest) = Len(fromGate) - 1 /\ DOMAIN rest = 1..Len(rest)
      /\ \A i \in DOMAIN rest : i + 1 \in DOMAIN fromGate /\ rest[i] = fromGate[i + 1]
  BY <1>1, FirstFrame
<1>3. /\ inSeq \in Nat \ {0} /\ Len(log) \in Nat
      /\ \A i \in DOMAIN fromGate : fromGate[i].seq \in 0..Len(log)
  BY Compared
<1>4. Alive' = Alive
  BY <1>1 DEF Alive
<1>5. NoFalseAlarm'
  <2>1. CASE failed' = failed \/ ~Alive
    BY <1>1, <1>4, <2>1 DEF AlarmInv, NoFalseAlarm
  <2>2. CASE m.seq \in 1..inSeq - 1 /\ failed' = (failed \/ Unrecoverable(m))
    <3>1. strayed \/ ~Fresh(m)
      <4> SUFFICES ASSUME ~strayed, Fresh(m) PROVE FALSE
        OBVIOUS
      <4>1. inSeq <= m.seq
        BY <1>2 DEF AlarmInv, NoneOvertaken, Ahead
      <4> QED
        BY <1>2, <1>3, <2>2, <4>1
    <3>2. CASE strayed
      BY <1>1, <3>2 DEF NoFalseAlarm
    <3>3. CASE ~Fresh(m)
      <4>1. m.seq # 0
        BY <1>2, <1>3, <2>2
      <4>2. ~Unrecoverable(m)
        BY <3>3, <4>1, Zenon DEF Fresh, Unrecoverable
      <4>3. failed' => failed
        BY <2>2, <4>2, Zenon
      <4> QED
        BY <1>1, <1>4, <4>3 DEF AlarmInv, NoFalseAlarm
    <3> QED
      BY <3>1, <3>2, <3>3
  <2>3. CASE UNCHANGED writeVars
    BY <2>1, <2>3 DEF writeVars
  <2>4. CASE \E w : Send(w)
    BY <2>1, <2>4, SendFails
  <2> QED
    BY <1>1, <2>2, <2>3, <2>4 DEF Track
<1>6. NoneOvertaken'
  <2> SUFFICES ASSUME ~strayed, NEW i \in DOMAIN rest, Fresh(rest[i])
               PROVE  /\ inSeq' <= rest[i].seq /\ m.seq < rest[i].seq
                      /\ \A j \in 1..i - 1 : rest[j].seq < rest[i].seq
    BY <1>1 DEF NoneOvertaken, Ahead
  <2>1. /\ i + 1 \in DOMAIN fromGate /\ rest[i] = fromGate[i + 1] /\ i \in 1..Len(rest)
        /\ rest[i].seq \in Nat
    BY <1>2, <1>3
  <2>2. /\ inSeq <= rest[i].seq
        /\ \A j \in 1..(i + 1) - 1 : fromGate[j].seq < rest[i].seq
    BY <2>1 DEF AlarmInv, NoneOvertaken, Ahead
  <2>3. m.seq < rest[i].seq
    <3>1. 1 \in 1..(i + 1) - 1
      BY <2>1
    <3> QED
      BY <1>2, <2>2, <3>1
  <2>4. \A j \in 1..i - 1 : rest[j].seq < rest[i].seq
    <3> TAKE j \in 1..i - 1
    <3>1. j \in DOMAIN rest /\ j + 1 \in 1..(i + 1) - 1
      BY <1>2, <2>1
    <3> QED
      BY <1>2, <2>2, <3>1
  <2>5. inSeq' = inSeq \/ inSeq' = m.seq + 1
    BY <1>1 DEF Track, Past
  <2>6. inSeq' <= rest[i].seq
    BY <1>2, <1>3, <2>1, <2>2, <2>3, <2>5
  <2> QED
    BY <2>3, <2>4, <2>6
<1> QED
  BY <1>5, <1>6 DEF AlarmInv

LEMMA SkipFrameAlarm == ASSUME GapInv, AlarmInv, SkipFrame PROVE AlarmInv'
<1> PICK rest : rest = Tail(fromGate)
  OBVIOUS
<1>1. /\ reader.at = "read" /\ reader'.at = "top" /\ fromGate # <<>> /\ fromGate' = rest
      /\ UNCHANGED <<closing, conn, strayed, failed, inSeq>>
  BY DEF SkipFrame, closeVars, writeVars, hist
<1>2. /\ Len(fromGate) \in Nat /\ DOMAIN rest = 1..Len(rest)
      /\ \A i \in DOMAIN rest : i + 1 \in DOMAIN fromGate /\ rest[i] = fromGate[i + 1]
      /\ Len(rest) = Len(fromGate) - 1
  BY <1>1, FirstFrame
<1>3. NoFalseAlarm'
  BY <1>1 DEF AlarmInv, NoFalseAlarm, Alive
<1>4. ASSUME ~strayed, NEW i \in DOMAIN rest, Fresh(rest[i])
      PROVE  inSeq <= rest[i].seq /\ \A j \in 1..i - 1 : rest[j].seq < rest[i].seq
  <2>1. i + 1 \in DOMAIN fromGate /\ rest[i] = fromGate[i + 1] /\ i \in 1..Len(rest)
    BY <1>2
  <2>2. /\ inSeq <= rest[i].seq
        /\ \A j \in 1..(i + 1) - 1 : fromGate[j].seq < rest[i].seq
    BY <1>4, <2>1 DEF AlarmInv, NoneOvertaken, Ahead
  <2>3. \A j \in 1..i - 1 : j \in DOMAIN rest /\ j + 1 \in 1..(i + 1) - 1
    BY <1>2, <2>1
  <2> QED
    BY <1>2, <2>2, <2>3
<1> QED
  BY <1>1, <1>3, <1>4 DEF AlarmInv, NoneOvertaken, Ahead

\* A gap fill leads to the number behind its own, which no fresh message is below.
LEMMA DispatchAlarm == ASSUME GapInv, AlarmInv, Dispatch PROVE AlarmInv'
<1> PICK m : m = reader.msg
  OBVIOUS
<1>1. /\ reader.at = "dispatch" /\ reader'.at \in {"top", "reply"}
      /\ inSeq' = IF m.type = "reset" THEN m.new ELSE inSeq
      /\ UNCHANGED <<closing, conn, strayed, failed, fromGate>>
  <2>1. \/ reader' = [at |-> "reply", msg |-> [type |-> "admin"]]
        \/ reader' = [at |-> "reply", msg |-> [type |-> "reset", new |-> outSeq]]
        \/ reader' = [at |-> "top"]
    BY DEF Dispatch
  <2> QED
    BY <2>1 DEF Dispatch, writeVars, gateVars, hist
<1>2. m.type = "reset" => m.new = m.seq + 1
  BY <1>1 DEF GapInv, Faithful, Truth
<1>3. /\ Len(log) \in Nat /\ m.seq \in 0..Len(log)
      /\ \A i \in DOMAIN fromGate : fromGate[i].seq \in 0..Len(log)
  BY <1>1, Compared
<1>4. NoFalseAlarm'
  BY <1>1 DEF AlarmInv, NoFalseAlarm, Alive
<1>5. ASSUME ~strayed, NEW i \in DOMAIN fromGate, Fresh(fromGate[i])
      PROVE  inSeq' <= fromGate[i].seq /\ \A j \in 1..i - 1 : fromGate[j].seq < fromGate[i].seq
  <2>1. /\ inSeq <= fromGate[i].seq /\ m.seq < fromGate[i].seq
        /\ \A j \in 1..i - 1 : fromGate[j].seq < fromGate[i].seq
    BY <1>1, <1>5 DEF AlarmInv, NoneOvertaken, Ahead
  <2>2. inSeq' <= fromGate[i].seq
    BY <1>1, <1>2, <1>3, <2>1
  <2> QED
    BY <2>1, <2>2
<1> QED
  BY <1>1, <1>4, <1>5 DEF AlarmInv, NoneOvertaken, Ahead

\* What the Gate sends next has a number that none before it has reached, or it is
\* marked as sent before, or has no number.
LEMMA AppendedAlarm ==
  ASSUME GapInv, AlarmInv, UNCHANGED <<inSeq, reader, failed, strayed, closing, conn>>,
         NEW f, fromGate' = Append(fromGate, f), Fresh(f) => f.seq = Len(log) + 1
  PROVE  AlarmInv'
<1>1. NoFalseAlarm'
  BY DEF AlarmInv, NoFalseAlarm, Alive
<1>2. /\ inSeq \in Nat \ {0} /\ Len(log) \in Nat /\ inSeq <= Len(log) + 1
      /\ Len(fromGate) \in Nat /\ DOMAIN fromGate = 1..Len(fromGate)
      /\ \A i \in DOMAIN fromGate : fromGate[i].seq \in 0..Len(log)
      /\ reader.at = "dispatch" => reader.msg.seq \in 0..Len(log)
  BY Compared
<1>3. /\ DOMAIN fromGate' = 1..Len(fromGate) + 1 /\ fromGate'[Len(fromGate) + 1] = f
      /\ \A i \in 1..Len(fromGate) : fromGate'[i] = fromGate[i]
  BY QueueAppend DEF GapInv, Faithful, IsQueue
<1>4. ASSUME ~strayed, NEW i \in DOMAIN fromGate', Fresh(fromGate'[i])
      PROVE  /\ inSeq <= fromGate'[i].seq
             /\ reader.at = "dispatch" => reader.msg.seq < fromGate'[i].seq
             /\ \A j \in 1..i - 1 : fromGate'[j].seq < fromGate'[i].seq
  <2>1. CASE i \in 1..Len(fromGate)
    <3>1. fromGate'[i] = fromGate[i] /\ \A j \in 1..i - 1 : fromGate'[j] = fromGate[j]
      BY <1>2, <1>3, <2>1
    <3> QED
      BY <1>2, <1>4, <2>1, <3>1 DEF AlarmInv, NoneOvertaken, Ahead
  <2>2. CASE i = Len(fromGate) + 1
    <3>1. fromGate'[i].seq = Len(log) + 1
      BY <1>3, <1>4, <2>2
    <3>2. \A j \in 1..i - 1 : fromGate'[j].seq \in 0..Len(log)
      BY <1>2, <1>3, <2>2
    <3> QED
      BY <1>2, <3>1, <3>2
  <2> QED
    BY <1>3, <2>1, <2>2
<1> QED
  BY <1>1, <1>4 DEF AlarmInv, NoneOvertaken, Ahead

\* The answer to a ResendRequest holds nothing fresh.
LEMMA AgainAlarm ==
  ASSUME GapInv, AlarmInv, UNCHANGED <<inSeq, reader, failed, strayed, closing, conn>>,
         NEW numbers, numbers \subseteq DOMAIN log, fromGate' = fromGate \o Again(numbers)
  PROVE  AlarmInv'
<1>1. NoFalseAlarm'
  BY DEF AlarmInv, NoFalseAlarm, Alive
<1> PICK again : again = Again(numbers)
  OBVIOUS
<1>2. DOMAIN log \subseteq 1..MaxIn
  <2>1. log \in Seq(Kinds) /\ MaxIn \in Nat /\ Len(log) <= MaxIn
    BY MaxInPositive DEF GapInv, Typed, Data, Bounded
  <2> QED
    BY <2>1
<1>3. again \in Seq({Resent(k) : k \in numbers})
  BY <1>2, AgainAnswers
<1>4. \A k \in numbers : ~Fresh(Resent(k))
  BY DEF Fresh, Resent
<1>5. Len(again) \in Nat /\ \A i \in 1..Len(again) : ~Fresh(again[i])
  BY <1>3, <1>4
<1>6. fromGate \in Seq(Truth) /\ Len(fromGate) \in Nat /\ DOMAIN fromGate = 1..Len(fromGate)
  BY DEF GapInv, Faithful
<1>7. /\ DOMAIN fromGate' = 1..Len(fromGate) + Len(again)
      /\ \A i \in 1..Len(fromGate) : fromGate'[i] = fromGate[i]
      /\ \A i \in Len(fromGate) + 1..Len(fromGate) + Len(again) :
           fromGate'[i] = again[i - Len(fromGate)]
  BY <1>3, <1>6
<1>8. ASSUME NEW i \in DOMAIN fromGate', Fresh(fromGate'[i])
      PROVE  i \in 1..Len(fromGate)
  <2> SUFFICES ASSUME i \notin 1..Len(fromGate) PROVE FALSE
    OBVIOUS
  <2>1. i - Len(fromGate) \in 1..Len(again) /\ fromGate'[i] = again[i - Len(fromGate)]
    BY <1>5, <1>6, <1>7
  <2> QED
    BY <1>5, <1>8, <2>1
<1>9. ASSUME ~strayed, NEW i \in DOMAIN fromGate', Fresh(fromGate'[i])
      PROVE  /\ inSeq <= fromGate'[i].seq
             /\ reader.at = "dispatch" => reader.msg.seq < fromGate'[i].seq
             /\ \A j \in 1..i - 1 : fromGate'[j].seq < fromGate'[i].seq
  <2>1. i \in 1..Len(fromGate) /\ fromGate'[i] = fromGate[i]
    BY <1>7, <1>8, <1>9
  <2>2. \A j \in 1..i - 1 : fromGate'[j] = fromGate[j]
    BY <1>6, <1>7, <2>1
  <2> QED
    BY <1>6, <1>9, <2>1, <2>2 DEF AlarmInv, NoneOvertaken, Ahead
<1> QED
  BY <1>1, <1>9 DEF AlarmInv, NoneOvertaken, Ahead

LEMMA GateAlarm ==
  ASSUME GapInv, AlarmInv, GateReads \/ GateSends \/ GateStrays \/ GateForgetsNumber PROVE AlarmInv'
<1>1. CASE \E kind \in Kinds : Live(kind) /\ UNCHANGED <<inSeq, reader, failed, strayed, closing, conn>>
  BY <1>1, AppendedAlarm DEF Live
<1>2. CASE GateSends
  BY <1>1, <1>2 DEF GateSends, closeVars, writeVars, hist
<1>3. CASE GateForgetsNumber
  <2> DEFINE f == [type |-> "app", seq |-> 0, dup |-> FALSE]
  <2>1. /\ UNCHANGED <<inSeq, reader, failed, strayed, closing, conn>>
        /\ fromGate' = Append(fromGate, f) /\ ~Fresh(f)
    BY <1>3 DEF GateForgetsNumber, closeVars, writeVars, hist, Fresh
  <2> HIDE DEF f
  <2> QED
    BY <2>1, AppendedAlarm
<1>4. CASE GateStrays
  BY <1>4 DEF GateStrays, AlarmInv, NoFalseAlarm, NoneOvertaken
<1>5. CASE GateReads
  <2> PICK h : h = Head(toGate)
    OBVIOUS
  <2>1. /\ UNCHANGED <<inSeq, reader, failed, strayed, closing, conn>> /\ toGate # <<>>
        /\ \/ Live("logon") \/ Live("logout")
           \/ h.msg.type = "resend" /\ fromGate' = fromGate \o Again(h.msg.numbers)
           \/ UNCHANGED fromGate
    BY <1>5 DEF GateReads, closeVars, hist
  <2>2. CASE Live("logon") \/ Live("logout")
    BY <1>1, <2>1, <2>2 DEF Kinds
  <2>3. CASE h.msg.type = "resend" /\ fromGate' = fromGate \o Again(h.msg.numbers)
    <3>1. IsQueue(toGate) /\ Requests(toGate) \subseteq DOMAIN log
      BY DEF GapInv, Bounded
    <3>2. h.msg.numbers \subseteq DOMAIN log
      BY <2>1, <2>3, <3>1, RequestsOfQueue
    <3> QED
      BY <2>1, <2>3, <3>2, AgainAlarm
  <2>4. CASE UNCHANGED fromGate
    BY <2>1, <2>4, AsideAlarm DEF Alive
  <2> QED
    BY <2>1, <2>2, <2>3, <2>4
<1> QED
  BY <1>2, <1>3, <1>4, <1>5

\* Steps that write, or fail to.
LEMMA WritingAlarm ==
  ASSUME AlarmInv, NEW m, Send(m), UNCHANGED <<inSeq, strayed, fromGate>>, Alive' = Alive,
         reader' = reader \/ (reader.at # "done" /\ reader'.at # "dispatch")
  PROVE  AlarmInv'
  BY SendFails, AsideAlarm

LEMMA WritingStepsAlarm ==
  ASSUME AlarmInv, SendLogon \/ SendApp \/ Tick \/ CloseSignals \/ Reply
  PROVE  AlarmInv'
<1>1. CASE SendLogon \/ Tick
  <2>1. \E m : Send(m)
    BY <1>1, WriteSends DEF SendLogon, Tick
  <2>2. UNCHANGED <<inSeq, strayed, fromGate, reader, closing, conn>>
    BY <1>1 DEF SendLogon, Tick, closeVars, gateVars, hist
  <2> QED
    BY <2>1, <2>2, WritingAlarm DEF Alive
<1>2. CASE SendApp \/ CloseSignals
  <2>1. \E m : Send(m)
    BY <1>2 DEF SendApp, CloseSignals
  <2>2. /\ UNCHANGED <<inSeq, strayed, fromGate, reader, conn>>
        /\ closing' = closing \/ (closing = "open" /\ closing' = "signalled")
    BY <1>2 DEF SendApp, CloseSignals, closeVars, gateVars, hist
  <2>3. Alive' = Alive
    BY <2>2 DEF Alive
  <2> QED
    BY <2>1, <2>2, <2>3, WritingAlarm
<1>3. CASE Reply
  <2>1. /\ \E m : Send(m)
        /\ UNCHANGED <<inSeq, strayed, fromGate, closing, conn>>
        /\ reader.at = "reply" /\ reader' = [at |-> "top"]
    BY <1>3 DEF Reply, closeVars, gateVars, hist
  <2>2. reader.at # "done" /\ reader'.at # "dispatch" /\ Alive' = Alive
    BY <2>1 DEF Alive
  <2> QED
    BY <2>1, <2>2, WritingAlarm
<1> QED
  BY <1>1, <1>2, <1>3

LEMMA QuietStepsAlarm ==
  ASSUME IInv, AlarmInv,
         \/ StartLogon \/ AwaitLogon \/ StopHeart \/ CancelContext \/ CallClose
         \/ CheckDone \/ ReadFails \/ CloseDisconnects \/ Break \/ Stall
  PROVE  AlarmInv'
<1>1. UNCHANGED <<inSeq, strayed>>
  BY DEF StartLogon, AwaitLogon, StopHeart, CancelContext, CallClose, CheckDone, ReadFails,
         CloseDisconnects, Break, Stall, hist
<1>2. fromGate' = <<>> \/ fromGate' = fromGate
  BY DEF StartLogon, AwaitLogon, StopHeart, CancelContext, CallClose, CheckDone, ReadFails,
         CloseDisconnects, Break, Stall, StillBuffered, gateVars
<1>3. Alive' => Alive
  BY DEF StartLogon, AwaitLogon, StopHeart, CancelContext, CallClose, CheckDone, ReadFails,
         CloseDisconnects, Break, Stall, closeVars, Disconnected, Alive
<1>4. reader' = reader \/ (reader.at # "done" /\ reader'.at # "dispatch")
  <2>1. CASE StartLogon
    BY <2>1 DEF StartLogon, IInv, Shape
  <2>2. CASE CheckDone \/ ReadFails
    BY <2>2 DEF CheckDone, ReadFails, ReaderReturns
  <2>3. CASE AwaitLogon \/ StopHeart \/ CancelContext \/ CallClose \/ CloseDisconnects \/ Break
             \/ Stall
    BY <2>3 DEF AwaitLogon, StopHeart, CancelContext, CallClose, CloseDisconnects, Break, Stall
  <2> QED
    BY <2>1, <2>2, <2>3
<1>5. failed' => failed \/ ~Alive' \/ reader'.at = "done"
  <2>1. CASE ReadFails
    BY <2>1 DEF ReadFails, ReaderReturns
  <2>2. CASE StartLogon \/ AwaitLogon \/ StopHeart \/ CancelContext \/ CallClose \/ CheckDone
             \/ CloseDisconnects \/ Break \/ Stall
    BY <2>2 DEF StartLogon, AwaitLogon, StopHeart, CancelContext, CallClose, CheckDone,
                CloseDisconnects, Break, Stall, writeVars
  <2> QED
    BY <2>1, <2>2
<1> QED
  BY <1>1, <1>2, <1>3, <1>4, <1>5, AsideAlarm

LEMMA InitAlarm == Init => AlarmInv
<1> SUFFICES ASSUME Init PROVE AlarmInv
  OBVIOUS
<1>1. failed = FALSE /\ DOMAIN fromGate = {}
  BY EmptyQueue DEF Init
<1> QED
  BY <1>1 DEF AlarmInv, NoFalseAlarm, NoneOvertaken

LEMMA StepAlarm == IInv /\ GapInv /\ AlarmInv /\ [Next]_vars => AlarmInv'
<1> SUFFICES ASSUME IInv, GapInv, AlarmInv, [Next]_vars PROVE AlarmInv'
  OBVIOUS
<1>1. CASE StartLogon \/ AwaitLogon \/ StopHeart \/ CancelContext \/ CallClose
           \/ CheckDone \/ ReadFails \/ CloseDisconnects \/ Break \/ Stall
  BY <1>1, QuietStepsAlarm
<1>2. CASE SendLogon \/ SendApp \/ Tick \/ CloseSignals \/ Reply
  BY <1>2, WritingStepsAlarm
<1>3. CASE Read \/ SkipFrame \/ Dispatch
  BY <1>3, ReadAlarm, SkipFrameAlarm, DispatchAlarm
<1>4. CASE GateReads \/ GateSends \/ GateStrays \/ GateForgetsNumber
  BY <1>4, GateAlarm
<1>5. CASE UNCHANGED vars
  BY <1>5, AsideAlarm DEF vars, Alive
<1> QED
  BY <1>1, <1>2, <1>3, <1>4, <1>5
  DEF Next, Client, Gate, Caller, Closer, Reader, Heart

\* From a Gate that repeats nothing without PossDupFlag, Err is set only when the
\* connection or the reader is gone: the counter, which gaps move on and gap fills
\* move back, is never above a message that is still to come
\* (internal/fix/session.go:155-159, 221-227, 252-279, 309-315).
THEOREM NoAlarmIsFalse == Spec => []NoFalseAlarm
<1>1. AlarmInv => NoFalseAlarm
  BY DEF AlarmInv
<1> QED
  BY <1>1, SessionAndGap, InitAlarm, StepAlarm, PTL DEF Spec

-----------------------------------------------------------------------------
(* Frames                                                                   *)

\* Every sum of integers is one, in whatever order they are added up.
IsSum(g, s, D) ==
  g = [t \in D |-> IF t = {} THEN 0
                   ELSE LET x == CHOOSE x \in t : TRUE IN g[t \ {x}] + s[x]]

UpTo(S, n) == {t \in SUBSET S : Cardinality(t) <= n}

Bytewise == Seq(Int)

LEMMA SumExists ==
  ASSUME NEW s \in Bytewise
  PROVE  \E g : IsSum(g, s, SUBSET (DOMAIN s))
<1> DEFINE S == DOMAIN s
           T == {n \in Nat : \E g : IsSum(g, s, UpTo(S, n))}
           pick(t) == CHOOSE x \in t : TRUE
<1>a. S = 1..Len(s) /\ Len(s) \in Nat
  BY DEF Bytewise
<1>b. IsFiniteSet(S)
  BY <1>a, FS_Interval
<1> HIDE DEF S
<1>0. \A t \in SUBSET S : IsFiniteSet(t) /\ Cardinality(t) \in Nat
  BY <1>b, FS_Subset, FS_CardinalityType
<1>1. 0 \in T
  <2>1. \A t \in UpTo(S, 0) : t = {}
    BY <1>0, FS_EmptySet DEF UpTo
  <2> DEFINE g == [t \in UpTo(S, 0) |-> 0]
  <2>2. \A t \in UpTo(S, 0) :
          g[t] = IF t = {} THEN 0
                 ELSE LET x == CHOOSE x \in t : TRUE IN g[t \ {x}] + s[x]
    BY <2>1
  <2>3. IsSum(g, s, UpTo(S, 0))
    BY <2>1, <2>2 DEF IsSum
  <2> QED BY <2>3
<1>2. ASSUME NEW n \in Nat, n \in T PROVE n + 1 \in T
  <2>1. PICK g : IsSum(g, s, UpTo(S, n))
    BY <1>2
  <2> DEFINE D == UpTo(S, n)
             E == UpTo(S, n + 1)
             h == [t \in E |-> IF t = {} THEN 0 ELSE g[t \ {pick(t)}] + s[pick(t)]]
  <2>2. \A t \in D : g[t] = IF t = {} THEN 0 ELSE g[t \ {pick(t)}] + s[pick(t)]
    BY <2>1 DEF IsSum
  <2>3. D \subseteq E
    BY <1>0 DEF UpTo
  <2>4. \A t \in D : h[t] = g[t]
    BY <2>2, <2>3
  <2>5. ASSUME NEW t \in E, t # {} PROVE t \ {pick(t)} \in D /\ pick(t) \in S
    <3>1. pick(t) \in t
      BY <2>5
    <3> HIDE DEF pick
    <3>2. t \in SUBSET S /\ Cardinality(t) <= n + 1 /\ Cardinality(t) \in Nat
      BY <1>0 DEF UpTo
    <3>3. Cardinality(t \ {pick(t)}) = Cardinality(t) - 1
      BY <1>0, <3>1, <3>2, FS_RemoveElement
    <3> QED BY <3>1, <3>2, <3>3 DEF UpTo
  <2>6. \A t \in E : h[t] = IF t = {} THEN 0 ELSE h[t \ {pick(t)}] + s[pick(t)]
    <3>1. \A t \in E : h[t] = IF t = {} THEN 0 ELSE g[t \ {pick(t)}] + s[pick(t)]
      OBVIOUS
    <3>2. \A t \in E : t # {} => h[t \ {pick(t)}] = g[t \ {pick(t)}]
      <4> HIDE DEF h, pick, D, E
      <4> QED BY <2>4, <2>5
    <3> HIDE DEF h, pick, D, E
    <3> QED BY <3>1, <3>2, Zenon
  <2> DEFINE h2 == [t \in E |-> IF t = {} THEN 0 ELSE h[t \ {pick(t)}] + s[pick(t)]]
  <2>7. h = h2
    <3>1. DOMAIN h = E /\ DOMAIN h2 = E /\ \A t \in E : h[t] = h2[t]
      BY <2>6
    <3>2. h = [t \in E |-> h[t]] /\ h2 = [t \in E |-> h2[t]]
      OBVIOUS
    <3> QED BY <3>1, <3>2
  <2>8. IsSum(h, s, E)
    BY <2>7, Zenon DEF IsSum
  <2> QED BY <2>8
<1>3. T = Nat
  <2>1. T \subseteq Nat
    OBVIOUS
  <2> HIDE DEF T
  <2> QED BY <1>1, <1>2, <2>1, SetInduction
<1>4. Cardinality(S) \in T
  <2> HIDE DEF T
  <2> QED BY <1>0, <1>3
<1>5. UpTo(S, Cardinality(S)) = SUBSET S
  BY <1>b, <1>0, FS_Subset DEF UpTo
<1> QED BY <1>4, <1>5 DEF S

\* A checksum is a number, whatever the bytes.
LEMMA CheckSumIsNumber ==
  ASSUME NEW s \in Bytewise
  PROVE  CheckSum(s) \in Nat
<1> DEFINE S == DOMAIN s
           f == CHOOSE g : IsSum(g, s, SUBSET S)
           T == {n \in Nat : \A t \in SUBSET S : Cardinality(t) = n => f[t] \in Int}
           pick(t) == CHOOSE x \in t : TRUE
<1>1. CheckSum(s) = f[S] % 256
  BY DEF CheckSum, FoldSeq, FoldFunction, FoldFunctionOnSet, MapThenFoldSet, IsSum
<1>2. IsSum(f, s, SUBSET S)
  BY SumExists
<1>3. \A t \in SUBSET S : f[t] = IF t = {} THEN 0 ELSE f[t \ {pick(t)}] + s[pick(t)]
  BY <1>2 DEF IsSum
<1>4. S = 1..Len(s) /\ Len(s) \in Nat /\ \A x \in S : s[x] \in Int
  BY DEF Bytewise
<1> HIDE DEF S, f
<1>5. IsFiniteSet(S)
  BY <1>4, FS_Interval
<1>6. \A t \in SUBSET S : IsFiniteSet(t) /\ Cardinality(t) \in Nat
  BY <1>5, FS_Subset, FS_CardinalityType
<1>7. 0 \in T
  <2>1. \A t \in SUBSET S : Cardinality(t) = 0 => t = {}
    BY <1>6, FS_EmptySet
  <2>2. f[{}] = 0
    BY <1>3
  <2> QED BY <2>1, <2>2
<1>8. ASSUME NEW n \in Nat, n \in T PROVE n + 1 \in T
  <2> SUFFICES ASSUME NEW t \in SUBSET S, Cardinality(t) = n + 1 PROVE f[t] \in Int
    OBVIOUS
  <2>1. t # {}
    <3>1. Cardinality({}) = 0 /\ n + 1 # 0
      BY FS_EmptySet
    <3> QED BY <3>1
  <2> DEFINE x == pick(t)
             u == t \ {x}
  <2>2. x \in t /\ u \in SUBSET S /\ x \in S
    BY <2>1
  <2>3. f[t] = f[u] + s[x]
    BY <1>3, <2>1
  <2> HIDE DEF x
  <2>4. Cardinality(u) = n
    BY <1>6, <2>2, FS_RemoveElement
  <2>5. f[u] \in Int
    BY <1>8, <2>2, <2>4
  <2> QED BY <1>4, <2>2, <2>3, <2>5
<1>9. Cardinality(S) \in T
  <2>1. T \subseteq Nat
    OBVIOUS
  <2> HIDE DEF T
  <2> QED BY <1>5, <1>6, <1>7, <1>8, <2>1, SetInduction
<1>10. f[S] \in Int
  BY <1>9
<1>11. \A n \in Int : n % 256 \in Nat
  OBVIOUS
<1> QED BY <1>1, <1>10, <1>11

IsFlat(f, parts, n) == f = [i \in 1..n |-> IF i = 1 THEN parts[i] ELSE f[i - 1] \o parts[i]]

\* Sequences of bytes put together are a sequence of bytes.
LEMMA FlattenIsBytewise ==
  ASSUME NEW parts \in Seq(Bytewise)
  PROVE  FlattenSeq(parts) \in Bytewise
<1> DEFINE T == {n \in Nat : n <= Len(parts) => \E f : IsFlat(f, parts, n)}
<1>0. Len(parts) \in Nat /\ \A i \in 1..Len(parts) : parts[i] \in Bytewise
  OBVIOUS
<1>1. 0 \in T
  <2>1. IsFlat([i \in 1..0 |-> IF i = 1 THEN parts[i] ELSE <<>> \o parts[i]], parts, 0)
    BY DEF IsFlat
  <2> QED BY <2>1
<1>2. ASSUME NEW n \in Nat, n \in T PROVE n + 1 \in T
  <2> SUFFICES ASSUME n + 1 <= Len(parts) PROVE \E f : IsFlat(f, parts, n + 1)
    OBVIOUS
  <2>1. PICK f : IsFlat(f, parts, n)
    BY <1>0, <1>2
  <2> DEFINE g == [i \in 1..(n + 1) |->
                     IF i = 1 THEN parts[i] ELSE IF i <= n THEN f[i] ELSE f[n] \o parts[i]]
  <2>2. \A i \in 1..n : f[i] = IF i = 1 THEN parts[i] ELSE f[i - 1] \o parts[i]
    BY <2>1 DEF IsFlat
  <2>3. \A i \in 1..n : g[i] = f[i]
    BY <2>2
  <2>4. ASSUME NEW i \in 1..(n + 1)
        PROVE  g[i] = IF i = 1 THEN parts[i] ELSE g[i - 1] \o parts[i]
    <3>1. CASE i <= n
      <4>1. i \in 1..n /\ (i # 1 => i - 1 \in 1..n)
        BY <3>1
      <4> HIDE DEF g
      <4> QED BY <2>2, <2>3, <4>1
    <3>2. CASE i = n + 1
      <4>1. i = 1 \/ (n \in 1..n /\ i - 1 = n /\ i # 1 /\ ~(i <= n))
        BY <3>2
      <4>2. CASE i = 1
        BY <4>2
      <4>3. CASE n \in 1..n /\ i - 1 = n /\ i # 1 /\ ~(i <= n)
        <5>1. g[i] = f[n] \o parts[i]
          BY <4>3
        <5>2. g[n] = f[n]
          BY <2>3, <4>3
        <5> HIDE DEF g
        <5> QED BY <4>3, <5>1, <5>2
      <4> QED BY <4>1, <4>2, <4>3
    <3> QED BY <3>1, <3>2
  <2>5. IsFlat(g, parts, n + 1)
    <3> DEFINE h == [i \in 1..(n + 1) |-> IF i = 1 THEN parts[i] ELSE g[i - 1] \o parts[i]]
    <3>1. g = [i \in 1..(n + 1) |-> g[i]]
      OBVIOUS
    <3> HIDE DEF g
    <3>2. [i \in 1..(n + 1) |-> g[i]] = h
      BY <2>4
    <3> QED BY <3>1, <3>2, Zenon DEF IsFlat
  <2> QED BY <2>5
<1>3. T = Nat
  <2>1. T \subseteq Nat
    OBVIOUS
  <2> HIDE DEF T
  <2> QED BY <1>1, <1>2, <2>1, SetInduction
<1>4. CASE Len(parts) = 0
  BY <1>4 DEF FlattenSeq, Bytewise
<1>5. CASE Len(parts) # 0
  <2> DEFINE N == Len(parts)
             f == CHOOSE f : IsFlat(f, parts, N)
             R == {n \in Nat : n + 1 <= N => f[n + 1] \in Bytewise}
  <2>1. \E g : IsFlat(g, parts, N)
    BY <1>0, <1>3
  <2>2. IsFlat(f, parts, N)
    BY <2>1
  <2>3. \A i \in 1..N : f[i] = IF i = 1 THEN parts[i] ELSE f[i - 1] \o parts[i]
    BY <2>2 DEF IsFlat
  <2>4. FlattenSeq(parts) = f[N]
    BY <1>5 DEF FlattenSeq, IsFlat
  <2> HIDE DEF f
  <2>5. 0 \in R
    BY <1>0, <2>3
  <2>6. ASSUME NEW n \in Nat, n \in R PROVE n + 1 \in R
    <3> SUFFICES ASSUME n + 2 <= N PROVE f[n + 2] \in Bytewise
      OBVIOUS
    <3>1. n + 2 \in 1..N /\ n + 2 # 1 /\ (n + 2) - 1 = n + 1 /\ n + 1 <= N
      BY <1>0
    <3>2. f[n + 2] = f[n + 1] \o parts[n + 2]
      BY <2>3, <3>1
    <3>3. f[n + 1] \in Bytewise /\ parts[n + 2] \in Bytewise
      BY <1>0, <2>6, <3>1
    <3> QED BY <3>2, <3>3 DEF Bytewise
  <2>7. N - 1 \in R /\ (N - 1) + 1 = N
    <3>1. R \subseteq Nat
      OBVIOUS
    <3> HIDE DEF R
    <3>2. R = Nat
      BY <2>5, <2>6, <3>1, SetInduction
    <3> QED BY <1>0, <1>5, <3>2
  <2> QED BY <2>4, <2>7
<1> QED BY <1>4, <1>5

\* What the library says of sequences of any kind of elements.
LEMMA Concatenation ==
  ASSUME NEW T, NEW s \in Seq(T), NEW t \in Seq(T)
  PROVE  /\ Len(s) \in Nat /\ DOMAIN s = 1..Len(s) /\ \A i \in 1..Len(s) : s[i] \in T
         /\ s \o t \in Seq(T) /\ Len(s \o t) = Len(s) + Len(t)
OBVIOUS

\* A message of any number of fields.
Tags == Nat
AnyMessage == [msgType : Values, fields : Seq([tag : Tags, value : Values])]

LEMMA BodyIsBytewise ==
  ASSUME NEW m \in AnyMessage, NEW seq \in Nat
  PROVE  Body(m, seq) \in Bytewise
<1> DEFINE header == <<Field(TagMsgType, m.msgType), Field(TagMsgSeqNum, <<seq>>)>>
           all == header \o m.fields
           F == [tag : Nat, value : Bytewise]
           parts == [i \in 1..2 + Len(m.fields) |-> Bytes(all[i])]
<1>1. m.msgType \in Values /\ m.fields \in Seq([tag : Nat, value : Values])
  BY DEF AnyMessage, Tags
<1>2. m.msgType \in Bytewise /\ <<seq>> \in Bytewise /\ Values \subseteq Bytewise
  BY <1>1, ValuesAreBytes DEF Bytewise
<1>3. header \in Seq(F) /\ Len(header) = 2
  <2>1. Field(TagMsgType, m.msgType) \in F /\ Field(TagMsgSeqNum, <<seq>>) \in F
    BY <1>2 DEF Field, TagMsgType, TagMsgSeqNum
  <2> HIDE DEF F
  <2> QED BY <2>1
<1>4. m.fields \in Seq(F)
  <2>1. Len(m.fields) \in Nat /\ DOMAIN m.fields = 1..Len(m.fields)
    BY <1>1
  <2>2. ASSUME NEW i \in 1..Len(m.fields) PROVE m.fields[i] \in F
    <3>1. m.fields[i] \in [tag : Nat, value : Values]
      BY <1>1, Concatenation
    <3> QED BY <3>1, <1>2
  <2>3. m.fields = [i \in 1..Len(m.fields) |-> m.fields[i]]
    BY <1>1
  <2> HIDE DEF F
  <2> QED BY <2>1, <2>2, <2>3
<1>5. all \in Seq(F) /\ Len(all) = 2 + Len(m.fields) /\ Len(m.fields) \in Nat
  <2> HIDE DEF F, header
  <2> QED BY <1>3, <1>4, Concatenation
<1> HIDE DEF all
<1>6. ASSUME NEW i \in 1..2 + Len(m.fields) PROVE Bytes(all[i]) \in Bytewise
  <2>1. all[i] \in F
    <3> HIDE DEF F
    <3> QED BY <1>5
  <2>2. all[i].tag \in Int /\ all[i].value \in Seq(Int)
    BY <2>1 DEF Bytewise
  <2>3. <<all[i].tag, eq>> \in Seq(Int) /\ <<soh>> \in Seq(Int)
    BY <2>2 DEF eq, soh
  <2> QED BY <2>2, <2>3 DEF Bytes, Bytewise
<1>7. parts \in Seq(Bytewise)
  BY <1>5, <1>6
<1>8. Body(m, seq) = FlattenSeq(parts)
  BY DEF Body, all
<1> QED BY <1>7, <1>8, FlattenIsBytewise

\* A frame of L bytes between the length and the checksum, which is c.
FrameOf(f, L, c) ==
  /\ f \in Bytewise /\ Len(f) = L + 12
  /\ f[1] = TagBeginString /\ f[2] = eq /\ f[3] = text /\ f[4] = soh
  /\ f[5] = TagBodyLength /\ f[6] = eq /\ f[7] = L /\ f[8] = soh
  /\ f[L + 9] = TagCheckSum /\ f[L + 10] = eq /\ f[L + 11] = c /\ f[L + 12] = soh

\* Where the bytes of two sequences end up when they are put together.
Join(s, t) == s \o t

Joined(j, s, t) ==
  /\ j \in Bytewise /\ Len(j) = Len(s) + Len(t)
  /\ Len(s) \in Nat /\ Len(t) \in Nat
  /\ \A i \in 1..Len(s) : j[i] = s[i]
  /\ \A i \in Len(s) + 1..Len(s) + Len(t) : j[i] = t[i - Len(s)]

LEMMA JoinedBytes ==
  ASSUME NEW s \in Bytewise, NEW t \in Bytewise
  PROVE  Joined(Join(s, t), s, t)
BY DEF Bytewise, Join, Joined

\* A field with a value of one byte.
IsField4(s, tag, v) ==
  s \in Bytewise /\ Len(s) = 4 /\ s[1] = tag /\ s[2] = eq /\ s[3] = v /\ s[4] = soh

LEMMA FieldBytes ==
  ASSUME NEW tag \in Int, NEW v \in Int
  PROVE  IsField4(Bytes(Field(tag, <<v>>)), tag, v)
<1> DEFINE a == <<tag, eq>>
           b == <<v>>
           c == <<soh>>
           d == Join(a, b)
           e == Join(d, c)
<1>1. Bytes(Field(tag, <<v>>)) = e
  BY DEF Bytes, Field, Join
<1>2. a \in Bytewise /\ b \in Bytewise /\ c \in Bytewise /\ Len(a) = 2 /\ Len(b) = 1 /\ Len(c) = 1
  BY DEF Bytewise, eq, soh
<1>3. a[1] = tag /\ a[2] = eq /\ b[1] = v /\ c[1] = soh
  OBVIOUS
<1> HIDE DEF a, b, c
<1>4. /\ d \in Bytewise /\ Len(d) = 2 + 1
      /\ \A i \in 1..2 : d[i] = a[i]
      /\ \A i \in 2 + 1..2 + 1 : d[i] = b[i - 2]
  <2>1. Joined(d, a, b)
    BY <1>2, JoinedBytes
  <2> HIDE DEF d
  <2> QED BY <1>2, <2>1 DEF Joined
<1>5. d[1] = tag /\ d[2] = eq /\ d[3] = v
  <2> HIDE DEF d
  <2> QED BY <1>3, <1>4
<1> HIDE DEF d
<1>6. /\ e \in Bytewise /\ Len(e) = 3 + 1
      /\ \A i \in 1..3 : e[i] = d[i]
      /\ \A i \in 3 + 1..3 + 1 : e[i] = c[i - 3]
  <2>1. Len(d) = 3
    BY <1>4
  <2>2. Joined(e, d, c)
    BY <1>2, <1>4, JoinedBytes
  <2> HIDE DEF e
  <2> QED BY <1>2, <1>4, <2>1, <2>2 DEF Joined
<1> HIDE DEF e
<1>7. IsField4(e, tag, v)
  BY <1>3, <1>5, <1>6 DEF IsField4
<1> QED BY <1>1, <1>7

LEMMA FramedIsFrame ==
  ASSUME NEW body \in Bytewise
  PROVE  \E c \in Nat : FrameOf(Framed(body), Len(body), c)
<1> DEFINE L == Len(body)
           p == Bytes(Field(TagBeginString, <<text>>))
           q == Bytes(Field(TagBodyLength, <<BodyLength(body)>>))
           h == Join(p, q)
           u == Join(h, body)
           c == CheckSum(u)
           z == Bytes(Field(TagCheckSum, <<c>>))
           f == Join(u, z)
<1>1. L \in Nat /\ BodyLength(body) = L
  BY DEF Bytewise, BodyLength
<1>2. IsField4(p, TagBeginString, text) /\ IsField4(q, TagBodyLength, L)
  BY <1>1, FieldBytes DEF text, TagBeginString, TagBodyLength
<1>3. /\ h \in Bytewise /\ Len(h) = 4 + 4
      /\ \A i \in 1..4 : h[i] = p[i]
      /\ \A i \in 4 + 1..4 + 4 : h[i] = q[i - 4]
  <2> HIDE DEF p, q, L
  <2>1. p \in Bytewise /\ q \in Bytewise /\ Len(p) = 4 /\ Len(q) = 4
    BY <1>2 DEF IsField4
  <2>2. Joined(h, p, q)
    BY <2>1, JoinedBytes
  <2> HIDE DEF h
  <2> QED BY <2>1, <2>2 DEF Joined
<1>5. /\ h[1] = TagBeginString /\ h[2] = eq /\ h[3] = text /\ h[4] = soh
      /\ h[5] = TagBodyLength /\ h[6] = eq /\ h[7] = L /\ h[8] = soh
  <2> HIDE DEF h, p, q, L
  <2> QED BY <1>2, <1>3 DEF IsField4
<1> HIDE DEF h
<1>7. u \in Bytewise /\ Len(u) = 8 + L /\ \A i \in 1..8 : u[i] = h[i]
  <2>1. Joined(u, h, body)
    BY <1>3, JoinedBytes
  <2> HIDE DEF u
  <2> QED BY <1>3, <2>1 DEF Joined
<1> HIDE DEF u, L, p, q
<1>8. c \in Nat
  BY <1>7, CheckSumIsNumber
<1> HIDE DEF c
<1>9. IsField4(z, TagCheckSum, c)
  BY <1>8, FieldBytes DEF TagCheckSum
<1> HIDE DEF z
<1>10. /\ f \in Bytewise /\ Len(f) = (8 + L) + 4
       /\ \A i \in 1..8 + L : f[i] = u[i]
       /\ \A i \in (8 + L) + 1..(8 + L) + 4 : f[i] = z[i - (8 + L)]
  <2>1. z \in Bytewise /\ Len(z) = 4
    BY <1>9 DEF IsField4
  <2>2. Joined(f, u, z)
    BY <1>7, <2>1, JoinedBytes
  <2> HIDE DEF f
  <2> QED BY <1>7, <2>1, <2>2 DEF Joined
<1> HIDE DEF f
<1>11. \A i \in 1..8 : f[i] = h[i]
  <2>1. \A i \in 1..8 : i \in 1..8 + L
    BY <1>1
  <2> QED BY <1>7, <1>10, <2>1
<1>12. /\ f[1] = TagBeginString /\ f[2] = eq /\ f[3] = text /\ f[4] = soh
       /\ f[5] = TagBodyLength /\ f[6] = eq /\ f[7] = L /\ f[8] = soh
  BY <1>5, <1>11
<1>13. /\ f[L + 9] = TagCheckSum /\ f[L + 10] = eq /\ f[L + 11] = c /\ f[L + 12] = soh
  <2>1. /\ f[L + 9] = z[(L + 9) - (8 + L)] /\ f[L + 10] = z[(L + 10) - (8 + L)]
        /\ f[L + 11] = z[(L + 11) - (8 + L)] /\ f[L + 12] = z[(L + 12) - (8 + L)]
    <3>1. /\ L + 9 \in (8 + L) + 1..(8 + L) + 4 /\ L + 10 \in (8 + L) + 1..(8 + L) + 4
          /\ L + 11 \in (8 + L) + 1..(8 + L) + 4 /\ L + 12 \in (8 + L) + 1..(8 + L) + 4
      BY <1>1
    <3> QED BY <1>10, <3>1
  <2>2. /\ (L + 9) - (8 + L) = 1 /\ (L + 10) - (8 + L) = 2
        /\ (L + 11) - (8 + L) = 3 /\ (L + 12) - (8 + L) = 4
    BY <1>1
  <2> QED BY <1>9, <2>1, <2>2 DEF IsField4
<1>14. (8 + L) + 4 = L + 12
  BY <1>1
<1>15. FrameOf(f, L, c)
  BY <1>10, <1>12, <1>13, <1>14 DEF FrameOf
<1>16. Framed(body) = f
  BY DEF Framed, f, u, z, c, p, q, h, Join
<1> QED BY <1>8, <1>15, <1>16 DEF L

-----------------------------------------------------------------------------
(* Finding the frame                                                        *)

LEMMA FieldEndIs ==
  ASSUME NEW s \in Bytewise, NEW i \in Nat, NEW e \in i + 1..Len(s), s[e] = soh,
         \A j \in i + 1..e - 1 : s[j] # soh
  PROVE  FieldEnd(s, i) = e
<1> DEFINE ends == {j \in i + 1..Len(s) : s[j] = soh}
<1>1. e \in ends /\ \A j \in ends : e <= j
  BY DEF Bytewise
<1>2. ends \subseteq Int
  BY DEF Bytewise
<1>3. Min(ends) = e
  <2> HIDE DEF ends
  <2>1. \A x \in ends : (\A y \in ends : x <= y) => x = e
    BY <1>1, <1>2
  <2>2. Min(ends) = CHOOSE x \in ends : \A y \in ends : x <= y
    BY DEF Min
  <2> QED BY <1>1, <2>1, <2>2
<1>4. ends # {} /\ FieldEnd(s, i) = IF ends = {} THEN 0 ELSE Min(ends)
  BY <1>1 DEF FieldEnd
<1> QED BY <1>3, <1>4

LEMMA FieldEndNone ==
  ASSUME NEW s \in Bytewise, NEW i, \A j \in i + 1..Len(s) : s[j] # soh
  PROVE  FieldEnd(s, i) = 0
BY DEF FieldEnd

LEMMA FieldEndAny ==
  ASSUME NEW s \in Bytewise, NEW i \in Nat
  PROVE  FieldEnd(s, i) = 0 \/ FieldEnd(s, i) \in i + 1..Len(s)
<1> DEFINE ends == {j \in i + 1..Len(s) : s[j] = soh}
<1>1. CASE ends # {}
  <2>1. ends \subseteq Nat /\ Len(s) \in Nat
    BY DEF Bytewise
  <2>2. PICK e \in ends : \A j \in ends : e <= j
    BY <1>1, <2>1, LeastNumber
  <2>3. Min(ends) \in ends
    <3> HIDE DEF ends
    <3> QED BY <2>2 DEF Min
  <2> QED BY <1>1, <2>3 DEF FieldEnd
<1>2. CASE ends = {}
  BY <1>2 DEF FieldEnd
<1> QED BY <1>1, <1>2

\* As far as both go, t is f.
Begins(t, f) == \A i \in 1..Len(f) : i <= Len(t) => t[i] = f[i]

\* A frame is found at the start of whatever stream it begins ...
LEMMA FrameIsFound ==
  ASSUME NEW f, NEW L \in Nat, NEW c \in Nat, FrameOf(f, L, c),
         NEW t \in Bytewise, Begins(t, f), Len(f) <= Len(t)
  PROVE  FrameEnd(t) = Len(f)
<1>0. Len(t) \in Nat /\ Len(f) = L + 12
  BY DEF Bytewise, FrameOf
<1>1. \A i \in 1..L + 12 : t[i] = f[i]
  BY <1>0 DEF Begins
<1>2. /\ t[1] = TagBeginString /\ t[2] = eq /\ t[3] = text /\ t[4] = soh
      /\ t[5] = TagBodyLength /\ t[6] = eq /\ t[7] = L /\ t[8] = soh
  BY <1>1 DEF FrameOf
<1>3. /\ t[L + 9] = TagCheckSum /\ t[L + 10] = eq /\ t[L + 11] = c /\ t[L + 12] = soh
  BY <1>1 DEF FrameOf
<1>4. FieldEnd(t, 0) = 4
  <2>1. 4 \in 0 + 1..Len(t) /\ \A j \in 0 + 1..4 - 1 : t[j] # soh
    BY <1>0, <1>2 DEF soh, eq, text, TagBeginString
  <2> QED BY <1>2, <2>1, FieldEndIs
<1>5. FieldEnd(t, 4) = 8
  <2>1. 8 \in 4 + 1..Len(t) /\ \A j \in 4 + 1..8 - 1 : t[j] # soh
    <3>1. \A j \in 4 + 1..8 - 1 : j = 5 \/ j = 6 \/ j = 7
      OBVIOUS
    <3>2. t[5] # soh /\ t[6] # soh /\ t[7] # soh
      BY <1>2 DEF soh, eq, TagBodyLength
    <3>3. 8 \in 4 + 1..Len(t)
      BY <1>0
    <3> QED BY <3>1, <3>2, <3>3
  <2> QED BY <1>2, <2>1, FieldEndIs
<1>6. BodyEnd(t, 8) = L + 8
  BY <1>2 DEF BodyEnd
<1>7. FieldEnd(t, L + 8) = L + 12
  <2>1. L + 12 \in (L + 8) + 1..Len(t) /\ \A j \in (L + 8) + 1..(L + 12) - 1 : t[j] # soh
    BY <1>0, <1>3 DEF soh, eq, TagCheckSum
  <2>2. L + 8 \in Nat
    OBVIOUS
  <2> QED BY <1>3, <2>1, <2>2, FieldEndIs
<1>8. HasTag(t, 0, 4, TagBeginString) /\ HasTag(t, 4, 8, TagBodyLength)
  BY <1>2 DEF HasTag
<1>9. HasTag(t, L + 8, L + 12, TagCheckSum)
  BY <1>3 DEF HasTag
<1>10. L + 8 <= Len(t) /\ L + 12 # 0 /\ IsNumber(t[8 - 1]) /\ t[8 - 1] # negative
  BY <1>0, <1>2 DEF IsNumber, negative
<1> QED BY <1>0, <1>4, <1>5, <1>6, <1>7, <1>8, <1>9, <1>10 DEF FrameEnd

\* ... and none is found where the stream ends before it does.
LEMMA CutFrameIsNoFrame ==
  ASSUME NEW f, NEW L \in Nat, NEW c \in Nat, FrameOf(f, L, c),
         NEW t \in Bytewise, Begins(t, f), Len(t) < Len(f)
  PROVE  FrameEnd(t) = error
<1>0. Len(t) \in Nat /\ Len(f) = L + 12
  BY DEF Bytewise, FrameOf
<1>1. \A i \in 1..Len(t) : t[i] = f[i]
  BY <1>0 DEF Begins
<1>2. CASE Len(t) < 4
  <2>1. \A j \in 0 + 1..Len(t) : t[j] # soh
    BY <1>0, <1>1, <1>2 DEF FrameOf, soh, eq, text, TagBeginString
  <2>2. FieldEnd(t, 0) = 0
    BY <2>1, FieldEndNone
  <2> QED BY <2>2 DEF FrameEnd
<1>3. CASE 4 <= Len(t)
  <2>1. t[1] = TagBeginString /\ t[2] = eq /\ t[3] = text /\ t[4] = soh
    BY <1>0, <1>1, <1>3 DEF FrameOf
  <2>2. FieldEnd(t, 0) = 4
    <3>1. 4 \in 0 + 1..Len(t) /\ \A j \in 0 + 1..4 - 1 : t[j] # soh
      BY <1>0, <1>3, <2>1 DEF soh, eq, text, TagBeginString
    <3> QED BY <2>1, <3>1, FieldEndIs
  <2>3. CASE Len(t) < 8
    <3>1. \A j \in 4 + 1..Len(t) : t[j] # soh
      <4>1. f[5] # soh /\ f[6] # soh /\ f[7] # soh
        BY <1>0 DEF FrameOf, soh, eq, TagBodyLength
      <4>2. ASSUME NEW j \in 4 + 1..Len(t) PROVE (j = 5 \/ j = 6 \/ j = 7) /\ t[j] = f[j]
        BY <1>0, <1>1, <2>3 DEF FrameOf
      <4> QED BY <4>1, <4>2
    <3>2. FieldEnd(t, 4) = 0
      BY <3>1, FieldEndNone
    <3> QED BY <2>2, <3>2 DEF FrameEnd
  <2>4. CASE 8 <= Len(t)
    <3>1. t[5] = TagBodyLength /\ t[6] = eq /\ t[7] = L /\ t[8] = soh
      BY <1>0, <1>1, <2>4 DEF FrameOf
    <3>2. FieldEnd(t, 4) = 8
      <4>1. 8 \in 4 + 1..Len(t) /\ \A j \in 4 + 1..8 - 1 : t[j] # soh
        BY <1>0, <2>4, <3>1 DEF soh, eq, text, TagBodyLength
      <4> QED BY <3>1, <4>1, FieldEndIs
    <3>3. BodyEnd(t, 8) = L + 8 /\ t[8 - 1] # negative
      BY <3>1 DEF BodyEnd, negative
    <3>4. CASE ~(L + 8 <= Len(t))
      BY <2>2, <3>2, <3>3, <3>4 DEF FrameEnd
    <3>5. CASE L + 8 <= Len(t)
      <4>1. \A j \in (L + 8) + 1..Len(t) : t[j] # soh
        <5>1. ASSUME NEW j \in (L + 8) + 1..Len(t) PROVE t[j] # soh
          <6>1. j = L + 9 \/ j = L + 10 \/ j = L + 11
            BY <1>0
          <6>2. t[j] = f[j]
            BY <1>0, <1>1
          <6> QED BY <6>1, <6>2 DEF FrameOf, soh, eq, TagCheckSum
        <5> QED BY <5>1
      <4>2. FieldEnd(t, L + 8) = 0
        BY <4>1, FieldEndNone
      <4> QED BY <2>2, <3>2, <3>3, <4>2 DEF FrameEnd
    <3> QED BY <3>4, <3>5
  <2> QED BY <1>0, <2>3, <2>4
<1> QED BY <1>0, <1>2, <1>3

LEMMA FrameEndAny ==
  ASSUME NEW t \in Bytewise
  PROVE  NoFrame(FrameEnd(t)) \/ FrameEnd(t) \in 1..Len(t)
<1> DEFINE begin  == FieldEnd(t, 0)
           length == FieldEnd(t, begin)
           body   == BodyEnd(t, length)
           end    == FieldEnd(t, body)
<1>0. Len(t) \in Nat
  BY DEF Bytewise
<1>1. SUFFICES ASSUME ~NoFrame(FrameEnd(t)) PROVE FrameEnd(t) \in 1..Len(t)
  OBVIOUS
<1>2. /\ FrameEnd(t) = end /\ begin # 0 /\ length # 0 /\ end # 0
      /\ IsNumber(t[length - 1]) /\ t[length - 1] # negative /\ length = begin + 4
  BY <1>1 DEF FrameEnd, NoFrame
<1>3. begin \in 1..Len(t)
  BY <1>0, <1>2, FieldEndAny
<1>4. length \in begin + 1..Len(t)
  <2> HIDE DEF begin
  <2>1. begin \in Nat
    BY <1>3
  <2> QED BY <1>2, <2>1, FieldEndAny
<1> HIDE DEF begin, length
<1>5. length - 1 \in 1..Len(t)
  BY <1>0, <1>2, <1>3, <1>4
<1>6. body \in Nat
  <2>1. t[length - 1] \in Int
    BY <1>5 DEF Bytewise
  <2> QED BY <1>0, <1>2, <1>4, <1>5, <2>1 DEF BodyEnd, IsNumber
<1> HIDE DEF body
<1>7. end \in body + 1..Len(t)
  BY <1>2, <1>6, FieldEndAny
<1> HIDE DEF end
<1> QED BY <1>0, <1>2, <1>6, <1>7

\* What is left of a stream, from its i-th byte on.
From(s, i) == SubSeq(s, i, Len(s))

LEMMA FromBytes ==
  ASSUME NEW s \in Bytewise, NEW i \in 1..Len(s) + 1
  PROVE  /\ From(s, i) \in Bytewise /\ Len(From(s, i)) = Len(s) + 1 - i
         /\ \A k \in 1..Len(s) + 1 - i : From(s, i)[k] = s[i + k - 1]
BY DEF Bytewise, From

\* One turn of the read loop at the i-th byte, with g what the rest of it gets.
Turn(g, s, i) ==
  LET end == FrameEnd(SubSeq(s, i, Len(s)))
  IN  IF NoFrame(end) THEN <<>> ELSE <<SubSeq(s, i, i + end - 1)>> \o g[i + end]

IsRead(g, s, D) == g = [i \in D |-> Turn(g, s, i)]

\* The recursive definition of ReadAll means what it says.
LEMMA ReadAllIsLoop ==
  ASSUME NEW s \in Bytewise
  PROVE  \E g : ReadAll(s) = g[1] /\ \A i \in 1..Len(s) + 1 : g[i] = Turn(g, s, i)
<1> DEFINE N == Len(s) + 1
           End(i) == FrameEnd(From(s, i))
           S == {k \in Nat : k < N => \E g : IsRead(g, s, N - k..N)}
<1>0. N \in Nat /\ N >= 1
  BY DEF Bytewise
<1>1. \A i \in 1..N : NoFrame(End(i)) \/ i + End(i) \in i + 1..N
  <2> SUFFICES ASSUME NEW i \in 1..N PROVE NoFrame(End(i)) \/ i + End(i) \in i + 1..N
    OBVIOUS
  <2>1. From(s, i) \in Bytewise /\ Len(From(s, i)) = Len(s) + 1 - i
    BY FromBytes
  <2>2. NoFrame(End(i)) \/ End(i) \in 1..N - i
    BY <2>1, FrameEndAny
  <2> HIDE DEF End, N
  <2> QED BY <1>0, <2>2
<1>2. ASSUME NEW g, NEW i
      PROVE  Turn(g, s, i) = IF NoFrame(End(i)) THEN <<>>
                             ELSE <<SubSeq(s, i, i + End(i) - 1)>> \o g[i + End(i)]
  BY DEF Turn, From
<1> HIDE DEF N, End
<1>3. ASSUME NEW g, NEW h, NEW i \in 1..N, \A j \in i + 1..N : g[j] = h[j]
      PROVE  Turn(g, s, i) = Turn(h, s, i)
  <2>1. CASE NoFrame(End(i))
    BY <1>2, <2>1, Zenon
  <2>2. CASE ~NoFrame(End(i))
    <3>1. g[i + End(i)] = h[i + End(i)]
      BY <1>1, <1>3, <2>2
    <3> QED BY <1>2, <3>1, Zenon
  <2> QED BY <2>1, <2>2
<1>4. 0 \in S
  <2> DEFINE h == [i \in N - 0..N |-> <<>>]
             g == [i \in N - 0..N |-> Turn(h, s, i)]
  <2>1. ASSUME NEW i \in N - 0..N PROVE Turn(h, s, i) = Turn(g, s, i)
    <3>1. i \in 1..N /\ \A j \in i + 1..N : FALSE
      BY <1>0
    <3> HIDE DEF g, h
    <3> QED BY <1>3, <3>1
  <2>2. g = [i \in N - 0..N |-> Turn(g, s, i)]
    <3> HIDE DEF h
    <3> DEFINE g2 == [i \in N - 0..N |-> Turn(g, s, i)]
    <3>1. \A i \in N - 0..N : g[i] = g2[i]
      <4> SUFFICES ASSUME NEW i \in N - 0..N PROVE g[i] = g2[i]
        OBVIOUS
      <4>1. g[i] = Turn(h, s, i)
        OBVIOUS
      <4>2. g2[i] = Turn(g, s, i)
        <5> HIDE DEF g
        <5> QED OBVIOUS
      <4> HIDE DEF g, g2
      <4> QED BY <2>1, <4>1, <4>2
    <3>2. g = [i \in N - 0..N |-> g[i]]
      OBVIOUS
    <3>3. g2 = [i \in N - 0..N |-> g2[i]]
      <4> HIDE DEF g
      <4> QED OBVIOUS
    <3>4. g = g2
      <4> HIDE DEF g, g2
      <4> QED BY <3>1, <3>2, <3>3
    <3> QED BY <3>4
  <2>3. IsRead(g, s, N - 0..N)
    <3> HIDE DEF g, h
    <3> QED BY <2>2 DEF IsRead
  <2> HIDE DEF g, h
  <2> QED BY <2>3
<1>5. ASSUME NEW k \in Nat, k \in S PROVE k + 1 \in S
  <2> SUFFICES ASSUME k + 1 < N PROVE \E g : IsRead(g, s, N - (k + 1)..N)
    OBVIOUS
  <2> DEFINE D == N - k..N
             E == N - (k + 1)..N
  <2>1. PICK g : IsRead(g, s, D)
    BY <1>0, <1>5
  <2> DEFINE h == [i \in E |-> Turn(g, s, i)]
  <2>2. \A i \in D : g[i] = Turn(g, s, i)
    BY <2>1 DEF IsRead
  <2>3. \A i \in D : h[i] = g[i]
    <3>1. D \subseteq E
      BY <1>0
    <3>2. \A i \in E : h[i] = Turn(g, s, i)
      OBVIOUS
    <3> HIDE DEF h, D, E
    <3> QED BY <2>2, <3>1, <3>2
  <2> DEFINE h2 == [i \in E |-> Turn(h, s, i)]
  <2>4. \A i \in E : h[i] = h2[i]
    <3> SUFFICES ASSUME NEW i \in E PROVE h[i] = h2[i]
      OBVIOUS
    <3>1. h[i] = Turn(g, s, i)
      OBVIOUS
    <3>2. h2[i] = Turn(h, s, i)
      <4> HIDE DEF h
      <4> QED OBVIOUS
    <3> HIDE DEF h, h2
    <3>3. i \in 1..N /\ i + 1..N \subseteq D
      BY <1>0
    <3>4. Turn(g, s, i) = Turn(h, s, i)
      <4> HIDE DEF D, E
      <4>1. \A j \in i + 1..N : g[j] = h[j]
        BY <2>3, <3>3
      <4> QED BY <1>3, <3>3, <4>1
    <3> QED BY <3>1, <3>2, <3>4
  <2>5. h = [i \in E |-> h[i]]
    OBVIOUS
  <2>6. h2 = [i \in E |-> h2[i]]
    <3> HIDE DEF h
    <3> QED OBVIOUS
  <2>7. h = h2
    <3> HIDE DEF h, h2
    <3> QED BY <2>4, <2>5, <2>6
  <2>8. IsRead(h, s, E)
    <3> HIDE DEF h, E
    <3> QED BY <2>7 DEF IsRead
  <2> HIDE DEF h
  <2> QED BY <2>8
<1>6. S = Nat
  <2>1. S \subseteq Nat
    OBVIOUS
  <2> HIDE DEF S
  <2> QED BY <1>4, <1>5, <2>1, SetInduction
<1>7. \E g : IsRead(g, s, 1..N)
  <2>1. N - 1 \in S /\ N - 1 < N /\ N - (N - 1) = 1
    <3> HIDE DEF S
    <3> QED BY <1>0, <1>6
  <2> QED BY <2>1
<1> DEFINE f == CHOOSE g : IsRead(g, s, 1..N)
<1>8. ReadAll(s) = f[1]
  BY DEF ReadAll, IsRead, Turn, N
<1>9. IsRead(f, s, 1..N)
  BY <1>7
<1> HIDE DEF f
<1>10. \A i \in 1..N : f[i] = Turn(f, s, i)
  BY <1>9 DEF IsRead
<1> QED BY <1>8, <1>10 DEF N

LEMMA Behind ==
  ASSUME NEW T, NEW s \in Seq(T), NEW t \in Seq(T)
  PROVE  /\ \A i \in 1..Len(s) : (s \o t)[i] = s[i]
         /\ \A i \in Len(s) + 1..Len(s) + Len(t) : (s \o t)[i] = t[i - Len(s)]
OBVIOUS

LEMMA Pair ==
  ASSUME NEW T, NEW x \in T, NEW y \in T
  PROVE  <<x>> \o <<y>> = <<x, y>>
<1> DEFINE s == <<x>>
           t == <<y>>
           p == s \o t
           q == <<x, y>>
<1>2. q \in Seq(T) /\ Len(q) = 2 /\ q[1] = x /\ q[2] = y
  OBVIOUS
<1>3. s \in Seq(T) /\ t \in Seq(T) /\ Len(s) = 1 /\ Len(t) = 1 /\ s[1] = x /\ t[1] = y
  OBVIOUS
<1> HIDE DEF s, t, q
<1>4. p \in Seq(T) /\ Len(p) = 1 + 1
  BY <1>3, Concatenation
<1>6. /\ \A i \in 1..Len(s) : p[i] = s[i]
      /\ \A i \in Len(s) + 1..Len(s) + Len(t) : p[i] = t[i - Len(s)]
  BY <1>3, Behind
<1> HIDE DEF p
<1>5. p = q
  BY <1>2, <1>3, <1>4, <1>6
<1> QED BY <1>5 DEF p, q, s, t

IsFrame(f) == \E L \in Nat, c \in Nat : FrameOf(f, L, c)

\* A message is sent as one frame.
LEMMA EncodedIsFrame ==
  ASSUME NEW m \in AnyMessage, NEW seq \in Nat
  PROVE  IsFrame(Encode(m, seq))
<1>1. Body(m, seq) \in Bytewise
  BY BodyIsBytewise
<1>2. PICK c \in Nat : FrameOf(Framed(Body(m, seq)), Len(Body(m, seq)), c)
  BY <1>1, FramedIsFrame
<1>3. Len(Body(m, seq)) \in Nat
  BY <1>1 DEF Bytewise
<1> QED BY <1>2, <1>3 DEF IsFrame, Encode

\* Where a stream begins with a frame, that frame is read, as soon as it is there as
\* a whole and not before.
LEMMA FrameIsRead ==
  ASSUME NEW f, IsFrame(f), NEW t \in Bytewise, Begins(t, f)
  PROVE  FrameEnd(t) = IF Len(f) <= Len(t) THEN Len(f) ELSE error
<1>1. PICK L \in Nat, c \in Nat : FrameOf(f, L, c)
  BY DEF IsFrame
<1>2. Len(f) \in Nat /\ Len(t) \in Nat
  BY <1>1 DEF FrameOf, Bytewise
<1>3. CASE Len(f) <= Len(t)
  BY <1>1, <1>3, FrameIsFound
<1>4. CASE Len(t) < Len(f)
  BY <1>1, <1>2, <1>4, CutFrameIsNoFrame
<1> QED BY <1>2, <1>3, <1>4

LEMMA FrameShape ==
  ASSUME NEW f, IsFrame(f)
  PROVE  f \in Bytewise /\ Len(f) \in Nat /\ Len(f) >= 1
BY DEF IsFrame, FrameOf, Bytewise

\* The first bytes of a stream.
UpToByte(s, n) == SubSeq(s, 1, n)

LEMMA UpToBytes ==
  ASSUME NEW s \in Bytewise, NEW n \in 0..Len(s)
  PROVE  /\ UpToByte(s, n) \in Bytewise /\ Len(UpToByte(s, n)) = n
         /\ \A k \in 1..n : UpToByte(s, n)[k] = s[k]
BY DEF Bytewise, UpToByte

\* Two frames, one behind the other, and the connection cut off behind byte n.
LEMMA TwoFramesAreRead ==
  ASSUME NEW f, IsFrame(f), NEW h, IsFrame(h), NEW n \in 0..Len(Join(f, h))
  PROVE  ReadAll(UpToByte(Join(f, h), n)) =
           IF n = Len(Join(f, h)) THEN <<f, h>> ELSE IF n >= Len(f) THEN <<f>> ELSE <<>>
<1> DEFINE j == Join(f, h)
           s == UpToByte(j, n)
           F == Len(f)
           H == Len(h)
<1>1. /\ f \in Bytewise /\ F \in Nat /\ F >= 1
      /\ h \in Bytewise /\ H \in Nat /\ H >= 1
  BY FrameShape
<1>2. Joined(j, f, h)
  BY <1>1, JoinedBytes
<1>3. /\ j \in Bytewise /\ Len(j) = F + H
      /\ \A i \in 1..F : j[i] = f[i]
      /\ \A i \in F + 1..F + H : j[i] = h[i - F]
  <2> HIDE DEF j
  <2> QED BY <1>2 DEF Joined
<1>h. ASSUME NEW k \in 1..H, NEW i \in F + 1..F + H, i = F + k PROVE j[i] = h[k]
  <2>1. i - F = k
    BY <1>1, <1>h
  <2>2. j[i] = h[i - F]
    BY <1>3
  <2> QED BY <2>1, <2>2
<1>n. n \in 0..F + H
  <2> HIDE DEF F, H
  <2> QED BY <1>3
<1> HIDE DEF j
<1>4. s \in Bytewise /\ Len(s) = n /\ \A k \in 1..n : s[k] = j[k]
  <2> HIDE DEF F, H
  <2> QED BY <1>3, <1>n, UpToBytes
<1> HIDE DEF s, F, H
<1>5. PICK g : ReadAll(s) = g[1] /\ \A i \in 1..Len(s) + 1 : g[i] = Turn(g, s, i)
  BY <1>4, ReadAllIsLoop
<1>6. ASSUME NEW i \in 1..n + 1
      PROVE  g[i] = IF NoFrame(FrameEnd(From(s, i))) THEN <<>>
                    ELSE <<SubSeq(s, i, i + FrameEnd(From(s, i)) - 1)>>
                         \o g[i + FrameEnd(From(s, i))]
  <2>1. g[i] = Turn(g, s, i)
    BY <1>4, <1>5
  <2> QED BY <2>1 DEF Turn, From
\* The first frame.
<1>7. FrameEnd(From(s, 1)) = IF F <= n THEN F ELSE error
  <2>1. 1 \in 1..Len(s) + 1
    BY <1>n, <1>4
  <2>2. /\ From(s, 1) \in Bytewise /\ Len(From(s, 1)) = Len(s) + 1 - 1
        /\ \A k \in 1..Len(s) + 1 - 1 : From(s, 1)[k] = s[1 + k - 1]
    BY <1>4, <2>1, FromBytes
  <2>3. Len(From(s, 1)) = n
    BY <1>n, <1>4, <2>2
  <2>4. ASSUME NEW k \in 1..F, k <= n PROVE From(s, 1)[k] = f[k]
    <3>1. k \in 1..n /\ 1 + k - 1 = k /\ k \in 1..Len(s) + 1 - 1
      BY <1>1, <1>n, <1>4, <2>4
    <3> QED BY <1>3, <1>4, <2>2, <3>1
  <2>5. Begins(From(s, 1), f)
    BY <2>3, <2>4 DEF Begins, F
  <2> QED BY <2>2, <2>3, <2>5, FrameIsRead DEF F
<1>8. CASE n < F
  <2>1. NoFrame(FrameEnd(From(s, 1))) /\ 1 \in 1..n + 1
    BY <1>1, <1>7, <1>8, <1>n DEF NoFrame
  <2>2. g[1] = <<>>
    BY <1>6, <2>1, Zenon
  <2>3. n # F + H /\ ~(n >= F)
    BY <1>1, <1>8, <1>n
  <2> QED BY <1>3, <1>5, <2>2, <2>3, Zenon DEF s, j, F, H
<1>9. CASE F <= n
  <2>1. FrameEnd(From(s, 1)) = F /\ 1 \in 1..n + 1 /\ 1 + F - 1 = F /\ F # 0 /\ 1 + F = F + 1
    BY <1>1, <1>7, <1>9, <1>n
  <2>a. ~NoFrame(F)
    BY <1>1 DEF NoFrame, error, panic
  <2>2. g[1] = <<SubSeq(s, 1, F)>> \o g[F + 1]
    <3>1. g[1] = <<SubSeq(s, 1, 1 + F - 1)>> \o g[1 + F]
      BY <1>6, <2>1, <2>a
    <3> QED BY <2>1, <3>1, Zenon
  <2>3. SubSeq(s, 1, F) = f
    <3>1. F \in 0..Len(s)
      BY <1>1, <1>4, <1>9
    <3>2. /\ UpToByte(s, F) \in Bytewise /\ Len(UpToByte(s, F)) = F
          /\ \A k \in 1..F : UpToByte(s, F)[k] = s[k]
      BY <1>4, <3>1, UpToBytes
    <3>3. \A k \in 1..F : UpToByte(s, F)[k] = f[k]
      <4>1. \A k \in 1..F : k \in 1..n
        BY <1>1, <1>9, <1>n
      <4> QED BY <1>3, <1>4, <3>2, <4>1
    <3>4. UpToByte(s, F) = f
      <4>1. Len(UpToByte(s, F)) = Len(f)
        BY <3>2 DEF F
      <4> DEFINE u == UpToByte(s, F)
      <4>2. u \in Bytewise /\ f \in Bytewise /\ Len(u) = F /\ Len(f) = F
        BY <1>1, <3>2, <4>1 DEF F
      <4> HIDE DEF u
      <4> QED BY <1>1, <3>3, <4>2 DEF Bytewise, u
    <3> QED BY <3>4 DEF UpToByte
  \* The second frame.
  <2>4. FrameEnd(From(s, F + 1)) = IF n = F + H THEN H ELSE error
    <3>1. F + 1 \in 1..Len(s) + 1
      BY <1>1, <1>n, <1>4, <1>9
    <3>2. /\ From(s, F + 1) \in Bytewise /\ Len(From(s, F + 1)) = Len(s) + 1 - (F + 1)
          /\ \A k \in 1..Len(s) + 1 - (F + 1) : From(s, F + 1)[k] = s[F + 1 + k - 1]
      BY <1>4, <3>1, FromBytes
    <3>3. Len(From(s, F + 1)) = n - F
      BY <1>1, <1>n, <1>4, <3>2
    <3>4. ASSUME NEW k \in 1..H, k <= n - F PROVE From(s, F + 1)[k] = h[k]
      <4>1. /\ k \in 1..Len(s) + 1 - (F + 1) /\ F + 1 + k - 1 = F + k
            /\ F + k \in 1..n /\ F + k \in F + 1..F + H /\ F + k - F = k
        BY <1>1, <1>n, <1>4, <3>4
      <4>2. From(s, F + 1)[k] = s[F + k]
        BY <3>2, <4>1
      <4>3. s[F + k] = j[F + k]
        BY <1>4, <4>1
      <4>4. j[F + k] = h[k]
        BY <1>h, <4>1
      <4> QED BY <4>1, <4>2, <4>3, <4>4
    <3>5. Begins(From(s, F + 1), h)
      BY <3>3, <3>4 DEF Begins, H
    <3>6. FrameEnd(From(s, F + 1)) = IF H <= n - F THEN H ELSE error
      BY <3>2, <3>3, <3>5, FrameIsRead DEF H
    <3>7. H <= n - F <=> n = F + H
      BY <1>1, <1>n
    <3> QED BY <3>6, <3>7
  <2>5. F + 1 \in 1..n + 1 /\ n >= F
    BY <1>1, <1>n, <1>9
  <2>6. CASE n # F + H
    <3>a. NoFrame(FrameEnd(From(s, F + 1)))
      BY <2>4, <2>6 DEF NoFrame
    <3>1. g[F + 1] = <<>>
      BY <1>6, <2>5, <3>a, Zenon
    <3>2. g[1] = <<f>>
      <4>1. <<f>> \o <<>> = <<f>>
        OBVIOUS
      <4> QED BY <2>2, <2>3, <3>1, <4>1, Zenon
    <3> QED BY <1>3, <1>5, <2>5, <2>6, <3>2, Zenon DEF s, j, F, H
  <2>7. CASE n = F + H
    <3>1. FrameEnd(From(s, F + 1)) = H /\ ~NoFrame(H)
      BY <1>1, <2>4, <2>7 DEF NoFrame, error, panic
    <3>2. g[F + 1] = <<SubSeq(s, F + 1, F + 1 + H - 1)>> \o g[F + 1 + H]
      BY <1>6, <2>5, <3>1
    <3>3. SubSeq(s, F + 1, F + 1 + H - 1) = h
      <4>1. F + 1 + H - 1 = n /\ F + 1 \in 1..Len(s) + 1
        BY <1>1, <1>4, <2>7
      <4>2. SubSeq(s, F + 1, F + 1 + H - 1) = From(s, F + 1)
        BY <1>4, <4>1, Zenon DEF From
      <4>3. /\ From(s, F + 1) \in Bytewise /\ Len(From(s, F + 1)) = Len(s) + 1 - (F + 1)
            /\ \A k \in 1..Len(s) + 1 - (F + 1) : From(s, F + 1)[k] = s[F + 1 + k - 1]
        BY <1>4, <4>1, FromBytes
      <4> DEFINE u == From(s, F + 1)
      <4> HIDE DEF u
      <4>4. Len(u) = H
        BY <1>1, <1>4, <2>7, <4>3 DEF u
      <4>5. ASSUME NEW k \in 1..H PROVE u[k] = h[k]
        <5>1. /\ k \in 1..Len(s) + 1 - (F + 1) /\ F + 1 + k - 1 = F + k
              /\ F + k \in 1..n /\ F + k \in F + 1..F + H /\ F + k - F = k
          BY <1>1, <1>4, <2>7
        <5>2. u[k] = s[F + k]
          BY <4>3, <5>1 DEF u
        <5>3. s[F + k] = j[F + k]
          BY <1>4, <5>1
        <5>4. j[F + k] = h[k]
          BY <1>h, <5>1
        <5> QED BY <5>1, <5>2, <5>3, <5>4
      <4>6. u \in Bytewise /\ h \in Bytewise /\ Len(h) = H
        BY <1>1, <4>3 DEF u, H
      <4>7. u = h
        BY <4>4, <4>5, <4>6 DEF Bytewise
      <4> QED BY <4>2, <4>7 DEF u
    <3>4. g[F + 1 + H] = <<>>
      <4>1. F + 1 + H = n + 1 /\ n + 1 \in 1..Len(s) + 1 /\ n + 1 \in 1..n + 1 /\ Len(s) + 1 - (n + 1) = 0
        BY <1>1, <1>4, <2>7
      <4>2. From(s, n + 1) \in Bytewise /\ Len(From(s, n + 1)) = 0
        <5>1. /\ From(s, n + 1) \in Bytewise /\ Len(From(s, n + 1)) = Len(s) + 1 - (n + 1)
          BY <1>4, <4>1, FromBytes
        <5> QED BY <4>1, <5>1
      <4>3. NoFrame(FrameEnd(From(s, n + 1)))
        <5>1. \A e \in 1..0 : FALSE
          OBVIOUS
        <5> QED BY <4>2, <5>1, FrameEndAny
      <4>4. g[n + 1] = <<>>
        BY <1>6, <4>1, <4>3, Zenon
      <4> QED BY <4>1, <4>4
    <3>5. g[1] = <<f, h>>
      <4>1. <<f>> \o (<<h>> \o <<>>) = <<f, h>>
        <5>1. <<h>> \o <<>> = <<h>>
          OBVIOUS
        <5>2. <<f>> \o <<h>> = <<f, h>>
          BY <1>1, Pair
        <5> QED BY <5>1, <5>2, Zenon
      <4> QED BY <2>2, <2>3, <3>2, <3>3, <3>4, <4>1, Zenon
    <3> QED BY <1>3, <1>5, <2>7, <3>5, Zenon DEF s, j, F, H
  <2> QED BY <2>6, <2>7
<1> QED BY <1>1, <1>n, <1>8, <1>9

\* Wherever the connection is cut off behind two messages, ReadMessage gives the read
\* loop exactly those that came through as a whole, one frame each: however many fields
\* they have and whatever their values look like (conn.go:30-32).
THEOREM FramesAreCutRight ==
  ASSUME NEW m1 \in AnyMessage, NEW m2 \in AnyMessage, NEW seq1 \in Nat, NEW seq2 \in Nat,
         NEW cut \in 0..Len(Join(Encode(m1, seq1), Encode(m2, seq2)))
  PROVE  LET first  == Encode(m1, seq1)
             second == Encode(m2, seq2)
             stream == Join(first, second)
         IN  ReadAll(UpToByte(stream, cut)) =
               IF cut = Len(stream) THEN <<first, second>>
               ELSE IF cut >= Len(first) THEN <<first>> ELSE <<>>
BY EncodedIsFrame, TwoFramesAreRead

\* The same for the messages that TLC enumerates, with any values.
THEOREM FramesAlwaysComeBack == FramesComeBack
<1> SUFFICES ASSUME NEW m \in Messages, NEW v \in Values,
                    NEW cut \in 0..Len(Join(Encode(m, 1),
                                            Encode([msgType |-> v, fields |-> <<>>], 2)))
             PROVE  LET first  == Encode(m, 1)
                        second == Encode([msgType |-> v, fields |-> <<>>], 2)
                        stream == Join(first, second)
                    IN  ReadAll(UpToByte(stream, cut)) =
                          IF cut = Len(stream) THEN <<first, second>>
                          ELSE IF cut >= Len(first) THEN <<first>> ELSE <<>>
  BY DEF FramesComeBack, Join, UpToByte
<1>1. m \in AnyMessage
  <2>1. /\ m = [msgType |-> m.msgType, fields |-> m.fields] /\ m.msgType \in Values
        /\ m.fields \in [1..2 -> [tag : {11, 55}, value : Values]]
    BY DEF Messages
  <2>2. ASSUME NEW i \in 1..2 PROVE m.fields[i] \in [tag : Tags, value : Values]
    <3>1. m.fields[i] \in [tag : {11, 55}, value : Values]
      BY <2>1
    <3> QED BY <3>1 DEF Tags
  <2>3. m.fields \in Seq([tag : Tags, value : Values])
    <3> DEFINE T == [tag : Tags, value : Values]
    <3>1. m.fields = [i \in 1..2 |-> m.fields[i]]
      BY <2>1
    <3> HIDE DEF T
    <3> QED BY <2>2, <3>1 DEF T
  <2> QED BY <2>1, <2>3 DEF AnyMessage
<1>2. [msgType |-> v, fields |-> <<>>] \in AnyMessage
  BY DEF AnyMessage
<1> QED BY <1>1, <1>2, FramesAreCutRight
=============================================================================
