---------------------------- MODULE PositionsProofs ----------------------------
(***************************************************************************)
(* Proofs about the position tracker, for any number of subscribers, any   *)
(* capacity of their channels and any fills and seeds.                     *)
(*                                                                         *)
(* The subscribers: no update is lost to the others because of one of      *)
(* them, none comes out of order unless two mutators overlap, and a closed *)
(* channel gets nothing.  The position is copied under mu and fanned out   *)
(* under watchMu, so a version of it is in every channel that had room, or *)
(* still a copy of one mutator; and while mutators do not overlap, the one *)
(* copy there is is newer than whatever was queued.                        *)
(*                                                                         *)
(* The books: average and profit are brought to one denominator, where     *)
(* Balance is an equation of integers that opening, adding, reducing and   *)
(* flipping keep; and a number has one fraction in lowest terms, so that   *)
(* what is equal as a number is equal as Frac writes it.                   *)
(***************************************************************************)
EXTENDS Positions, WellFoundedInduction, TLAPS

Shape ==
  /\ version \in Nat /\ copy \in [Mutators -> Nat] /\ \A m \in Mutators : copy[m] <= version
  /\ overlapped \in BOOLEAN
  /\ queued \in [Watchers -> Seq(Nat)]
  /\ joined \in [Watchers -> Nat] /\ missed \in [Watchers -> BOOLEAN]
  /\ started \subseteq Watchers /\ listed \subseteq started /\ closed \subseteq started \ listed

\* A version the subscriber should have is in its channel, or still being fanned out.
Delivered ==
  \A w \in listed : ~missed[w] =>
    \A v \in Nat : joined[w] < v /\ v <= version =>
      (\E i \in DOMAIN queued[w] : queued[w][i] = v) \/ \E m \in Mutators : copy[m] = v

\* Without an overlap there is one copy, and it is newer than what is queued.
InOrder ==
  ~overlapped =>
    /\ \A m, n \in Mutators : copy[m] # 0 /\ copy[n] # 0 => m = n
    /\ \A w \in Watchers : \A i \in DOMAIN queued[w] :
         /\ queued[w][i] <= version
         /\ \A m \in Mutators : copy[m] # 0 => queued[w][i] < copy[m]
         /\ \A j \in DOMAIN queued[w] : i < j => queued[w][i] < queued[w][j]

IInv == Shape /\ Delivered /\ InOrder

\* What IInv looks at, but for the lists of subscribers.
core == <<version, copy, overlapped, queued, joined, missed>>

-----------------------------------------------------------------------------
LEMMA InitInv == Init => IInv
<1> SUFFICES ASSUME Init PROVE IInv
  OBVIOUS
<1>1. <<>> \in Seq(Nat) /\ DOMAIN <<>> = {}
  OBVIOUS
<1>2. Shape
  <2>1. /\ queued \in [Watchers -> Seq(Nat)] /\ joined \in [Watchers -> Nat]
        /\ missed \in [Watchers -> BOOLEAN]
    BY <1>1 DEF Init
  <2>2. version = 0 /\ copy = [m \in Mutators |-> 0] /\ overlapped \in BOOLEAN
    BY Zenon DEF Init
  <2>3. copy \in [Mutators -> Nat] /\ \A m \in Mutators : copy[m] = 0
    BY <2>2
  <2>4. started = {} /\ listed = {} /\ closed = {}
    BY DEF Init
  <2> QED
    BY <2>1, <2>2, <2>3, <2>4 DEF Shape
<1>3. Delivered /\ InOrder
  BY <1>1 DEF Init, Delivered, InOrder
<1> QED
  BY <1>2, <1>3 DEF IInv

\* A channel with one more update in it.
LEMMA Appended ==
  ASSUME NEW q \in Seq(Nat), NEW v \in Nat
  PROVE  /\ Append(q, v) \in Seq(Nat) /\ DOMAIN Append(q, v) = 1..Len(q) + 1
         /\ Append(q, v)[Len(q) + 1] = v
         /\ \A i \in 1..Len(q) : i \in DOMAIN Append(q, v) /\ Append(q, v)[i] = q[i]
  OBVIOUS

\* Nothing but the position and the counters of the model changes.
LEMMA AsideInv == IInv /\ UNCHANGED <<core, started, listed, closed>> => IInv'
  BY DEF core, IInv, Shape, Delivered, InOrder

\* The position changes and is copied; the copy is newer than everything.
LEMMA ChangeInv ==
  ASSUME IInv, NEW who \in Mutators, NEW p, NEW l, Change(who, p, l)
  PROVE  IInv'
<1>1. /\ copy[who] = 0 /\ version' = version + 1 /\ copy' = [copy EXCEPT ![who] = version + 1]
      /\ overlapped' = (overlapped \/ \E other \in Mutators \ {who} : copy[other] # 0)
      /\ UNCHANGED <<started, listed, closed, queued, missed, joined>>
  BY DEF Change, watchVars
<1>2. version \in Nat /\ copy \in [Mutators -> Nat] /\ queued \in [Watchers -> Seq(Nat)]
  BY DEF IInv, Shape
<1>3. /\ copy'[who] = version + 1
      /\ \A m \in Mutators : m # who => copy'[m] = copy[m]
  BY <1>1, <1>2
<1>4. Shape'
  BY <1>1, <1>2, <1>3 DEF IInv, Shape
<1>5. Delivered'
  <2> SUFFICES ASSUME NEW w \in listed, ~missed[w], NEW v \in Nat,
                      joined[w] < v, v <= version + 1
               PROVE  \/ \E i \in DOMAIN queued[w] : queued[w][i] = v
                      \/ \E m \in Mutators : copy'[m] = v
    BY <1>1 DEF Delivered
  <2>1. CASE v = version + 1
    BY <1>3, <2>1
  <2>2. CASE v # version + 1
    <3>1. v <= version /\ v # 0
      BY <1>2, <2>2 DEF IInv, Shape
    <3>2. \/ \E i \in DOMAIN queued[w] : queued[w][i] = v
          \/ \E m \in Mutators : copy[m] = v
      BY <3>1 DEF IInv, Delivered
    <3> QED
      BY <1>1, <1>3, <3>1, <3>2
  <2> QED
    BY <2>1, <2>2
<1>6. InOrder'
  <2> SUFFICES ASSUME ~overlapped'
               PROVE  /\ \A m, n \in Mutators : copy'[m] # 0 /\ copy'[n] # 0 => m = n
                      /\ \A w \in Watchers : \A i \in DOMAIN queued[w] :
                           /\ queued[w][i] <= version + 1
                           /\ \A m \in Mutators : copy'[m] # 0 => queued[w][i] < copy'[m]
                           /\ \A j \in DOMAIN queued[w] : i < j => queued[w][i] < queued[w][j]
    BY <1>1 DEF InOrder
  <2>1. ~overlapped /\ \A m \in Mutators : m # who => copy'[m] = 0
    BY <1>1, <1>3 DEF IInv, Shape
  <2>2. ASSUME NEW w \in Watchers, NEW i \in DOMAIN queued[w]
        PROVE  /\ queued[w][i] \in Nat /\ queued[w][i] <= version
               /\ \A j \in DOMAIN queued[w] : i < j => queued[w][i] < queued[w][j]
    BY <1>2, <2>1, <2>2 DEF IInv, InOrder
  <2>3. ASSUME NEW w \in Watchers, NEW i \in DOMAIN queued[w]
        PROVE  queued[w][i] < version + 1
    BY <1>2, <2>2, <2>3
  <2> QED
    BY <1>2, <1>3, <2>1, <2>2, <2>3
<1> QED
  BY <1>4, <1>5, <1>6 DEF IInv

\* A copy is offered to every subscriber on the list.
LEMMA FanOutInv ==
  ASSUME IInv, NEW who \in Mutators, FanOut(who)
  PROVE  IInv'
<1> DEFINE v0 == copy[who]
<1>1. /\ v0 # 0 /\ copy' = [copy EXCEPT ![who] = 0]
      /\ queued' = [w \in Watchers |-> IF w \in Reached THEN Append(queued[w], v0) ELSE queued[w]]
      /\ missed' = [w \in Watchers |-> missed[w] \/ (w \in listed /\ Full(w))]
      /\ UNCHANGED <<version, overlapped, started, listed, closed, joined>>
  BY DEF FanOut
<1>2. /\ version \in Nat /\ copy \in [Mutators -> Nat] /\ queued \in [Watchers -> Seq(Nat)]
      /\ v0 \in Nat /\ v0 <= version /\ listed \subseteq Watchers
  BY DEF IInv, Shape
<1>3. copy'[who] = 0 /\ \A m \in Mutators : m # who => copy'[m] = copy[m]
  BY <1>1, <1>2
<1>4. ASSUME NEW w \in Watchers
      PROVE  /\ DOMAIN queued[w] = 1..Len(queued[w]) /\ Len(queued[w]) \in Nat
             /\ queued'[w] \in Seq(Nat)
             /\ \/ queued'[w] = queued[w] /\ w \notin Reached
                \/ /\ DOMAIN queued'[w] = 1..Len(queued[w]) + 1
                   /\ queued'[w][Len(queued[w]) + 1] = v0
             /\ \A i \in 1..Len(queued[w]) : i \in DOMAIN queued'[w] /\ queued'[w][i] = queued[w][i]
  <2>1. queued[w] \in Seq(Nat)
    BY <1>2
  <2>2. \/ queued'[w] = queued[w] /\ w \notin Reached
        \/ queued'[w] = Append(queued[w], v0)
    BY <1>1
  <2> HIDE DEF v0
  <2>3. DOMAIN queued[w] = 1..Len(queued[w]) /\ Len(queued[w]) \in Nat
    BY <2>1
  <2>4. CASE queued'[w] = queued[w] /\ w \notin Reached
    BY <2>1, <2>3, <2>4
  <2>5. CASE queued'[w] = Append(queued[w], v0)
    <3>1. v0 \in Nat
      BY <1>2
    <3>2. /\ Append(queued[w], v0) \in Seq(Nat)
          /\ DOMAIN Append(queued[w], v0) = 1..Len(queued[w]) + 1
          /\ Append(queued[w], v0)[Len(queued[w]) + 1] = v0
          /\ \A i \in 1..Len(queued[w]) : /\ i \in DOMAIN Append(queued[w], v0)
                                        /\ Append(queued[w], v0)[i] = queued[w][i]
      BY <2>1, <3>1, Appended
    <3> QED
      BY <2>3, <2>5, <3>2
  <2> QED
    BY <2>2, <2>4, <2>5
<1> HIDE DEF v0
<1>5. Shape'
  <2>1. missed' \in [Watchers -> BOOLEAN]
    BY <1>1, <1>2 DEF IInv, Shape
  <2>2. queued' \in [Watchers -> Seq(Nat)]
    BY <1>1, <1>4
  <2> QED
    BY <1>1, <1>2, <1>3, <2>1, <2>2 DEF IInv, Shape
<1>6. Delivered'
  <2> SUFFICES ASSUME NEW w \in listed, ~missed'[w], NEW v \in Nat, joined[w] < v, v <= version
               PROVE  \/ \E i \in DOMAIN queued'[w] : queued'[w][i] = v
                      \/ \E m \in Mutators : copy'[m] = v
    BY <1>1 DEF Delivered
  <2>1. w \in Watchers /\ ~missed[w] /\ w \in Reached
    BY <1>1, <1>2 DEF Reached
  <2>2. \/ \E i \in DOMAIN queued[w] : queued[w][i] = v
        \/ \E m \in Mutators : copy[m] = v
    BY <2>1 DEF IInv, Delivered
  <2>3. CASE \E i \in DOMAIN queued[w] : queued[w][i] = v
    BY <1>4, <2>1, <2>3
  <2>4. CASE copy[who] = v
    BY <1>4, <2>1, <2>4 DEF v0
  <2>5. CASE \E m \in Mutators : m # who /\ copy[m] = v
    BY <1>3, <2>5
  <2> QED
    BY <2>2, <2>3, <2>4, <2>5
<1>7. InOrder'
  <2> SUFFICES ASSUME ~overlapped
               PROVE  /\ \A m, n \in Mutators : copy'[m] # 0 /\ copy'[n] # 0 => m = n
                      /\ \A w \in Watchers : \A i \in DOMAIN queued'[w] :
                           /\ queued'[w][i] <= version
                           /\ \A m \in Mutators : copy'[m] # 0 => queued'[w][i] < copy'[m]
                           /\ \A j \in DOMAIN queued'[w] : i < j => queued'[w][i] < queued'[w][j]
    BY <1>1 DEF InOrder
  <2>1. \A m \in Mutators : copy'[m] = 0
    BY <1>1, <1>3 DEF IInv, InOrder, v0
  <2>2. ASSUME NEW w \in Watchers, NEW i \in DOMAIN queued[w]
        PROVE  /\ queued[w][i] <= version /\ queued[w][i] < v0
               /\ \A j \in DOMAIN queued[w] : i < j => queued[w][i] < queued[w][j]
    BY <1>1, <2>2 DEF IInv, InOrder, v0
  <2>3. ASSUME NEW w \in Watchers, NEW i \in DOMAIN queued'[w]
        PROVE  /\ queued'[w][i] <= version
               /\ \A j \in DOMAIN queued'[w] : i < j => queued'[w][i] < queued'[w][j]
    <3>1. CASE queued'[w] = queued[w]
      BY <2>2, <2>3, <3>1
    <3>2. CASE /\ DOMAIN queued'[w] = 1..Len(queued[w]) + 1
               /\ queued'[w][Len(queued[w]) + 1] = v0
      <4>1. /\ Len(queued[w]) \in Nat /\ DOMAIN queued[w] = 1..Len(queued[w])
            /\ \A j \in 1..Len(queued[w]) : queued'[w][j] = queued[w][j]
        BY <1>4
      <4>2. CASE i \in 1..Len(queued[w])
        <5>1. /\ queued'[w][i] = queued[w][i] /\ queued[w][i] <= version /\ queued[w][i] < v0
              /\ \A j \in 1..Len(queued[w]) : i < j => queued[w][i] < queued[w][j]
          BY <2>2, <4>1, <4>2
        <5>2. ASSUME NEW j \in 1..Len(queued[w]) + 1, i < j
              PROVE  queued'[w][i] < queued'[w][j]
          <6>1. CASE j \in 1..Len(queued[w])
            BY <4>1, <5>1, <5>2, <6>1
          <6>2. CASE j = Len(queued[w]) + 1
            BY <3>2, <5>1, <6>2
          <6> QED
            BY <4>1, <6>1, <6>2
        <5> QED
          BY <3>2, <5>1, <5>2
      <4>3. CASE i = Len(queued[w]) + 1
        BY <1>2, <3>2, <4>1, <4>3
      <4> QED
        BY <2>3, <3>2, <4>1, <4>2, <4>3
    <3> QED
      BY <1>4, <3>1, <3>2
  <2> QED
    BY <2>1, <2>3
<1> QED
  BY <1>5, <1>6, <1>7 DEF IInv

\* Subscribers come and go; whoever joins starts at the version there is.
LEMMA SubscriberInv ==
  ASSUME IInv, NEW w \in Watchers, Subscriber(w)
  PROVE  IInv'
<1>1. CASE Watch(w)
  <2>1. /\ joined' = [joined EXCEPT ![w] = version] /\ started' = started \cup {w}
        /\ listed' = listed \cup {w} /\ w \notin started
        /\ UNCHANGED <<version, copy, overlapped, queued, missed, closed>>
    BY <1>1 DEF Watch, posVars
  <2>2. Shape'
    BY <2>1 DEF IInv, Shape
  <2>3. Delivered'
    <3> SUFFICES ASSUME NEW u \in listed', ~missed[u], NEW v \in Nat,
                        joined'[u] < v, v <= version
                 PROVE  \/ \E i \in DOMAIN queued[u] : queued[u][i] = v
                        \/ \E m \in Mutators : copy[m] = v
      BY <2>1 DEF Delivered
    <3>1. u # w
      BY <2>1 DEF IInv, Shape
    <3> QED
      BY <2>1, <3>1 DEF IInv, Shape, Delivered
  <2>4. InOrder'
    BY <2>1 DEF IInv, InOrder
  <2> QED
    BY <2>2, <2>3, <2>4 DEF IInv
<1>2. CASE Take(w)
  BY <1>2, AsideInv DEF Take, posVars, core
<1>3. CASE Leave(w) \/ Close(w)
  <2>1. UNCHANGED core /\ listed' \subseteq listed
    BY <1>3 DEF Leave, Close, posVars, core
  <2>2. Shape'
    BY <1>3, <2>1 DEF Leave, Close, MayClose, core, IInv, Shape
  <2> QED
    BY <2>1, <2>2 DEF core, IInv, Delivered, InOrder
<1> QED
  BY <1>1, <1>2, <1>3 DEF Subscriber

LEMMA FillInv == ASSUME IInv, ApplyFill \/ Seed PROVE IInv'
<1>1. CASE Seed
  BY <1>1, ChangeInv DEF Seed, Mutators
<1>2. CASE ApplyFill
  <2>1. \/ UNCHANGED <<core, started, listed, closed>>
        \/ \E p, l : Change("fill", p, l)
    BY <1>2 DEF ApplyFill, watchVars, core
  <2> QED
    BY <2>1, AsideInv, ChangeInv DEF Mutators
<1> QED
  BY <1>1, <1>2

LEMMA StepInv == IInv /\ [Next]_vars => IInv'
<1> SUFFICES ASSUME IInv, [Next]_vars PROVE IInv'
  OBVIOUS
<1>1. CASE UNCHANGED vars
  BY <1>1, AsideInv DEF vars, posVars, watchVars, core
<1> QED
  BY <1>1, FillInv, FanOutInv, SubscriberInv DEF Next

THEOREM SubscribersInvariance == Spec => []IInv
  BY InitInv, StepInv, PTL DEF Spec

\* Every subscriber whose channel was never full has every change since it was
\* listed, and has them in order unless a seed raced with a fill
\* (forts/account.go:137-172).
THEOREM UpdatesArrive == Spec => []EveryUpdateArrives
<1>1. IInv => EveryUpdateArrives
  <2> SUFFICES ASSUME IInv, NEW w \in listed
               PROVE  /\ ~missed[w] /\ copy = [m \in Mutators |-> 0] =>
                           \A v \in (joined[w] + 1)..version :
                             \E i \in DOMAIN queued[w] : queued[w][i] = v
                      /\ ~overlapped => \A i, j \in DOMAIN queued[w] :
                                          i < j => queued[w][i] < queued[w][j]
    BY DEF EveryUpdateArrives
  <2>1. w \in Watchers /\ joined[w] \in Nat /\ version \in Nat
    BY DEF IInv, Shape
  <2>2. ASSUME ~missed[w], copy = [m \in Mutators |-> 0], NEW v \in (joined[w] + 1)..version
        PROVE  \E i \in DOMAIN queued[w] : queued[w][i] = v
    <3>1. v \in Nat /\ joined[w] < v /\ v <= version /\ v # 0
      BY <2>1
    <3>2. \A m \in Mutators : copy[m] # v
      BY <2>2, <3>1
    <3> QED
      BY <2>2, <3>1, <3>2 DEF IInv, Delivered
  <2>3. ~overlapped => \A i, j \in DOMAIN queued[w] : i < j => queued[w][i] < queued[w][j]
    BY <2>1 DEF IInv, InOrder
  <2> QED
    BY <2>2, <2>3
<1> QED
  BY <1>1, SubscribersInvariance, PTL

\* A channel that was closed is off the list for good, and nothing is put into it
\* (forts/account.go:148-158, 163-172).
THEOREM NothingAfterClose == Spec => NeverOnClosed
<1>1. IInv /\ [Next]_vars =>
        [\A w \in closed : queued'[w] = queued[w] /\ w \notin listed']_vars
  <2> SUFFICES ASSUME IInv, Next, NEW w \in closed
               PROVE  queued'[w] = queued[w] /\ w \notin listed'
    OBVIOUS
  <2>1. w \in Watchers /\ w \in started /\ w \notin listed
    BY DEF IInv, Shape
  <2>2. CASE ApplyFill \/ Seed
    BY <2>1, <2>2 DEF ApplyFill, Seed, Change, watchVars
  <2>3. CASE \E m \in Mutators : FanOut(m)
    BY <2>1, <2>3 DEF FanOut, Reached
  <2>4. CASE \E u \in Watchers : Subscriber(u)
    BY <2>1, <2>4 DEF Subscriber, Watch, Take, Leave, Close
  <2> QED
    BY <2>2, <2>3, <2>4 DEF Next
<1> QED
  BY <1>1, SubscribersInvariance, PTL DEF Spec, NeverOnClosed

-----------------------------------------------------------------------------
(* Fractions                                                                *)

\* A non-empty set of natural numbers has a least element.
LEMMA LeastNumber ==
  ASSUME NEW T, T \subseteq Nat, T # {}
  PROVE  \E m \in T : \A k \in T : m <= k
<1>1. IsWellFoundedOn(OpToRel(<, Nat), Nat)
  BY NatLessThanWellFounded, Zenon
<1>2. PICK m \in T : \A k \in T : <<k, m>> \notin OpToRel(<, Nat)
  BY WFMin, <1>1, Zenon
<1>3. ASSUME NEW k \in T PROVE m <= k
  <2>1. k \in Nat /\ m \in Nat
    OBVIOUS
  <2>2. (<<k, m>> \in OpToRel(<, Nat)) <=> (<<k, m>> \in Nat \X Nat /\ k < m)
    BY DEF OpToRel
  <2>3. ~(k < m)
    BY <1>2, <2>1, <2>2
  <2> QED BY <2>1, <2>3
<1> QED BY <1>3

Positive == Nat \ {0}

Divides(k, n) == n % k = 0

\* What a remainder of 0 means.
LEMMA DivisionExact ==
  ASSUME NEW n \in Int, NEW k \in Positive, Divides(k, n)
  PROVE  n \div k \in Int /\ n = k * (n \div k)
BY DEF Divides, Positive

LEMMA MultipleDivides ==
  ASSUME NEW n \in Int, NEW k \in Positive, NEW q \in Int, n = k * q
  PROVE  Divides(k, n) /\ n \div k = q
BY DEF Divides, Positive

LEMMA ProductOfPositives ==
  ASSUME NEW a \in Positive, NEW b \in Positive
  PROVE  a * b \in Positive /\ a <= a * b /\ b <= a * b
BY DEF Positive

CommonDivisor(k, n, d) == Divides(k, n) /\ Divides(k, d)

\* A fraction in lowest terms.
Lowest(a) ==
  a \in Fractions /\ \A k \in Positive : CommonDivisor(k, a.num, a.den) => k = 1

\* a is the number n / d.
Is(a, n, d) == a.num * d = n * a.den

\* There is a greatest common divisor.
LEMMA GreatestDivisor ==
  ASSUME NEW n \in Int, NEW d \in Positive
  PROVE  \E g \in 1..d : /\ CommonDivisor(g, n, d)
                         /\ \A j \in (g + 1)..d : ~CommonDivisor(j, n, d)
<1> DEFINE T == {d - g : g \in {g \in 1..d : CommonDivisor(g, n, d)}}
<1>1. CommonDivisor(1, n, d) /\ 1 \in 1..d
  BY DEF CommonDivisor, Divides, Positive
<1>2. T \subseteq Nat /\ T # {}
  BY <1>1 DEF Positive
<1>3. PICK m \in T : \A k \in T : m <= k
  BY <1>2, LeastNumber
<1>4. PICK g \in 1..d : CommonDivisor(g, n, d) /\ m = d - g
  OBVIOUS
<1>5. ASSUME NEW j \in (g + 1)..d, CommonDivisor(j, n, d) PROVE FALSE
  <2>1. j \in 1..d /\ d - j \in T
    BY <1>5 DEF Positive
  <2>2. d - g <= d - j
    BY <1>3, <1>4, <2>1
  <2> QED BY <2>1, <2>2 DEF Positive
<1> QED BY <1>4, <1>5

\* Frac reduces: the fraction is the same number, in lowest terms.
LEMMA FracReduces ==
  ASSUME NEW n \in Int, NEW d \in Positive
  PROVE  Lowest(Frac(n, d)) /\ Is(Frac(n, d), n, d)
<1> DEFINE Greatest(k) == /\ n % k = 0 /\ d % k = 0
                          /\ \A j \in (k + 1)..d : ~(n % j = 0 /\ d % j = 0)
           g == CHOOSE k \in 1..d : Greatest(k)
<1>1. \E k \in 1..d : Greatest(k)
  BY GreatestDivisor DEF CommonDivisor, Divides
<1>2. g \in 1..d /\ Greatest(g)
  BY <1>1
<1>3. Frac(n, d) = [num |-> n \div g, den |-> d \div g]
  BY DEF Frac
<1> HIDE DEF g
<1>4. g \in Positive /\ CommonDivisor(g, n, d)
  BY <1>2 DEF Positive, CommonDivisor, Divides
<1>5. \A j \in (g + 1)..d : ~CommonDivisor(j, n, d)
  BY <1>2 DEF CommonDivisor, Divides
<1> HIDE DEF Greatest
<1> DEFINE a == n \div g
           b == d \div g
<1>6. a \in Int /\ b \in Int /\ n = g * a /\ d = g * b
  BY <1>4, DivisionExact DEF CommonDivisor, Positive
<1> HIDE DEF a, b
<1>7. b \in Positive
  BY <1>4, <1>6 DEF Positive
<1>8. ASSUME NEW k \in Positive, CommonDivisor(k, a, b) PROVE k = 1
  <2>1. PICK x \in Int : a = k * x
    BY <1>6, <1>8, DivisionExact DEF CommonDivisor
  <2>2. PICK y \in Int : b = k * y
    BY <1>6, <1>8, DivisionExact DEF CommonDivisor
  <2>3. g * k \in Positive /\ k * g \in Positive /\ y \in Positive
    BY <1>4, <1>7, <2>2 DEF Positive
  <2>4. n = (g * k) * x
    BY <1>4, <1>6, <2>1 DEF Positive
  <2>5. d = (g * k) * y
    BY <1>4, <1>6, <2>2 DEF Positive
  <2>6. CommonDivisor(g * k, n, d)
    BY <2>3, <2>4, <2>5, MultipleDivides DEF CommonDivisor, Positive
  <2>7. g * k <= d
    BY <2>3, <2>5, ProductOfPositives
  <2>8. ~(g + 1 <= g * k)
    BY <1>5, <2>3, <2>6, <2>7 DEF Positive
  <2>9. k = 1 \/ k >= 2
    BY DEF Positive
  <2>10. k >= 2 => g * k >= g * 2
    BY <1>4 DEF Positive
  <2> QED BY <1>4, <2>3, <2>8, <2>9, <2>10 DEF Positive
<1>9. Frac(n, d) = [num |-> a, den |-> b]
  BY <1>3 DEF a, b
<1>10. a * d = n * b
  <2>1. a * (g * b) = (g * a) * b
    BY <1>4, <1>6 DEF Positive
  <2> QED BY <1>6, <2>1
<1> QED BY <1>6, <1>7, <1>8, <1>9, <1>10 DEF Lowest, Is, Fractions, Positive

\* A number has one fraction in lowest terms.
LEMMA LowestIsOne ==
  ASSUME NEW a, Lowest(a), NEW b, Lowest(b), NEW n \in Int, NEW d \in Positive,
         Is(a, n, d), Is(b, n, d)
  PROVE  a = b
<1>1. a.num \in Int /\ a.den \in Positive /\ b.num \in Int /\ b.den \in Positive
      /\ a = [num |-> a.num, den |-> a.den] /\ b = [num |-> b.num, den |-> b.den]
  BY DEF Lowest, Fractions, Positive
<1> DEFINE S == {k \in Positive : \E m \in Int : m * d = n * k}
<1>2. a.den \in S /\ b.den \in S
  BY <1>1 DEF Is
<1>3. PICK k \in S : \A j \in S : k <= j
  <2>1. S \subseteq Nat /\ S # {}
    BY <1>2 DEF Positive
  <2> QED BY <2>1, LeastNumber
<1>4. PICK m \in Int : m * d = n * k
  OBVIOUS
<1>5. k \in Positive
  OBVIOUS
<1>6. ASSUME NEW e \in Int, NEW f \in Positive, e * d = n * f,
             \A j \in Positive : CommonDivisor(j, e, f) => j = 1
      PROVE  e = m /\ f = k
  <2> DEFINE q == f \div k
             r == f % k
  <2>1. q \in Int /\ r \in Nat /\ r < k /\ f = k * q + r
    BY <1>5 DEF Positive
  <2> HIDE DEF q, r
  <2>2. (e - m * q) * d = n * r
    <3>1. (e - m * q) * d = e * d - (m * d) * q
      BY <2>1 DEF Positive
    <3>2. n * f - (n * k) * q = n * (f - k * q)
      BY <1>5, <2>1 DEF Positive
    <3>3. f - k * q = r
      BY <1>5, <2>1 DEF Positive
    <3> QED BY <1>4, <1>6, <3>1, <3>2, <3>3
  <2>3. r = 0
    <3>1. ASSUME r # 0 PROVE FALSE
      <4>1. r \in Positive
        BY <2>1, <3>1 DEF Positive
      <4>2. e - m * q \in Int
        BY <2>1
      <4>3. r \in S
        BY <2>2, <4>1, <4>2
      <4> QED BY <1>3, <1>5, <2>1, <4>3 DEF Positive
    <3> QED BY <3>1
  <2>4. f = k * q
    BY <1>5, <2>1, <2>3 DEF Positive
  <2>5. e = m * q
    <3>1. (e - m * q) * d = 0
      BY <2>2, <2>3
    <3>2. e - m * q \in Int
      BY <2>1
    <3>3. e - m * q = 0
      BY <3>1, <3>2 DEF Positive
    <3> QED BY <2>1, <3>3
  <2>6. q \in Positive
    BY <1>5, <2>1, <2>4 DEF Positive
  <2>7. e = q * m /\ f = q * k
    BY <1>5, <2>1, <2>4, <2>5 DEF Positive
  <2>8. CommonDivisor(q, e, f)
    <3>1. Divides(q, e)
      BY <2>6, <2>7, MultipleDivides
    <3>2. k \in Int /\ f \in Int
      BY <1>5 DEF Positive
    <3>3. Divides(q, f)
      BY <2>6, <2>7, <3>2, MultipleDivides
    <3> QED BY <3>1, <3>3 DEF CommonDivisor
  <2>9. q = 1
    BY <1>6, <2>6, <2>8
  <2> QED BY <1>5, <2>7, <2>9 DEF Positive
<1>7. a.num = m /\ a.den = k
  BY <1>1, <1>6 DEF Lowest, Is
<1>8. b.num = m /\ b.den = k
  BY <1>1, <1>6 DEF Lowest, Is
<1> QED BY <1>1, <1>7, <1>8

-----------------------------------------------------------------------------
(* What the operations compute, over any denominator                        *)

LEMMA WholeIs ==
  ASSUME NEW n \in Int
  PROVE  /\ Whole(n) \in Fractions /\ Lowest(Whole(n))
         /\ \A d \in Positive : Is(Whole(n), n * d, d)
<1>1. Whole(n) \in Fractions
  BY DEF Whole, Fractions
<1>2. ASSUME NEW k \in Positive, CommonDivisor(k, n, 1) PROVE k = 1
  BY <1>2 DEF CommonDivisor, Divides, Positive
<1>3. \A d \in Positive : Is(Whole(n), n * d, d)
  BY DEF Whole, Is, Positive
<1> QED BY <1>1, <1>2, <1>3 DEF Lowest, Whole

\* Two fractions that are both x / y and n / d.
LEMMA SameNumber ==
  ASSUME NEW a \in Fractions, NEW x \in Int, NEW y \in Positive, Is(a, x, y),
         NEW n \in Int, NEW d \in Positive, x * d = n * y
  PROVE  Is(a, n, d)
<1>1. a.num \in Int /\ a.den \in Positive
  BY DEF Fractions, Positive
<1>2. y * (a.num * d) = y * (n * a.den)
  <2>1. y * (a.num * d) = (a.num * y) * d
    BY <1>1 DEF Positive
  <2>2. (a.num * y) * d = (x * a.den) * d
    BY DEF Is
  <2>3. (x * a.den) * d = (x * d) * a.den
    BY <1>1 DEF Positive
  <2>4. (n * y) * a.den = y * (n * a.den)
    BY <1>1 DEF Positive
  <2> QED BY <2>1, <2>2, <2>3, <2>4
<1>3. a.num * d \in Int /\ n * a.den \in Int
  BY <1>1 DEF Positive
<1>4. a.num * d = n * a.den
  BY <1>2, <1>3 DEF Positive
<1> QED BY <1>4 DEF Is

LEMMA PlusIs ==
  ASSUME NEW a \in Fractions, NEW b \in Fractions, NEW n \in Int, NEW m \in Int,
         NEW d \in Positive, Is(a, n, d), Is(b, m, d)
  PROVE  Lowest(Plus(a, b)) /\ Is(Plus(a, b), n + m, d)
<1> DEFINE x == a.num * b.den + b.num * a.den
           y == a.den * b.den
<1>1. a.num \in Int /\ a.den \in Positive /\ b.num \in Int /\ b.den \in Positive
  BY DEF Fractions, Positive
<1>2. x \in Int /\ y \in Positive
  BY <1>1, ProductOfPositives DEF Positive
<1>3. x * d = (n + m) * y
  <2>1. x * d = (a.num * d) * b.den + (b.num * d) * a.den
    BY <1>1 DEF Positive
  <2>2. (n * a.den) * b.den + (m * b.den) * a.den = (n + m) * y
    BY <1>1 DEF Positive
  <2> QED BY <2>1, <2>2 DEF Is
<1>4. Plus(a, b) = Frac(x, y)
  BY DEF Plus
<1> HIDE DEF x, y
<1>5. Lowest(Plus(a, b)) /\ Is(Plus(a, b), x, y)
  BY <1>2, <1>4, FracReduces
<1>6. Plus(a, b) \in Fractions
  BY <1>5 DEF Lowest
<1> QED BY <1>2, <1>3, <1>5, <1>6, SameNumber

LEMMA TimesIs ==
  ASSUME NEW a \in Fractions, NEW k \in Int, NEW n \in Int, NEW d \in Positive, Is(a, n, d)
  PROVE  Lowest(Times(a, k)) /\ Is(Times(a, k), n * k, d)
<1> DEFINE x == a.num * k
<1>1. a.num \in Int /\ a.den \in Positive
  BY DEF Fractions, Positive
<1>2. x \in Int
  BY <1>1
<1>3. x * d = (n * k) * a.den
  <2>1. x * d = (a.num * d) * k
    BY <1>1 DEF Positive
  <2>2. (n * a.den) * k = (n * k) * a.den
    BY <1>1 DEF Positive
  <2> QED BY <2>1, <2>2 DEF Is
<1>4. Times(a, k) = Frac(x, a.den)
  BY DEF Times
<1> HIDE DEF x
<1>5. Lowest(Times(a, k)) /\ Is(Times(a, k), x, a.den)
  BY <1>1, <1>2, <1>4, FracReduces
<1>6. Times(a, k) \in Fractions /\ n * k \in Int
  BY <1>5 DEF Lowest
<1> QED BY <1>1, <1>2, <1>3, <1>5, <1>6, SameNumber

LEMMA OverIs ==
  ASSUME NEW a \in Fractions, NEW k \in Positive, NEW n \in Int, NEW d \in Positive, Is(a, n, d)
  PROVE  Lowest(Over(a, k)) /\ Is(Over(a, k), n, d * k)
<1> DEFINE y == a.den * k
<1>1. a.num \in Int /\ a.den \in Positive
  BY DEF Fractions, Positive
<1>2. y \in Positive /\ d * k \in Positive
  BY <1>1, ProductOfPositives
<1>3. a.num * (d * k) = n * y
  <2>1. a.num * (d * k) = (a.num * d) * k
    BY <1>1 DEF Positive
  <2>2. (n * a.den) * k = n * y
    BY <1>1 DEF Positive
  <2> QED BY <2>1, <2>2 DEF Is
<1>4. Over(a, k) = Frac(a.num, y)
  BY DEF Over
<1> HIDE DEF y
<1>5. Lowest(Over(a, k)) /\ Is(Over(a, k), a.num, y)
  BY <1>1, <1>2, <1>4, FracReduces
<1>6. Over(a, k) \in Fractions
  BY <1>5 DEF Lowest
<1> QED BY <1>1, <1>2, <1>3, <1>5, <1>6, SameNumber

LEMMA MinusIs ==
  ASSUME NEW a \in Fractions, NEW b \in Fractions, NEW n \in Int, NEW m \in Int,
         NEW d \in Positive, Is(a, n, d), Is(b, m, d)
  PROVE  Lowest(Minus(a, b)) /\ Is(Minus(a, b), n - m, d)
<1>1. Lowest(Times(b, -1)) /\ Is(Times(b, -1), m * (-1), d)
  BY TimesIs
<1>2. Times(b, -1) \in Fractions /\ m * (-1) \in Int /\ n + m * (-1) = n - m
  BY <1>1 DEF Lowest
<1>3. /\ Lowest(Plus(a, Times(b, -1)))
      /\ Is(Plus(a, Times(b, -1)), n + m * (-1), d)
  BY <1>1, <1>2, PlusIs
<1> QED BY <1>2, <1>3 DEF Minus

\* The sign of a number does not depend on how it is written.
LEMMA SameSign ==
  ASSUME NEW a \in Fractions, NEW n \in Int, NEW d \in Positive, Is(a, n, d)
  PROVE  (a.num > 0 <=> n > 0) /\ (a.num = 0 <=> n = 0)
<1>1. a.num \in Int /\ a.den \in Positive
  BY DEF Fractions, Positive
<1>2. a.num * d = n * a.den
  BY DEF Is
<1>3. /\ a.num > 0 <=> a.num * d > 0
      /\ a.num = 0 <=> a.num * d = 0
  BY <1>1 DEF Positive
<1>4. /\ n > 0 <=> n * a.den > 0
      /\ n = 0 <=> n * a.den = 0
  BY <1>1 DEF Positive
<1> QED BY <1>2, <1>3, <1>4

-----------------------------------------------------------------------------
(* The books                                                                *)

\* Average and profit are avg / d and pnl / d, and profit plus the position at its
\* average is the cash.
Balance(p, l, avg, pnl, d) ==
  /\ Is(p.avg, avg, d) /\ Is(p.pnl, pnl, d)
  /\ pnl = l.cash * d + avg * p.qty

Balanced(p, l) ==
  /\ p \in [qty : Int, avg : Fractions, pnl : Fractions]
  /\ l \in [qty : Int, cash : Int]
  /\ Lowest(p.avg) /\ Lowest(p.pnl)
  /\ p.qty = l.qty
  /\ \E d \in Positive, avg, pnl \in Int : Balance(p, l, avg, pnl, d)
  /\ p.qty = 0 => p.avg = Whole(0)
  /\ p.qty # 0 => p.avg.num > 0

LEMMA AbsType == \A n \in Int : Abs(n) \in Nat /\ (n # 0 => Abs(n) \in Positive)
BY DEF Abs, Positive

\* The algebra of an average that is rolled: with the position at (avg * |q| +
\* price * |s|) / T it still makes up for the cash.
Rolled(avg, pnl, d, cash, q, s, price, T) ==
  pnl * T = (cash - s * price) * (d * T) + (avg * Abs(q) + (price * Abs(s)) * d) * (q + s)

LEMMA RolledAverage ==
  ASSUME NEW A \in Int, NEW P \in Int, NEW d \in Int, NEW c \in Int, NEW q \in Int,
         NEW s \in Int, NEW x \in Int, P = c * d + A * q,
         (q >= 0 /\ s >= 0) \/ (q <= 0 /\ s <= 0), NEW T, T = Abs(q) + Abs(s)
  PROVE  Rolled(A, P, d, c, q, s, x, T)
<1>1. ASSUME NEW e \in {1, -1}, Abs(q) = e * q, Abs(s) = e * s
      PROVE  P * T = (c - s * x) * (d * T) + (A * Abs(q) + (x * Abs(s)) * d) * (q + s)
  <2>1. T \in Int /\ T = e * (q + s)
    BY <1>1
  <2>2. (A * Abs(q) + (x * Abs(s)) * d) * (q + s) = (A * q + (x * s) * d) * T
    BY <1>1, <2>1
  <2>3. (c - s * x) * (d * T) = (c * d - (x * s) * d) * T
    BY <2>1
  <2>4. (c * d - (x * s) * d) * T + (A * q + (x * s) * d) * T = (c * d + A * q) * T
    BY <2>1
  <2> QED BY <2>2, <2>3, <2>4
<1>2. CASE q >= 0 /\ s >= 0
  <2>1. Abs(q) = 1 * q /\ Abs(s) = 1 * s
    BY <1>2 DEF Abs
  <2> QED BY <1>1, <2>1 DEF Rolled
<1>3. CASE q <= 0 /\ s <= 0
  <2>1. Abs(q) = (-1) * q /\ Abs(s) = (-1) * s
    BY <1>3 DEF Abs
  <2>2. -1 \in {1, -1}
    OBVIOUS
  <2> QED BY <1>1, <2>1, <2>2 DEF Rolled
<1> QED BY <1>2, <1>3

\* A fill that opens or adds.
LEMMA AddBalances ==
  ASSUME NEW p, NEW l, Balanced(p, l), NEW s \in Int, s # 0, NEW x \in Positive,
         SameDirection(p, s)
  PROVE  Balanced(Add(p, s, x), [qty |-> l.qty + s, cash |-> l.cash - s * x])
<1> DEFINE q == p.qty
           T == Abs(q) + Abs(s)
           m == [qty |-> l.qty + s, cash |-> l.cash - s * x]
           rolled == Plus(Times(p.avg, Abs(q)), Whole(x * Abs(s)))
           r == Add(p, s, x)
<1>1. /\ q \in Int /\ p.avg \in Fractions /\ p.pnl \in Fractions /\ l.cash \in Int
      /\ l.qty \in Int /\ Lowest(p.avg) /\ Lowest(p.pnl) /\ q = l.qty
      /\ p = [qty |-> q, avg |-> p.avg, pnl |-> p.pnl] /\ x \in Int /\ x > 0
  BY DEF Balanced, Positive
<1>2. PICK d \in Positive, A \in Int, P \in Int : Balance(p, l, A, P, d)
  BY DEF Balanced
<1>3. Is(p.avg, A, d) /\ Is(p.pnl, P, d) /\ P = l.cash * d + A * q
  BY <1>2 DEF Balance
<1>4. (q >= 0 /\ s >= 0) \/ (q <= 0 /\ s <= 0)
  BY DEF SameDirection
<1>5. Abs(q) \in Nat /\ Abs(s) \in Positive /\ Abs(q) \in Int /\ Abs(s) \in Int
  BY <1>1, AbsType DEF Positive
<1>6. T \in Positive /\ q + s \in Int /\ q + s # 0
  BY <1>1, <1>4, <1>5 DEF Positive
<1>7. r = [qty |-> q + s, avg |-> Over(rolled, T), pnl |-> p.pnl]
  <2>1. r = [p EXCEPT !.qty = @ + s, !.avg = Over(rolled, T)]
    BY DEF Add
  <2> HIDE DEF rolled, T, r
  <2>2. p \in [qty : Int, avg : Fractions, pnl : Fractions]
    BY DEF Balanced
  <2> QED BY <2>1, <2>2
<1> DEFINE B == A * Abs(q) + (x * Abs(s)) * d
<1>8. Lowest(rolled) /\ Is(rolled, B, d) /\ B \in Int
  <2>1. Lowest(Times(p.avg, Abs(q))) /\ Is(Times(p.avg, Abs(q)), A * Abs(q), d)
    BY <1>1, <1>3, <1>5, TimesIs
  <2>2. x * Abs(s) \in Int
    BY <1>1, <1>5
  <2>3. Whole(x * Abs(s)) \in Fractions /\ Is(Whole(x * Abs(s)), (x * Abs(s)) * d, d)
    BY <2>2, WholeIs
  <2>4. A * Abs(q) \in Int /\ (x * Abs(s)) * d \in Int
    BY <1>5, <2>2 DEF Positive
  <2>5. Times(p.avg, Abs(q)) \in Fractions
    BY <2>1 DEF Lowest
  <2> QED BY <2>1, <2>3, <2>4, <2>5, PlusIs
<1>9. Lowest(Over(rolled, T)) /\ Is(Over(rolled, T), B, d * T)
  <2>1. rolled \in Fractions
    BY <1>8 DEF Lowest
  <2> HIDE DEF rolled, B, T
  <2> QED BY <1>6, <1>8, <2>1, OverIs
<1>10. d * T \in Positive /\ P * T \in Int /\ d \in Int /\ T \in Int
  BY <1>6, ProductOfPositives DEF Positive
<1>11. Is(p.pnl, P * T, d * T)
  <2>1. P * (d * T) = (P * T) * d
    BY <1>10
  <2> QED BY <1>1, <1>3, <1>10, <2>1, SameNumber
<1>12. P * T = m.cash * (d * T) + B * (q + s)
  <2>1. T = Abs(q) + Abs(s) /\ P = l.cash * d + A * q
    BY <1>3
  <2>2. Rolled(A, P, d, l.cash, q, s, x, T)
    <3> HIDE DEF q, T
    <3> QED BY <1>1, <1>4, <1>10, <2>1, RolledAverage
  <2> QED BY <2>2 DEF Rolled
<1>13. B > 0
  <2>1. x * Abs(s) \in Positive
    BY <1>5, ProductOfPositives
  <2>2. (x * Abs(s)) * d \in Positive
    BY <2>1, ProductOfPositives
  <2>3. A * Abs(q) >= 0
    <3>1. CASE q = 0
      <4>1. Abs(q) = 0
        BY <3>1 DEF Abs
      <4> QED BY <4>1
    <3>2. CASE q # 0
      <4>1. p.avg.num > 0
        BY <3>2 DEF Balanced
      <4>2. A > 0
        BY <1>1, <1>3, <4>1, SameSign
      <4>3. A \in Nat
        BY <4>2
      <4> QED BY <1>5, <4>3
    <3> QED BY <3>1, <3>2
  <2>4. A * Abs(q) \in Int
    BY <1>5
  <2> QED BY <2>2, <2>3, <2>4 DEF Positive
<1> HIDE DEF B, T, rolled
<1>14. Over(rolled, T).num > 0
  <2>1. Over(rolled, T) \in Fractions
    BY <1>9 DEF Lowest
  <2> QED BY <1>8, <1>9, <1>10, <1>13, <2>1, SameSign
<1>15. r \in [qty : Int, avg : Fractions, pnl : Fractions]
  BY <1>1, <1>6, <1>7, <1>9 DEF Lowest
<1>16. m \in [qty : Int, cash : Int]
  BY <1>1
<1>17. r.avg = Over(rolled, T) /\ r.pnl = p.pnl /\ r.qty = q + s /\ m.qty = q + s
  BY <1>1, <1>7
<1> HIDE DEF r, m
<1>18. Balance(r, m, B, P * T, d * T)
  BY <1>9, <1>11, <1>12, <1>17 DEF Balance
<1>19. Balanced(r, m)
  BY <1>1, <1>6, <1>8, <1>9, <1>10, <1>14, <1>15, <1>16, <1>17, <1>18 DEF Balanced
<1> QED BY <1>19 DEF r, m

\* The algebra of a reduction: z of the q at hand is closed at the price, and what
\* is left stands at newAvg.
Closed(avg, pnl, d, cash, q, s, price, z, newAvg) ==
  pnl + (price * d - avg) * z = (cash - s * price) * d + newAvg * (q + s)

LEMMA ClosedFor ==
  ASSUME NEW A \in Int, NEW P \in Int, NEW d \in Int, NEW c \in Int, NEW q \in Int,
         NEW s \in Int, NEW x \in Int, P = c * d + A * q, NEW z \in Int, NEW B \in Int,
         \/ z = q /\ B = x * d
         \/ z = -s /\ B = A
         \/ z = q /\ q + s = 0 /\ B = 0
  PROVE  Closed(A, P, d, c, q, s, x, z, B)
<1>1. CASE z = q /\ B = x * d
  <2>1. P + (x * d - A) * q = c * d + (x * d) * q
    OBVIOUS
  <2>2. (c - s * x) * d + (x * d) * (q + s) = c * d + (x * d) * q
    OBVIOUS
  <2> QED BY <1>1, <2>1, <2>2 DEF Closed
<1>2. CASE z = -s /\ B = A
  <2>1. P + (x * d - A) * (-s) = (c - s * x) * d + A * (q + s)
    OBVIOUS
  <2> QED BY <1>2, <2>1 DEF Closed
<1>3. CASE z = q /\ q + s = 0 /\ B = 0
  <2>1. s = -q
    BY <1>3
  <2>2. P + (x * d - A) * q = c * d + (x * d) * q
    OBVIOUS
  <2>3. (c - (-q) * x) * d = c * d + (x * d) * q
    OBVIOUS
  <2>4. 0 * (q + s) = 0
    BY <2>1
  <2> QED BY <1>3, <2>1, <2>2, <2>3, <2>4 DEF Closed
<1> QED BY <1>1, <1>2, <1>3

\* What is booked: the closed part times the profit of one.
Booking(p, s, x) ==
  LET closing == IF Abs(s) > Abs(p.qty) THEN Abs(p.qty) ELSE Abs(s)
      perUnit == IF p.qty < 0 THEN Minus(p.avg, Whole(x)) ELSE Minus(Whole(x), p.avg)
  IN  Times(perUnit, closing)

LEMMA BookingIs ==
  ASSUME NEW p, p.qty \in Int, p.avg \in Fractions, NEW s \in Int, NEW x \in Int,
         NEW A \in Int, NEW d \in Positive, Is(p.avg, A, d),
         (p.qty > 0 /\ s < 0) \/ (p.qty < 0 /\ s > 0),
         NEW z, z = IF Abs(s) > Abs(p.qty) THEN p.qty ELSE -s
  PROVE  Lowest(Booking(p, s, x)) /\ Is(Booking(p, s, x), (x * d - A) * z, d)
<1> DEFINE closing == IF Abs(s) > Abs(p.qty) THEN Abs(p.qty) ELSE Abs(s)
           perUnit == IF p.qty < 0 THEN Minus(p.avg, Whole(x)) ELSE Minus(Whole(x), p.avg)
<1>1. Whole(x) \in Fractions /\ Is(Whole(x), x * d, d) /\ x * d \in Int
  <2>1. Whole(x) \in Fractions /\ Is(Whole(x), x * d, d)
    BY WholeIs
  <2>2. x * d \in Int
    BY DEF Positive
  <2> QED BY <2>1, <2>2
<1>2. closing \in Int /\ z \in Int
  BY AbsType
<1>3. Booking(p, s, x) = Times(perUnit, closing)
  BY DEF Booking
<1>4. CASE p.qty < 0
  <2>1. perUnit = Minus(p.avg, Whole(x))
    BY <1>4
  <2>2. z = -closing
    BY <1>4 DEF Abs
  <2> HIDE DEF perUnit, closing
  <2>3. Lowest(perUnit) /\ Is(perUnit, A - x * d, d)
    BY <1>1, <2>1, MinusIs
  <2>4. perUnit \in Fractions /\ A - x * d \in Int
    BY <1>1, <2>3 DEF Lowest
  <2>5. Lowest(Times(perUnit, closing)) /\ Is(Times(perUnit, closing), (A - x * d) * closing, d)
    BY <1>2, <2>3, <2>4, TimesIs
  <2>6. (A - x * d) * closing = (x * d - A) * z
    <3>1. \A y, n \in Int : (A - y) * n = (y - A) * (-n)
      OBVIOUS
    <3> QED BY <1>1, <1>2, <2>2, <3>1
  <2> QED BY <1>3, <2>5, <2>6
<1>5. CASE p.qty > 0
  <2>1. perUnit = Minus(Whole(x), p.avg)
    BY <1>5
  <2>2. z = closing
    BY <1>5 DEF Abs
  <2> HIDE DEF perUnit, closing
  <2>3. Lowest(perUnit) /\ Is(perUnit, x * d - A, d)
    BY <1>1, <2>1, MinusIs
  <2>4. perUnit \in Fractions /\ x * d - A \in Int
    BY <1>1, <2>3 DEF Lowest
  <2>5. Lowest(Times(perUnit, closing)) /\ Is(Times(perUnit, closing), (x * d - A) * closing, d)
    BY <1>2, <2>3, <2>4, TimesIs
  <2> QED BY <1>3, <2>2, <2>5
<1> QED BY <1>4, <1>5

\* A fill that reduces, ends flat or flips.
LEMMA ReduceBalances ==
  ASSUME NEW p, NEW l, Balanced(p, l), NEW s \in Int, s # 0, NEW x \in Positive,
         p.qty # 0, ~SameDirection(p, s)
  PROVE  Balanced(Reduce(p, s, x), [qty |-> l.qty + s, cash |-> l.cash - s * x])
<1> DEFINE q == p.qty
           left == q + s
           m == [qty |-> l.qty + s, cash |-> l.cash - s * x]
           z == IF Abs(s) > Abs(q) THEN q ELSE -s
           newAvg == AvgAfter(p, left, x)
           newPnl == Plus(p.pnl, Booking(p, s, x))
           r == Reduce(p, s, x)
<1>1. /\ q \in Int /\ p.avg \in Fractions /\ p.pnl \in Fractions /\ l.cash \in Int
      /\ l.qty \in Int /\ Lowest(p.avg) /\ Lowest(p.pnl) /\ q = l.qty /\ x \in Int /\ x > 0
  BY DEF Balanced, Positive
<1>2. PICK d \in Positive, A \in Int, P \in Int : Balance(p, l, A, P, d)
  BY DEF Balanced
<1>3. Is(p.avg, A, d) /\ Is(p.pnl, P, d) /\ P = l.cash * d + A * q /\ d \in Int
  BY <1>2 DEF Balance, Positive
<1>4. (q > 0 /\ s < 0) \/ (q < 0 /\ s > 0)
  BY <1>1 DEF SameDirection
<1>5. r = [qty |-> left, avg |-> newAvg, pnl |-> newPnl]
  BY DEF Reduce, Booking
<1>6. z \in Int /\ left \in Int
  BY <1>1
<1>7. Lowest(Booking(p, s, x)) /\ Is(Booking(p, s, x), (x * d - A) * z, d)
  BY <1>1, <1>3, <1>4, BookingIs
<1> DEFINE Q == P + (x * d - A) * z
<1>8. Lowest(newPnl) /\ Is(newPnl, Q, d) /\ Q \in Int
  <2>1. Booking(p, s, x) \in Fractions /\ (x * d - A) * z \in Int
    BY <1>1, <1>3, <1>6, <1>7 DEF Lowest
  <2> HIDE DEF z
  <2> QED BY <1>1, <1>3, <1>7, <2>1, PlusIs
<1>9. /\ Whole(x) \in Fractions /\ Lowest(Whole(x)) /\ Is(Whole(x), x * d, d)
      /\ Whole(0) \in Fractions /\ Lowest(Whole(0)) /\ Is(Whole(0), 0 * d, d)
      /\ 0 * d = 0 /\ x * d \in Int
  <2>1. Whole(x) \in Fractions /\ Lowest(Whole(x)) /\ Is(Whole(x), x * d, d)
    BY <1>1, WholeIs
  <2>2. Whole(0) \in Fractions /\ Lowest(Whole(0)) /\ Is(Whole(0), 0 * d, d)
    BY WholeIs
  <2> QED BY <1>1, <1>3, <2>1, <2>2
<1>10. /\ Lowest(newAvg)
       /\ \E B \in Int : Is(newAvg, B, d) /\ Closed(A, P, d, l.cash, q, s, x, z, B)
       /\ left = 0 => newAvg = Whole(0)
       /\ left # 0 => newAvg.num > 0
  <2>1. CASE left = 0
    <3>1. newAvg = Whole(0)
      BY <2>1 DEF AvgAfter
    <3>2. z = q
      BY <1>1, <1>4, <2>1 DEF Abs
    <3> HIDE DEF q, newAvg, z
    <3>3. Closed(A, P, d, l.cash, q, s, x, z, 0)
      BY <1>1, <1>3, <1>6, <2>1, <3>2, ClosedFor
    <3> QED BY <1>9, <2>1, <3>1, <3>3
  <2>2. CASE left # 0 /\ (q > 0) # (left > 0)
    <3>1. newAvg = Whole(x)
      BY <2>2 DEF AvgAfter
    <3>2. z = q
      BY <1>1, <1>4, <2>2 DEF Abs
    <3>3. Whole(x).num > 0
      BY <1>1 DEF Whole
    <3> HIDE DEF q, newAvg, z
    <3>4. Closed(A, P, d, l.cash, q, s, x, z, x * d)
      BY <1>1, <1>3, <1>6, <1>9, <3>2, ClosedFor
    <3> QED BY <1>9, <2>2, <3>1, <3>3, <3>4
  <2>3. CASE left # 0 /\ (q > 0) = (left > 0)
    <3>1. newAvg = p.avg
      BY <2>3 DEF AvgAfter
    <3>2. z = -s
      BY <1>1, <1>4, <2>3 DEF Abs
    <3>3. p.avg.num > 0
      BY DEF Balanced
    <3> HIDE DEF q, newAvg, z
    <3>4. Closed(A, P, d, l.cash, q, s, x, z, A)
      BY <1>1, <1>3, <1>6, <3>2, ClosedFor
    <3> QED BY <1>1, <1>3, <2>3, <3>1, <3>3, <3>4
  <2> QED BY <2>1, <2>2, <2>3
<1>11. PICK B \in Int : Is(newAvg, B, d) /\ Closed(A, P, d, l.cash, q, s, x, z, B)
  BY <1>10
<1>12. Q = m.cash * d + B * left
  BY <1>11 DEF Closed
<1> HIDE DEF Q, newAvg, newPnl
<1>13. /\ r \in [qty : Int, avg : Fractions, pnl : Fractions] /\ m \in [qty : Int, cash : Int]
       /\ r.qty = left /\ r.avg = newAvg /\ r.pnl = newPnl /\ m.qty = left
  BY <1>1, <1>5, <1>6, <1>8, <1>10 DEF Lowest
<1> HIDE DEF r, m
<1>14. Balance(r, m, B, Q, d)
  BY <1>8, <1>11, <1>12, <1>13 DEF Balance
<1> HIDE DEF left
<1>15. Balanced(r, m)
  BY <1>8, <1>10, <1>13, <1>14 DEF Balanced
<1> QED BY <1>15 DEF r, m

-----------------------------------------------------------------------------
(* The books stay balanced                                                  *)

LEMMA FlatBalances == Balanced(Flat, [qty |-> 0, cash |-> 0])
<1> DEFINE l == [qty |-> 0, cash |-> 0]
<1>1. Whole(0) \in Fractions /\ Lowest(Whole(0)) /\ 1 \in Positive /\ Is(Whole(0), 0 * 1, 1)
  BY WholeIs DEF Positive
<1>2. /\ Flat \in [qty : Int, avg : Fractions, pnl : Fractions] /\ l \in [qty : Int, cash : Int]
      /\ Flat.qty = 0 /\ Flat.avg = Whole(0) /\ Flat.pnl = Whole(0) /\ l.qty = 0 /\ l.cash = 0
  BY <1>1 DEF Flat
<1> HIDE DEF l
<1>3. Balance(Flat, l, 0, 0, 1)
  BY <1>1, <1>2 DEF Balance
<1>4. Balanced(Flat, l)
  BY <1>1, <1>2, <1>3 DEF Balanced
<1> QED BY <1>4 DEF l

LEMMA SeedBalances ==
  ASSUME NEW qty \in Int, NEW avg \in Nat, qty = 0 <=> avg = 0
  PROVE  Balanced([qty |-> qty, avg |-> Whole(avg), pnl |-> Whole(0)],
                  [qty |-> qty, cash |-> -(qty * avg)])
<1> DEFINE p == [qty |-> qty, avg |-> Whole(avg), pnl |-> Whole(0)]
           l == [qty |-> qty, cash |-> -(qty * avg)]
<1>1. /\ Whole(0) \in Fractions /\ Lowest(Whole(0)) /\ 1 \in Positive
      /\ Is(Whole(0), 0, 1)
  <2>1. Whole(0) \in Fractions /\ Lowest(Whole(0)) /\ 1 \in Positive /\ Is(Whole(0), 0 * 1, 1)
    BY WholeIs DEF Positive
  <2> QED BY <2>1
<1>2. Whole(avg) \in Fractions /\ Lowest(Whole(avg)) /\ Is(Whole(avg), avg, 1)
  <2>1. /\ Whole(avg) \in Fractions /\ Lowest(Whole(avg))
        /\ \A d \in Positive : Is(Whole(avg), avg * d, d)
    BY WholeIs
  <2>2. avg * 1 = avg
    OBVIOUS
  <2>3. Is(Whole(avg), avg * 1, 1)
    BY <1>1, <2>1
  <2> QED BY <2>1, <2>2, <2>3
<1>3. Whole(avg).num = avg
  BY DEF Whole
<1>4. -(qty * avg) \in Int /\ 0 = -(qty * avg) * 1 + avg * qty
  OBVIOUS
<1>5. /\ p \in [qty : Int, avg : Fractions, pnl : Fractions] /\ l \in [qty : Int, cash : Int]
      /\ p.qty = qty /\ p.avg = Whole(avg) /\ p.pnl = Whole(0)
      /\ l.qty = qty /\ l.cash = -(qty * avg)
  BY <1>1, <1>2, <1>4
<1> HIDE DEF p, l
<1>6. Balance(p, l, avg, 0, 1)
  BY <1>1, <1>2, <1>4, <1>5 DEF Balance
<1>7. Balanced(p, l)
  BY <1>1, <1>2, <1>3, <1>5, <1>6 DEF Balanced
<1> QED BY <1>7 DEF p, l

LEMMA FillBalances ==
  ASSUME NEW p, NEW l, Balanced(p, l), NEW s \in Int, s # 0, NEW x \in Positive
  PROVE  Balanced(AfterFill(p, s, x), [qty |-> l.qty + s, cash |-> l.cash - s * x])
<1>1. p.qty \in Int
  BY DEF Balanced
<1>2. p.qty = 0 => SameDirection(p, s)
  BY DEF SameDirection
<1>3. CASE SameDirection(p, s)
  BY <1>2, <1>3, AddBalances, Zenon DEF AfterFill
<1>4. CASE ~SameDirection(p, s)
  BY <1>2, <1>4, ReduceBalances, Zenon DEF AfterFill
<1> QED BY <1>3, <1>4

LEMMA ChangesBalance ==
  ASSUME Balanced(position, ledger), ApplyFill \/ Seed
  PROVE  Balanced(position', ledger')
<1>1. CASE ApplyFill
  <2>1. PICK side \in {"buy", "sell"}, qty \in Qtys, price \in Prices :
           IF qty <= 0
           THEN UNCHANGED <<position, ledger, version, copy, overlapped, watchVars>>
           ELSE Change("fill", AfterFill(position, Signed(side, qty), price),
                       [qty |-> ledger.qty + Signed(side, qty),
                        cash |-> ledger.cash - Signed(side, qty) * price])
    BY <1>1 DEF ApplyFill
  <2>2. qty \in Int /\ price \in Positive
    BY PricesPositive, QtysIntegers DEF Positive
  <2>3. CASE qty <= 0
    BY <2>1, <2>3
  <2>4. CASE ~(qty <= 0)
    <3> DEFINE s == Signed(side, qty)
    <3>1. s \in Int /\ s # 0
      BY <2>2, <2>4 DEF Signed
    <3>2. /\ position' = AfterFill(position, s, price)
          /\ ledger' = [qty |-> ledger.qty + s, cash |-> ledger.cash - s * price]
      BY <2>1, <2>4 DEF Change
    <3> HIDE DEF s
    <3> QED BY <2>2, <3>1, <3>2, FillBalances
  <2> QED BY <2>3, <2>4
<1>2. CASE Seed
  <2>1. PICK qty \in SeedQtys, avg \in Prices \cup {0} :
           /\ qty = 0 <=> avg = 0
           /\ Change("seed", [qty |-> qty, avg |-> Whole(avg), pnl |-> Whole(0)],
                     [qty |-> qty, cash |-> -(qty * avg)])
    BY <1>2 DEF Seed
  <2>2. qty \in Int /\ avg \in Nat
    BY PricesPositive, QtysIntegers
  <2>3. /\ position' = [qty |-> qty, avg |-> Whole(avg), pnl |-> Whole(0)]
        /\ ledger' = [qty |-> qty, cash |-> -(qty * avg)]
    BY <2>1 DEF Change
  <2> QED BY <2>1, <2>2, <2>3, SeedBalances
<1> QED BY <1>1, <1>2

LEMMA StepBalances ==
  Balanced(position, ledger) /\ [Next]_vars => Balanced(position, ledger)'
<1> SUFFICES ASSUME Balanced(position, ledger), [Next]_vars
             PROVE  Balanced(position', ledger')
  OBVIOUS
<1>1. CASE ApplyFill \/ Seed
  BY <1>1, ChangesBalance
<1>2. CASE \E m \in Mutators : FanOut(m)
  BY <1>2 DEF FanOut
<1>3. CASE \E w \in Watchers : Subscriber(w)
  BY <1>3 DEF Subscriber, Watch, Take, Leave, Close, posVars
<1>4. CASE UNCHANGED vars
  BY <1>4 DEF vars, posVars
<1> QED BY <1>1, <1>2, <1>3, <1>4 DEF Next

LEMMA AlwaysBalanced == Spec => []Balanced(position, ledger)
<1>1. Init => Balanced(position, ledger)
  BY FlatBalances DEF Init
<1> QED BY <1>1, StepBalances, PTL DEF Spec

LEMMA BalancedBooks == Balanced(position, ledger) => BooksBalance
<1> SUFFICES ASSUME Balanced(position, ledger) PROVE BooksBalance
  OBVIOUS
<1> DEFINE q == position.qty
           cash == ledger.cash
           worth == Plus(Whole(cash), Times(position.avg, q))
<1>1. /\ q \in Int /\ position.avg \in Fractions /\ position.pnl \in Fractions
      /\ cash \in Int /\ Lowest(position.avg) /\ Lowest(position.pnl) /\ q = ledger.qty
      /\ q = 0 => position.avg = Whole(0)
      /\ q # 0 => position.avg.num > 0
  BY DEF Balanced
<1>2. PICK d \in Positive, A \in Int, P \in Int : Balance(position, ledger, A, P, d)
  BY DEF Balanced
<1>3. Is(position.avg, A, d) /\ Is(position.pnl, P, d) /\ P = cash * d + A * q
  BY <1>2 DEF Balance
<1>4. cash * d \in Int /\ A * q \in Int
  BY <1>1 DEF Positive
<1> HIDE DEF q, cash
<1>5. Lowest(worth) /\ Is(worth, cash * d + A * q, d)
  <2>1. Whole(cash) \in Fractions /\ Is(Whole(cash), cash * d, d)
    BY <1>1, WholeIs
  <2>2. Lowest(Times(position.avg, q)) /\ Is(Times(position.avg, q), A * q, d)
    BY <1>1, <1>3, TimesIs
  <2>3. Times(position.avg, q) \in Fractions
    BY <2>2 DEF Lowest
  <2> QED BY <1>4, <2>1, <2>2, <2>3, PlusIs
<1>6. position.pnl = worth
  <2> HIDE DEF worth
  <2> QED BY <1>1, <1>3, <1>5, LowestIsOne
<1> QED BY <1>1, <1>6 DEF BooksBalance, q, cash

\* Any sequence of fills and seeds leaves the books balanced, for any prices and
\* quantities: realized profit and the position at its average entry price make up
\* for the cash that was paid and received, and a flat position has no average
\* (forts/account.go:72-135).
THEOREM BooksStayBalanced == Spec => []BooksBalance
BY AlwaysBalanced, BalancedBooks, PTL

-----------------------------------------------------------------------------
(* The channels hold what they can                                          *)

Channels ==
  /\ queued \in [Watchers -> Seq(1..version)] /\ joined \in [Watchers -> 0..version]
  /\ taken \in [Watchers -> Nat]
  /\ \A w \in Watchers : taken[w] <= Len(queued[w]) /\ Len(queued[w]) - taken[w] <= Cap

LEMMA ChannelsInit == Init => Channels
<1> SUFFICES ASSUME Init PROVE Channels
  OBVIOUS
<1>1. version = 0 /\ <<>> \in Seq(1..0) /\ Len(<<>>) = 0
  BY DEF Init
<1>2. /\ queued = [w \in Watchers |-> <<>>] /\ taken = [w \in Watchers |-> 0]
      /\ joined = [w \in Watchers |-> 0]
  BY DEF Init
<1>3. queued \in [Watchers -> Seq(1..version)] /\ joined \in [Watchers -> 0..version]
  BY <1>1, <1>2
<1> QED BY <1>1, <1>2, <1>3, CapNatural DEF Channels

\* A new version makes no difference to what is queued.
LEMMA ChannelsChange ==
  ASSUME Shape, Channels, version' = version \/ version' = version + 1,
         UNCHANGED <<queued, taken, joined>>
  PROVE  Channels'
<1>1. version \in Nat /\ 1..version \subseteq 1..version' /\ 0..version \subseteq 0..version'
  BY DEF Shape
<1>2. Seq(1..version) \subseteq Seq(1..version')
  BY <1>1
<1>3. queued' \in [Watchers -> Seq(1..version')] /\ joined' \in [Watchers -> 0..version']
  BY <1>1, <1>2 DEF Channels
<1> QED BY <1>3 DEF Channels

LEMMA ChannelsFanOut ==
  ASSUME Shape, Channels, NEW who \in Mutators, FanOut(who)
  PROVE  Channels'
<1>1. /\ queued' = [w \in Watchers |->
                      IF w \in Reached THEN Append(queued[w], copy[who]) ELSE queued[w]]
      /\ UNCHANGED <<version, taken, joined>>
      /\ copy[who] # 0
  BY DEF FanOut
<1>2. copy[who] \in 1..version
  BY <1>1 DEF Shape
<1>3. ASSUME NEW w \in Watchers
      PROVE  /\ queued'[w] \in Seq(1..version)
             /\ taken[w] <= Len(queued'[w]) /\ Len(queued'[w]) - taken[w] <= Cap
  <2>1. queued[w] \in Seq(1..version) /\ taken[w] \in Nat
        /\ taken[w] <= Len(queued[w]) /\ Len(queued[w]) - taken[w] <= Cap
    BY DEF Channels
  <2>2. CASE w \in Reached
    <3>1. ~(Len(queued[w]) - taken[w] >= Cap)
      BY <2>2 DEF Reached, Full
    <3>2. queued'[w] = Append(queued[w], copy[who])
      BY <1>1, <2>2
    <3>3. queued'[w] \in Seq(1..version) /\ Len(queued'[w]) = Len(queued[w]) + 1
      BY <1>2, <2>1, <3>2
    <3> QED BY <2>1, <3>1, <3>3, CapNatural
  <2>3. CASE w \notin Reached
    BY <1>1, <2>1, <2>3
  <2> QED BY <2>2, <2>3
<1>4. queued' \in [Watchers -> Seq(1..version)]
  BY <1>1, <1>3
<1> QED BY <1>1, <1>3, <1>4 DEF Channels

LEMMA ChannelsSubscriber ==
  ASSUME Shape, Channels, NEW w \in Watchers, Subscriber(w)
  PROVE  Channels'
<1>1. CASE Watch(w)
  BY <1>1 DEF Watch, posVars, Shape, Channels
<1>2. CASE Take(w)
  <2>1. taken' = [taken EXCEPT ![w] = @ + 1] /\ UNCHANGED <<queued, version, joined>>
        /\ taken[w] < Len(queued[w])
    BY <1>2 DEF Take, posVars
  <2>2. ASSUME NEW u \in Watchers
        PROVE  /\ taken'[u] \in Nat /\ taken'[u] <= Len(queued[u])
               /\ Len(queued[u]) - taken'[u] <= Cap
    <3>1. taken[u] \in Nat /\ Len(queued[u]) \in Nat /\ taken[u] <= Len(queued[u])
          /\ Len(queued[u]) - taken[u] <= Cap
      BY DEF Channels
    <3>2. taken'[u] = IF u = w THEN taken[u] + 1 ELSE taken[u]
      BY <2>1 DEF Channels
    <3> QED BY <2>1, <3>1, <3>2, CapNatural
  <2>3. taken' \in [Watchers -> Nat]
    BY <2>1, <2>2 DEF Channels
  <2> QED BY <2>1, <2>2, <2>3 DEF Channels
<1>3. CASE Leave(w) \/ Close(w)
  BY <1>3 DEF Leave, Close, posVars, Channels
<1> QED BY <1>1, <1>2, <1>3 DEF Subscriber

LEMMA ChannelsStep == Shape /\ Channels /\ [Next]_vars => Channels'
<1> SUFFICES ASSUME Shape, Channels, [Next]_vars PROVE Channels'
  OBVIOUS
<1>1. CASE ApplyFill \/ Seed
  <2>1. /\ version' = version \/ version' = version + 1
        /\ UNCHANGED <<queued, taken, joined>>
    BY <1>1 DEF ApplyFill, Seed, Change, watchVars
  <2> QED BY <2>1, ChannelsChange
<1>2. CASE UNCHANGED vars
  BY <1>2 DEF vars, posVars, watchVars, Channels
<1> QED BY <1>1, <1>2, ChannelsFanOut, ChannelsSubscriber DEF Next

\* The tracker's state keeps its types, and no channel holds more than it has room for.
THEOREM TrackerTypes == Spec => []TypeOK
<1>1. Spec => []IInv
  BY SubscribersInvariance
<1>2. IInv => Shape
  BY DEF IInv
<1>3. Spec => []Channels
  BY <1>1, <1>2, ChannelsInit, ChannelsStep, PTL DEF Spec
<1>4. Shape /\ Channels /\ Balanced(position, ledger) => TypeOK
  <2> SUFFICES ASSUME Shape, Channels, Balanced(position, ledger) PROVE TypeOK
    OBVIOUS
  <2>1. /\ position \in [qty : Int, avg : Fractions, pnl : Fractions]
        /\ ledger \in [qty : Int, cash : Int]
    BY DEF Balanced
  <2>2. copy \in [Mutators -> 0..version]
    BY DEF Shape
  <2>3. overlapped \in BOOLEAN /\ missed \in [Watchers -> BOOLEAN]
    BY Zenon DEF Shape
  <2>4. listed \subseteq started /\ closed \subseteq started /\ started \subseteq Watchers
        /\ version \in Nat
    BY DEF Shape
  <2> QED BY <2>1, <2>2, <2>3, <2>4 DEF TypeOK, Channels
<1> QED BY <1>1, <1>2, <1>3, <1>4, AlwaysBalanced, PTL
=============================================================================
