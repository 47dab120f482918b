------------------------------- MODULE Positions -------------------------------
(***************************************************************************)
(* The position tracker of forts/account.go and its subscribers.           *)
(*                                                                         *)
(* Symbols never meet in the tracker, so the position is that of one       *)
(* symbol.  Fills come from the session's reader goroutine, seeds from the *)
(* user's; each changes the position under mu, copies it, and fans the     *)
(* copy out under watchMu only after mu is released.  A subscription is    *)
(* added, removed and closed by goroutines of its own.  The subscribers of *)
(* WatchOpenOrders (forts/trading.go:241-260, 335-345) are kept in the     *)
(* same way.                                                               *)
(*                                                                         *)
(* Prices are whole numbers and an average is an exact fraction; the code  *)
(* rounds the quotient to the sixteen digits of its decimal library.       *)
(***************************************************************************)
EXTENDS Integers, Sequences, FiniteSets

CONSTANTS Watchers,    \* subscriptions
          Prices,      \* prices of fills and seeds
          Qtys,        \* quantities of fills; what is not positive is ignored
          SeedQtys,    \* positions a caller may seed
          MaxFills, MaxSeeds,   \* bounds on fills and seeds
          Cap          \* capacity of a subscriber's channel (64 in the code)

ASSUME PricesPositive == Prices \subseteq Nat \ {0}
ASSUME QtysIntegers   == Qtys \subseteq Int /\ SeedQtys \subseteq Int
ASSUME CapNatural     == Cap \in Nat

Mutators == {"fill", "seed"}

VARIABLES position,   \* Quantity, AvgEntryPrice and RealizedPnL
          ledger,     \* history: what was traded since the last seed, and the cash
          version,    \* history: how often the position has changed
          copy,       \* the version each mutator has yet to fan out, 0 if none
          overlapped, \* history: a fill and a seed had a copy to fan out at once
          started,    \* the subscriptions that were made
          listed,     \* pt.watchers
          closed,     \* the channels that are closed
          queued,     \* history: the versions put into each channel
          taken,      \* how many of them the subscriber has taken
          missed,     \* history: an update was dropped for the subscriber
          joined,     \* history: the version at which it was listed
          fills, seeds   \* uses of the bounds

posVars   == <<position, ledger, version, copy, overlapped, fills, seeds>>
watchVars == <<started, listed, closed, queued, taken, missed, joined>>
vars      == <<posVars, watchVars>>

-----------------------------------------------------------------------------
(* Fractions in lowest terms                                                *)

Abs(n) == IF n < 0 THEN -n ELSE n

Frac(n, d) ==
  LET g == CHOOSE k \in 1..d : /\ n % k = 0 /\ d % k = 0
                               /\ \A j \in (k + 1)..d : ~(n % j = 0 /\ d % j = 0)
  IN  [num |-> n \div g, den |-> d \div g]

Whole(n)    == [num |-> n, den |-> 1]
Plus(a, b)  == Frac(a.num * b.den + b.num * a.den, a.den * b.den)
Times(a, n) == Frac(a.num * n, a.den)
Over(a, n)  == Frac(a.num, a.den * n)
Minus(a, b) == Plus(a, Times(b, -1))

-----------------------------------------------------------------------------
(* ApplyFill: the position after a fill of a positive quantity              *)

Flat == [qty |-> 0, avg |-> Whole(0), pnl |-> Whole(0)]

Signed(side, qty) == IF side = "sell" THEN -qty ELSE qty

\* Opening or adding: the average entry price is rolled.
Add(p, signed, price) ==
  LET total == Abs(p.qty) + Abs(signed)
  IN  [p EXCEPT !.qty = @ + signed,
                !.avg = Over(Plus(Times(@, Abs(p.qty)), Whole(price * Abs(signed))), total)]

\* Mutant: any reduction that does not end flat moves the average to the fill.
AvgBySide(p, left, price) == IF left = 0 THEN Whole(0) ELSE Whole(price)

\* The average after a reduction: none when flat, the fill's price when the
\* position has changed sides.
AvgAfter(p, left, price) ==
  IF left = 0 THEN Whole(0)
  ELSE IF (p.qty > 0) # (left > 0) THEN Whole(price)
  ELSE p.avg

\* Reducing or flipping: profit and loss is booked on the part that is closed.
Reduce(p, signed, price) ==
  LET closing == IF Abs(signed) > Abs(p.qty) THEN Abs(p.qty) ELSE Abs(signed)
      perUnit == IF p.qty < 0 THEN Minus(p.avg, Whole(price)) ELSE Minus(Whole(price), p.avg)
      left    == p.qty + signed
  IN  [qty |-> left, avg |-> AvgAfter(p, left, price), pnl |-> Plus(p.pnl, Times(perUnit, closing))]

SameDirection(p, signed) == (p.qty >= 0 /\ signed >= 0) \/ (p.qty <= 0 /\ signed <= 0)

AfterFill(p, signed, price) ==
  IF p.qty = 0 \/ SameDirection(p, signed) THEN Add(p, signed, price)
  ELSE Reduce(p, signed, price)

-----------------------------------------------------------------------------
(* The mutators                                                             *)

\* Under mu: the position is changed and copied.
Change(who, p, l) ==
  /\ copy[who] = 0
  /\ position' = p /\ ledger' = l
  /\ version' = version + 1
  /\ copy' = [copy EXCEPT ![who] = version + 1]
  /\ overlapped' = (overlapped \/ \E other \in Mutators \ {who} : copy[other] # 0)
  /\ UNCHANGED watchVars

ApplyFill ==
  /\ fills < MaxFills
  /\ fills' = fills + 1 /\ UNCHANGED seeds
  /\ \E side \in {"buy", "sell"}, qty \in Qtys, price \in Prices :
       LET signed == Signed(side, qty)
       IN  IF qty <= 0
           THEN UNCHANGED <<position, ledger, version, copy, overlapped, watchVars>>
           ELSE Change("fill", AfterFill(position, signed, price),
                       [qty |-> ledger.qty + signed, cash |-> ledger.cash - signed * price])

\* A position is seeded with its average price; a flat one has none.
Seed ==
  /\ seeds < MaxSeeds
  /\ seeds' = seeds + 1 /\ UNCHANGED fills
  /\ \E qty \in SeedQtys, avg \in Prices \cup {0} :
       /\ qty = 0 <=> avg = 0
       /\ Change("seed", [qty |-> qty, avg |-> Whole(avg), pnl |-> Whole(0)],
                 [qty |-> qty, cash |-> -(qty * avg)])

-----------------------------------------------------------------------------
(* The subscribers                                                          *)

\* Mutant: one update more than the channel holds.
FullWhenOver(w) == Len(queued[w]) - taken[w] > Cap

Full(w) == Len(queued[w]) - taken[w] >= Cap

\* Mutant: one slow subscriber ends the round for all of them.
UnlessAnyFull == IF \E w \in listed : Full(w) THEN {} ELSE listed

\* fanOut offers the update to every subscriber; a full channel misses it.
Reached == {w \in listed : ~Full(w)}

\* Under watchMu.
FanOut(who) ==
  /\ copy[who] # 0
  /\ queued' = [w \in Watchers |->
                  IF w \in Reached THEN Append(queued[w], copy[who]) ELSE queued[w]]
  /\ missed' = [w \in Watchers |-> missed[w] \/ (w \in listed /\ Full(w))]
  /\ copy' = [copy EXCEPT ![who] = 0]
  /\ UNCHANGED <<position, ledger, version, overlapped, fills, seeds, started, listed, closed, taken, joined>>

Watch(w) ==
  /\ w \notin started
  /\ started' = started \cup {w} /\ listed' = listed \cup {w}
  /\ joined' = [joined EXCEPT ![w] = version]
  /\ UNCHANGED <<posVars, closed, queued, taken, missed>>

Take(w) ==
  /\ taken[w] < Len(queued[w])
  /\ taken' = [taken EXCEPT ![w] = @ + 1]
  /\ UNCHANGED <<posVars, started, listed, closed, queued, missed, joined>>

\* The context is done: the channel is taken off the list under watchMu ...
Leave(w) ==
  /\ w \in listed
  /\ listed' = listed \ {w}
  /\ UNCHANGED <<posVars, started, closed, queued, taken, missed, joined>>

\* Mutant: the channel is closed without waiting for its removal.
CloseAtOnce(w) == w \in started

MayClose(w) == w \in started \ listed

\* ... and closed.
Close(w) ==
  /\ MayClose(w) /\ w \notin closed
  /\ closed' = closed \cup {w}
  /\ UNCHANGED <<posVars, started, listed, queued, taken, missed, joined>>

-----------------------------------------------------------------------------
Init ==
  /\ position = Flat /\ ledger = [qty |-> 0, cash |-> 0]
  /\ version = 0 /\ copy = [m \in Mutators |-> 0] /\ overlapped = FALSE
  /\ fills = 0 /\ seeds = 0
  /\ started = {} /\ listed = {} /\ closed = {}
  /\ queued = [w \in Watchers |-> <<>>]
  /\ taken = [w \in Watchers |-> 0] /\ missed = [w \in Watchers |-> FALSE]
  /\ joined = [w \in Watchers |-> 0]

Subscriber(w) == Watch(w) \/ Take(w) \/ Leave(w) \/ Close(w)

Next == ApplyFill \/ Seed \/ (\E m \in Mutators : FanOut(m)) \/ \E w \in Watchers : Subscriber(w)

Spec == Init /\ [][Next]_vars

-----------------------------------------------------------------------------
(* Properties                                                               *)

Fractions == [num : Int, den : Nat \ {0}]

TypeOK ==
  /\ position \in [qty : Int, avg : Fractions, pnl : Fractions]
  /\ ledger \in [qty : Int, cash : Int]
  /\ version \in Nat /\ copy \in [Mutators -> 0..version] /\ overlapped \in BOOLEAN
  /\ listed \subseteq started /\ closed \subseteq started /\ started \subseteq Watchers
  /\ queued \in [Watchers -> Seq(1..version)]
  /\ \A w \in Watchers : taken[w] <= Len(queued[w]) /\ Len(queued[w]) - taken[w] <= Cap
  /\ missed \in [Watchers -> BOOLEAN] /\ joined \in [Watchers -> 0..version]

\* The books balance after any sequence of fills and seeds, through every
\* opening, reduction and flip: the quantity is what was traded, realized profit
\* plus the position at its average entry price is the cash that was paid and
\* received, and a flat position has no average (types/position-info.go:34-35).
BooksBalance ==
  /\ position.qty = ledger.qty
  /\ position.pnl = Plus(Whole(ledger.cash), Times(position.avg, position.qty))
  /\ position.qty = 0 => position.avg = Whole(0)
  /\ position.qty # 0 => position.avg.num > 0

\* fanOut never sends on a closed channel, and nothing is put into a channel
\* once it is closed.
NeverOnClosed == [][\A w \in closed : queued'[w] = queued[w] /\ w \notin listed']_vars

\* A subscriber whose channel was never full has every change since it was
\* listed, whatever the others do, and has them in order unless a seed raced
\* with a fill.
EveryUpdateArrives ==
  \A w \in listed :
    /\ ~missed[w] /\ copy = [m \in Mutators |-> 0] =>
         \A v \in (joined[w] + 1)..version : \E i \in DOMAIN queued[w] : queued[w][i] = v
    /\ ~overlapped => \A i, j \in DOMAIN queued[w] : i < j => queued[w][i] < queued[w][j]
=============================================================================
