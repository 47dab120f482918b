---------------------------- MODULE MarketDataProofs ----------------------------
(***************************************************************************)
(* Proofs about the ISS client, for any number of calls, any positive rate *)
(* and any refresh interval, and about the users of it.                    *)
(*                                                                         *)
(* The throttle: what has been taken in excess of the rate, plus what the  *)
(* bucket would hold after a refill now, never exceeds a full bucket.  A   *)
(* request that takes a token moves it from the second to the first; a     *)
(* tick takes from the first at least what it adds to the second.  When a  *)
(* request is let through without a token, a tick's worth makes the token  *)
(* whole, so that whoever comes later finds one and takes it.              *)
(*                                                                         *)
(* The cookie: a call that talks to the passport server holds the mutex,   *)
(* and the cookie was old when it took it.                                 *)
(*                                                                         *)
(* MarketData uses the client as IssClient says: whatever its users ask    *)
(* for, their requests are calls of Get, and what is proved of the client  *)
(* holds for them.                                                         *)
(*                                                                         *)
(* The answers: AnswerOf says, stage by stage, what the answer a user has  *)
(* so far is worth.  It rests on what ScanInto leaves in the fields of a   *)
(* row, which is what the table holds there under the column's name        *)
(* whatever the order of the columns.                                      *)
(***************************************************************************)
EXTENDS MarketData, WellFoundedInduction, TLAPS

\* What was let through and what may still be let through fit into the bucket.
Metered == meter + Refilled <= Capacity

\* After a request that took no token the next tick completes the token.
Slipped ==
  Capacity >= Token =>
    /\ slip # "both"
    /\ slip = "now" => elapsed = 0 /\ tokens + Refill >= Token
    /\ slip = "earlier" => Refilled >= Token

\* At most one call is at the passport server, and the cookie is old while it is.
Exclusive ==
  \A c \in Calls : pc[c] = "passport" => authMu = {c} /\ since = Interval

IInv == TypeOK /\ Metered /\ Slipped /\ Exclusive

-----------------------------------------------------------------------------
\* What ticks add to the bucket.
LEMMA Products ==
  ASSUME NEW n \in Nat, NEW k \in Nat
  PROVE  /\ n * k \in Nat /\ k * n = n * k
         /\ (n + 1) * k = n * k + k /\ 0 * k = 0
         /\ \A m \in Nat : m <= n => m * k <= n * k
<1>1. n * k \in Nat /\ k * n = n * k /\ (n + 1) * k = n * k + k /\ 0 * k = 0
  OBVIOUS
<1>2. ASSUME NEW m \in Nat, m <= n PROVE m * k <= n * k
  <2>1. n - m \in Nat /\ (n - m) * k \in Nat
    BY <1>2
  <2>2. n * k = m * k + (n - m) * k /\ m * k \in Nat
    OBVIOUS
  <2> QED
    BY <2>1, <2>2, <1>1
<1> QED
  BY <1>1, <1>2

\* The refilled bucket is a number of units that fits.
LEMMA RefilledType ==
  ASSUME TypeOK
  PROVE  /\ Capacity \in Nat /\ elapsed * Refill \in Nat
         /\ Refilled \in 0..Capacity
<1>1. Capacity \in Nat /\ elapsed * Refill \in Nat
  BY UnitsPositive, Products DEF Capacity, TypeOK
<1> QED
  BY <1>1 DEF Refilled, TypeOK

-----------------------------------------------------------------------------
LEMMA Initially == Init => IInv
<1> SUFFICES ASSUME Init PROVE IInv
  OBVIOUS
<1>1. Capacity \in Nat /\ 0 * Refill = 0
  BY UnitsPositive, Products DEF Capacity
<1>2. TypeOK
  BY <1>1, UnitsPositive DEF Init, TypeOK
<1>3. Metered
  BY <1>1 DEF Init, Metered, Refilled
<1>4. Exclusive
  BY DEF Init, Exclusive
<1>5. Slipped
  BY DEF Init, Slipped
<1> QED
  BY <1>2, <1>3, <1>4, <1>5 DEF IInv

\* The steps that concern the limiter only.
LEMMA BucketSteps ==
  ASSUME IInv, NEW c \in Calls, TryAcquire(c)
  PROVE  IInv'
<1> USE DEF IInv
<1>1. Capacity \in Nat /\ Refilled \in 0..Capacity /\ 0 * Refill = 0 /\ Token \in Nat \ {0}
  BY RefilledType, UnitsPositive, Products
<1>2. meter \in Nat /\ meter + Refilled <= Capacity
  BY DEF TypeOK, Metered
<1>3. Exclusive'
  BY DEF TryAcquire, Exclusive, Goto, TypeOK
<1>4. elapsed' = 0 /\ elapsed' * Refill = 0
  BY <1>1 DEF TryAcquire, JustRefilled
<1>5. CASE Refilled >= Token
  <2>1. tokens' = Refilled - Token /\ meter' = meter + Token /\ slip' = "none"
    BY <1>1, <1>5 DEF TryAcquire
  <2>2. tokens' \in 0..Capacity /\ meter' \in Nat
    BY <1>1, <1>2, <1>5, <2>1
  <2>3. TypeOK'
    BY <1>1, <1>4, <1>5, <2>1, <2>2, UnitsPositive DEF TryAcquire, Goto, TypeOK, cfg, Capacity
  <2>4. Refilled' = tokens'
    BY <1>1, <1>4, <2>2 DEF Refilled, Capacity
  <2>5. Metered'
    BY <1>1, <1>2, <2>1, <2>2, <2>4 DEF Metered, Capacity
  <2>6. Slipped'
    BY <2>1 DEF Slipped, Capacity
  <2> QED
    BY <1>3, <2>3, <2>5, <2>6
<1>6. CASE Refilled < Token
  <2>0. /\ Refill \in Nat \ {0} /\ Token - Refilled \in Nat \ {0}
        /\ Deficit(Refilled) \in Nat
        /\ Deficit(Refilled) = 0 => Refilled + Refill > Token
    <3>1. Refill \in Nat \ {0} /\ Token - Refilled \in Nat \ {0}
      BY <1>1, <1>6, UnitsPositive
    <3> DEFINE d == Token - Refilled
    <3>2. d \div Refill \in Nat /\ (d \div Refill = 0 => d < Refill)
      <4> HIDE DEF d
      <4> QED BY <3>1 DEF d
    <3>3. Deficit(Refilled) = d \div Refill
      BY DEF Deficit
    <3> QED
      BY <1>1, <3>1, <3>2, <3>3
  <2>1. tokens' = Refilled /\ meter' = meter
    BY <1>1, <1>6 DEF TryAcquire
  <2>2. \/ Deficit(Refilled) = 0 /\ slip' = IF slip \in {"none", "now"} THEN "now" ELSE "both"
        \/ Deficit(Refilled) > 0 /\ slip' = slip
    BY <1>1, <1>6 DEF TryAcquire
  <2>3. TypeOK'
    BY <1>1, <1>4, <1>6, <2>0, <2>1, <2>2, UnitsPositive
    DEF TryAcquire, Goto, TypeOK, cfg, Capacity
  <2>4. Refilled' = tokens'
    BY <1>1, <1>4, <2>1 DEF Refilled, Capacity
  <2>5. Metered'
    BY <1>2, <2>1, <2>4 DEF Metered, Capacity
  <2>6. Slipped'
    <3> SUFFICES ASSUME Capacity >= Token PROVE Slipped'
      BY DEF Slipped, Capacity
    <3>1. slip \in {"none", "now"}
      BY <1>1, <1>6 DEF Slipped, TypeOK
    <3>2. slip = "now" => Refilled + Refill >= Token
      <4>1. CASE slip = "now"
        <5>1. elapsed = 0 /\ tokens + Refill >= Token /\ tokens \in 0..Capacity
          BY <4>1 DEF Slipped, TypeOK
        <5>2. Refilled = tokens
          BY <1>1, <5>1 DEF Refilled
        <5> QED BY <5>1, <5>2
      <4> QED BY <4>1
    <3>3. slip' = "now" => tokens' + Refill >= Token
      BY <1>1, <2>0, <2>1, <2>2, <3>2
    <3>4. slip' \in {"none", "now"}
      BY <2>2, <3>1
    <3> QED BY <1>4, <3>3, <3>4 DEF Slipped
  <2> QED
    BY <1>3, <2>3, <2>5, <2>6
<1> QED
  BY <1>1, <1>5, <1>6

LEMMA TickStep ==
  ASSUME IInv, Tick
  PROVE  IInv'
<1> USE DEF IInv
<1>1. /\ Capacity \in Nat /\ elapsed * Refill \in Nat /\ Refilled \in 0..Capacity
      /\ Refill \in Nat \ {0} /\ PerSecond \in Nat \ {0}
  BY RefilledType, UnitsPositive
<1>2. tokens \in 0..Capacity /\ elapsed \in 0..PerSecond /\ meter \in Nat
  BY DEF TypeOK
<1>3. meter + Refilled <= Capacity
  BY DEF Metered
<1>4. meter' \in Nat /\ tokens' = tokens
  BY <1>1, <1>2 DEF Tick
<1>5. TypeOK'
  BY <1>1, <1>2, <1>4, UnitsPositive DEF Tick, TypeOK, cfg, Capacity
<1>6. Exclusive'
  BY UnitsPositive DEF Tick, Exclusive
<1> DEFINE Added == tokens + elapsed' * Refill
<1>7. /\ elapsed' * Refill \in Nat
      /\ Refilled' = IF Added > Capacity THEN Capacity ELSE Added
      /\ Refilled' \in 0..Capacity
  <2>1. elapsed' \in Nat /\ elapsed' * Refill \in Nat
    BY <1>1, <1>2, Products DEF Tick
  <2>2. Refilled' = IF Added > Capacity THEN Capacity ELSE Added
    BY <1>4 DEF Refilled, Capacity
  <2>3. Added \in Nat
    <3>1. tokens \in Nat
      BY <1>1, <1>2
    <3>2. \A n, m \in Nat : n + m \in Nat
      OBVIOUS
    <3> QED
      BY <2>1, <3>1, <3>2, Zenon
  <2>4. Refilled' \in 0..Capacity
    <3> HIDE DEF Added
    <3> QED
      BY <1>1, <2>2, <2>3
  <2> QED
    BY <2>1, <2>2, <2>4
<1>7b. ASSUME Refilled' >= Refilled PROVE Slipped'
  <2> SUFFICES ASSUME Capacity >= Token PROVE Slipped'
    BY DEF Slipped, Capacity
  <2>1. slip # "both" /\ (slip = "earlier" => Refilled >= Token)
        /\ (slip = "now" => elapsed = 0 /\ tokens + Refill >= Token)
    BY DEF Slipped
  <2>2. slip' \in {"none", "earlier"}
    BY <2>1 DEF Tick, TypeOK
  <2>3. slip = "now" => Refilled' >= Token
    <3> SUFFICES ASSUME slip = "now" PROVE Refilled' >= Token
      OBVIOUS
    <3>1. elapsed = 0 /\ tokens + Refill >= Token
      BY <2>1
    <3>2. elapsed' = 1 /\ elapsed' * Refill = Refill
      BY <1>1, <3>1 DEF Tick
    <3>3. Added = tokens + Refill
      BY <3>2
    <3> HIDE DEF Added
    <3> QED BY <1>1, <1>2, <1>7, <3>1, <3>3, UnitsPositive
  <2>4. slip = "earlier" => Refilled' >= Token
    BY <1>1, <1>7, <1>7b, <2>1, UnitsPositive
  <2>5. slip' = "earlier" => slip \in {"now", "earlier"}
    BY DEF Tick, TypeOK
  <2> QED BY <2>2, <2>3, <2>4, <2>5 DEF Slipped
<1>8. CASE elapsed < PerSecond
  <2>1. elapsed' = elapsed + 1 /\ elapsed' * Refill = elapsed * Refill + Refill
    BY <1>1, <1>2, <1>8, Products DEF Tick
  <2>2. Refilled' <= Refilled + Refill
    BY <1>1, <1>2, <1>7, <2>1 DEF Refilled
  <2>3. meter' + Refilled' <= Capacity
    BY <1>1, <1>2, <1>3, <1>7, <2>2 DEF Tick
  <2>4. Refilled' >= Refilled
    BY <1>1, <1>2, <1>7, <2>1 DEF Refilled
  <2> QED
    BY <1>5, <1>6, <1>7b, <2>3, <2>4 DEF Metered, Capacity
<1>9. CASE elapsed = PerSecond
  <2>1. elapsed * Refill = Capacity
    BY <1>1, <1>2, <1>9, Products DEF Capacity
  <2>2. Refilled = Capacity
    BY <1>1, <1>2, <2>1 DEF Refilled
  <2>3. meter' = 0
    BY <1>1, <1>2, <1>3, <2>2 DEF Tick
  <2>4. meter' + Refilled' <= Capacity
    BY <1>1, <1>7, <2>3
  <2>5. elapsed' * Refill = elapsed * Refill
    BY <1>1, <1>9 DEF Tick
  <2>6. Refilled' >= Refilled
    BY <1>1, <1>2, <1>7, <2>5 DEF Refilled
  <2> QED
    BY <1>5, <1>6, <1>7b, <2>4, <2>6 DEF Metered, Capacity
<1> QED
  BY <1>1, <1>2, <1>8, <1>9

\* The steps that leave the bucket and the meter alone.
LEMMA OtherSteps ==
  ASSUME IInv, NEW c \in Calls,
         Start(c) \/ PassFreely(c) \/ GiveUp(c) \/ SkipLogin(c) \/ Enter(c) \/ Passport(c) \/ Finish(c)
  PROVE  IInv'
<1> USE DEF IInv
<1>1. UNCHANGED <<tokens, elapsed, meter, slip>>
  BY DEF Start, PassFreely, GiveUp, SkipLogin, Enter, Passport, Finish, bucketVars
<1>2. Metered' /\ Slipped'
  BY <1>1 DEF Metered, Slipped, Refilled, Capacity
<1>3. CASE Start(c) \/ PassFreely(c) \/ GiveUp(c) \/ SkipLogin(c) \/ Finish(c)
  BY <1>2, <1>3
  DEF Start, PassFreely, GiveUp, SkipLogin, Finish, Goto, Return, TypeOK, Exclusive, cfg,
      bucketVars, Capacity
<1>4. CASE Enter(c)
  <2>1. authMu = {} /\ pc' = [pc EXCEPT ![c] = pc'[c]] /\ UNCHANGED since
    BY <1>4 DEF Enter, Free, Goto, TypeOK
  <2>2. \A d \in Calls : pc[d] # "passport"
    BY <2>1 DEF Exclusive
  <2>3. Exclusive'
    BY <1>4, <2>1, <2>2 DEF Enter, Goto, Exclusive, TypeOK
  <2>4. TypeOK'
    BY <1>4 DEF Enter, Goto, TypeOK, cfg, bucketVars, Capacity
  <2> QED
    BY <1>2, <2>3, <2>4
<1>5. CASE Passport(c)
  <2>1. \A d \in Calls : d # c => pc[d] # "passport"
    BY <1>5 DEF Passport, Exclusive
  <2>2. Exclusive'
    BY <1>5, <2>1 DEF Passport, Goto, Exclusive, TypeOK
  <2>3. TypeOK'
    BY <1>5, UnitsPositive DEF Passport, Goto, TypeOK, cfg, bucketVars, Capacity, Unlocked
  <2> QED
    BY <1>2, <2>2, <2>3
<1> QED
  BY <1>3, <1>4, <1>5

LEMMA Preserved == IInv /\ [Next]_vars => IInv'
<1> SUFFICES ASSUME IInv, [Next]_vars PROVE IInv'
  OBVIOUS
<1>1. CASE Tick
  BY <1>1, TickStep
<1>2. ASSUME NEW c \in Calls, Start(c) \/ GiveUp(c) \/ Proceed(c) PROVE IInv'
  BY <1>2, BucketSteps, OtherSteps DEF Proceed, Travel
<1>3. CASE UNCHANGED vars
  BY <1>3
  DEF vars, cfg, bucketVars, IInv, TypeOK, Metered, Slipped, Refilled, Exclusive, Capacity
<1> QED
  BY <1>1, <1>2, <1>3 DEF Next

\* What the bucket holds and what was let through always fit into it, and the
\* mutex of auth.go guards the passport server.
THEOREM IssInvariance == Spec => []IInv
  BY Initially, Preserved, PTL DEF Spec

\* The bucket never holds more than a second's worth, nor less than nothing.
THEOREM IssTypes == Spec => []TypeOK
  BY IssInvariance, PTL DEF IInv

\* The throttle, as far as limiter.go keeps it, whatever the rate, however many calls
\* compete and however they interleave: the requests that take a token keep the rate,
\* and those that are let through without one come at one instant between two tokens.
THEOREM ThrottleHolds == Spec => []RateRespected
<1>1. IInv => RateRespected
  BY RefilledType DEF IInv, Metered, Slipped, RateRespected, TypeOK
<1> QED
  BY <1>1, IssInvariance, PTL

\* authMu (auth.go:42-47) keeps all but one of the calls that find the cookie old
\* from renewing it.
THEOREM CookieRenewedOnce == Spec => CookieKept
<1>1. IInv /\ [Next]_vars => [since' < since => since = Interval]_vars
  <2> SUFFICES ASSUME IInv, Next, since' < since PROVE since = Interval
    OBVIOUS
  <2>1. since \in Nat
    BY DEF IInv, TypeOK
  <2>2. ~Tick
    BY <2>1 DEF Tick
  <2>3. PICK c \in Calls : Start(c) \/ GiveUp(c) \/ Proceed(c)
    BY <2>2 DEF Next
  <2>4. Passport(c)
    BY <2>1, <2>3
    DEF Start, GiveUp, Proceed, Travel, PassFreely, TryAcquire, SkipLogin, Enter, Finish
  <2> QED
    BY <2>4 DEF Passport, IInv, Exclusive
<1> QED
  BY <1>1, IssInvariance, PTL DEF Spec, CookieKept

-----------------------------------------------------------------------------
(* The users of the client                                                  *)

\* A user's requests are two of the calls.
LEMMA Requests ==
  ASSUME NEW u \in Users
  PROVE  <<u, 1>> \in Calls /\ <<u, 2>> \in Calls
  BY TwoRequestsEach

\* A step of a user is a step of one of its requests, or none.
LEMMA UserStep ==
  ASSUME NEW u \in Users,
         Ask(u) \/ Unsupported(u) \/ ContextDone(u) \/ Definition(u) \/ Act(u)
  PROVE  [Next]_vars
<1>1. CASE Ask(u)
  BY <1>1, Requests DEF Ask, Next
<1>2. CASE Unsupported(u) \/ Definition(u) \/ LookUp(u) \/ StopListening(u)
  BY <1>2 DEF Unsupported, Definition, LookUp, StopListening
<1>3. CASE ContextDone(u)
  BY <1>3, Requests DEF ContextDone, Next
<1>4. CASE ListingAnswered(u)
  BY <1>4, Requests DEF ListingAnswered, Next, Proceed
<1>5. CASE AskCandles(u)
  BY <1>5, Requests DEF AskCandles, Next
<1>6. CASE CandlesAnswered(u)
  BY <1>6, Requests DEF CandlesAnswered, Next, Proceed
<1> QED
  BY <1>1, <1>2, <1>3, <1>4, <1>5, <1>6 DEF Act

LEMMA MarketStep == [MarketNext]_allVars => [Next]_vars
<1> SUFFICES ASSUME [MarketNext]_allVars PROVE [Next]_vars
  OBVIOUS
<1>1. CASE Tick
  BY <1>1 DEF Next
<1>2. ASSUME NEW c \in Calls, Travels(c) PROVE [Next]_vars
  BY <1>2 DEF Travels, Next, Proceed
<1>3. ASSUME NEW u \in Users,
             Ask(u) \/ Unsupported(u) \/ ContextDone(u) \/ Definition(u) \/ Act(u)
      PROVE  [Next]_vars
  BY <1>3, UserStep
<1>4. CASE UNCHANGED allVars
  BY <1>4 DEF allVars
<1> QED
  BY <1>1, <1>2, <1>3, <1>4 DEF MarketNext

\* Symbol lookups and candle requests are calls of Get and nothing else.
THEOREM MarketUsesIss == MarketSpec => Spec
<1>1. MarketInit => Init
  BY DEF MarketInit
<1> QED
  BY <1>1, MarketStep, PTL DEF MarketSpec, Spec

\* However users combine requests, the rate is kept as far as the client keeps it: each
\* request of a call goes through the limiter on its own.
THEOREM MarketKeepsTheRate == MarketSpec => []RateRespected
  BY MarketUsesIss, ThrottleHolds, PTL

\* ... and the cookie they share is renewed only when it is old.
THEOREM MarketKeepsTheCookie == MarketSpec => CookieKept
  BY MarketUsesIss, CookieRenewedOnce, PTL

-----------------------------------------------------------------------------
(* What the decoder makes of a table                                        *)

\* A column that comes once is found.
LEMMA ColumnFound ==
  ASSUME NEW t, IsTable(t), NEW c \in DOMAIN t.columns
  PROVE  /\ t.columns[c] \in DOMAIN ColumnIndex(t.columns)
         /\ ColumnIndex(t.columns)[t.columns[c]] = c
<1> DEFINE cols == t.columns
           name == cols[c]
           Latest(i) == cols[i] = name /\ \A j \in DOMAIN cols : cols[j] = name => j <= i
<1>1. name \in ToSet(cols)
  BY DEF ToSet
<1>2. DOMAIN cols = 1..Len(cols) /\ Len(cols) \in Nat
      /\ \A i, j \in DOMAIN cols : cols[i] = cols[j] => i = j
  BY DEF IsTable, IsInjective
<1> HIDE DEF cols
<1>3. Latest(c)
  BY <1>2 DEF cols
<1>4. \A i \in DOMAIN cols : Latest(i) => i = c
  BY <1>2 DEF cols
<1>5. (CHOOSE i \in DOMAIN cols : Latest(i)) = c
  BY <1>3, <1>4 DEF cols
<1>6. ColumnIndex(cols)[name] = CHOOSE i \in DOMAIN cols : Latest(i)
  BY <1>1, Zenon DEF ColumnIndex
<1>7. name \in DOMAIN ColumnIndex(cols)
  BY <1>1 DEF ColumnIndex
<1> QED BY <1>5, <1>6, <1>7 DEF cols

\* The index names no column that is not there.
LEMMA ColumnIsThere ==
  ASSUME NEW t, IsTable(t), NEW name \in DOMAIN ColumnIndex(t.columns)
  PROVE  /\ ColumnIndex(t.columns)[name] \in DOMAIN t.columns
         /\ t.columns[ColumnIndex(t.columns)[name]] = name
<1>1. name \in ToSet(t.columns)
  BY DEF ColumnIndex
<1>2. PICK c \in DOMAIN t.columns : t.columns[c] = name
  BY <1>1 DEF ToSet
<1> QED BY <1>2, ColumnFound

\* Every field has the value that its row holds in the column of its name, or is
\* zero; wherever the column lies and whatever lies beside it.
LEMMA ScanIntoReads ==
  ASSUME NEW t, IsTable(t), NEW fields, ScanInto(t, fields).err = FALSE
  PROVE  LET rows == ScanInto(t, fields).rows IN
         /\ DOMAIN rows = DOMAIN t.data
         /\ \A r \in DOMAIN t.data, f \in DOMAIN fields :
              /\ \A v : Holds(t, r, f, v) => rows[r][f] = v
              /\ rows[r][f] # Zero => Holds(t, r, f, rows[r][f])
<1> DEFINE idx == ColumnIndex(t.columns)
           Given(row, f) == /\ f \in DOMAIN idx /\ idx[f] <= Len(row)
                            /\ row[idx[f]].json # "null"
           Element(row) == [f \in DOMAIN fields |->
                              IF Given(row, f) THEN row[idx[f]].v ELSE Zero]
           rows == ScanInto(t, fields).rows
<1>1. rows = [r \in DOMAIN t.data |-> Element(t.data[r])]
  BY DEF ScanInto
<1>2. ASSUME NEW r \in DOMAIN t.data, NEW f \in DOMAIN fields
      PROVE  /\ \A v : Holds(t, r, f, v) => rows[r][f] = v
             /\ rows[r][f] # Zero => Holds(t, r, f, rows[r][f])
  <2> DEFINE row == t.data[r]
  <2>1. rows[r][f] = IF Given(row, f) THEN row[idx[f]].v ELSE Zero
    <3> HIDE DEF Given, idx
    <3>1. Element(row)[f] = IF Given(row, f) THEN row[idx[f]].v ELSE Zero
      OBVIOUS
    <3> HIDE DEF Element, rows
    <3>2. rows[r] = Element(row)
      BY <1>1
    <3> QED BY <3>1, <3>2
  <2>2. DOMAIN row = 1..Len(row) /\ Len(row) \in 0..Len(t.columns)
        /\ DOMAIN t.columns = 1..Len(t.columns) /\ Len(t.columns) \in Nat
    BY DEF IsTable
  <2> HIDE DEF rows, row, idx
  <2>3. ASSUME NEW v, Holds(t, r, f, v) PROVE rows[r][f] = v
    <3>1. PICK c \in DOMAIN row : t.columns[c] = f /\ row[c].json # "null" /\ row[c].v = v
      BY <2>3 DEF Holds, row
    <3>2. c \in DOMAIN t.columns /\ c <= Len(row)
      BY <2>2
    <3>3. f \in DOMAIN idx /\ idx[f] = c
      BY <3>1, <3>2, ColumnFound DEF idx
    <3> QED BY <2>1, <3>1, <3>2, <3>3
  <2>4. ASSUME rows[r][f] # Zero PROVE Holds(t, r, f, rows[r][f])
    <3>1. Given(row, f) /\ rows[r][f] = row[idx[f]].v
      BY <2>1, <2>4
    <3>2. idx[f] \in DOMAIN t.columns /\ t.columns[idx[f]] = f
      BY <3>1, ColumnIsThere DEF idx
    <3>3. idx[f] \in DOMAIN row
      BY <2>2, <3>1, <3>2
    <3> QED BY <3>1, <3>2, <3>3 DEF Holds, row
  <2> QED BY <2>3, <2>4
<1> HIDE DEF rows
<1>3. DOMAIN rows = DOMAIN t.data
  BY <1>1
<1> QED BY <1>2, <1>3 DEF rows

LEMMA BlockOfBody ==
  ASSUME NEW body, NEW name \in DOMAIN body, IsTable(body[name])
  PROVE  Block(ParseResponse(body), name) = body[name]
<1>1. body[name].table
  BY Zenon DEF IsTable
<1>2. name \in {n \in DOMAIN body : body[n].table}
  BY <1>1, Zenon
<1>3. name \in DOMAIN ParseResponse(body) /\ ParseResponse(body)[name] = body[name]
  BY <1>2, Zenon DEF ParseResponse
<1> QED BY <1>3, Zenon DEF Block

\* A non-empty set of natural numbers has a least element.
LEMMA LeastNumber ==
  ASSUME NEW T, T \subseteq Nat, T # {}
  PROVE  \E m \in T : \A k \in T : m <= k
<1>1. IsWellFoundedOn(OpToRel(<, Nat), Nat)
  BY NatLessThanWellFounded, Zenon
<1>2. PICK m \in T : \A k \in T : <<k, m>> \notin OpToRel(<, Nat)
  BY WFMin, <1>1, Zenon
<1>3. ASSUME NEW k \in T PROVE m <= k
  <2>1. k \in Nat /\ m \in Nat
    OBVIOUS
  <2>2. (<<k, m>> \in OpToRel(<, Nat)) <=> (<<k, m>> \in Nat \X Nat /\ k < m)
    BY DEF OpToRel
  <2>3. ~(k < m)
    BY <1>2, <2>1, <2>2
  <2> QED BY <2>1, <2>3
<1> QED BY <1>3

\* Row r of a listing names s.
Names(t, r, s) == Holds(t, r, "SECID", s) \/ Holds(t, r, "SHORTNAME", s)

\* The answer x was found in row r.
FoundIn(t, r, s, x) ==
  /\ s \in {x.Symbol, x.ShortSymbol}
  /\ x.ShortSymbol \in DOMAIN Candles
  /\ Holds(t, r, "SECID", x.ShortSymbol) /\ Names(t, r, s)

\* GetSymbolInfo fails, calls a symbol unknown that no row names, or answers with a
\* row that names it and whose SECID has candles.
LEMMA SymbolIsFound ==
  ASSUME NEW b \in DOMAIN Listings, NEW s \in Symbols
  PROVE  LET a == SymbolFound[b][s]
             t == Listings[b].securities
         IN  \/ a = Failed
             \/ a = Unknown /\ \A r \in DOMAIN t.data : ~Names(t, r, s)
             \/ \E r \in DOMAIN t.data : \E x : a = Info(x) /\ FoundIn(t, r, s, x)
<1> DEFINE t    == Listings[b].securities
           found == Block(ParseResponse(Listings[b]), "securities")
           scan == ScanInto(found, SecurityRow)
           all  == [i \in DOMAIN scan.rows |-> SymbolInfoFromISSRow(scan.rows[i])]
           hits == {i \in DOMAIN all : s \in {all[i].Symbol, all[i].ShortSymbol}}
           first == CHOOSE i \in hits : \A j \in hits : i <= j
           a    == SymbolFound[b][s]
<1>0. IsTable(t) /\ "securities" \in DOMAIN Listings[b]
  BY ListingsNameIssues
<1>1. found = t
  BY <1>0, BlockOfBody
<1>2. a = IF scan.err THEN Failed ELSE IF hits = {} THEN Unknown ELSE Info(all[first])
  <2>1. a = FindSymbol(Listings[b], s)
    BY DEF SymbolFound
  <2> HIDE DEF a
  <2> QED BY <2>1 DEF FindSymbol
<1> HIDE DEF found
<1>3. CASE scan.err
  <2> HIDE DEF a, scan
  <2>1. a = Failed
    BY <1>2, <1>3, Zenon
  <2> QED BY <2>1, Zenon DEF a
<1>4. CASE ~scan.err
  <2>1. scan.err = FALSE
    <3>1. scan.err \in BOOLEAN
      <4>1. scan.err = TRUE \/ scan.err = FALSE
        BY DEF ScanInto
      <4> QED BY <4>1
    <3> QED BY <1>4, <3>1
  <2>2. /\ DOMAIN scan.rows = DOMAIN t.data
        /\ \A r \in DOMAIN t.data, f \in DOMAIN SecurityRow :
             /\ \A v : Holds(t, r, f, v) => scan.rows[r][f] = v
             /\ scan.rows[r][f] # Zero => Holds(t, r, f, scan.rows[r][f])
    <3>1. scan = ScanInto(t, SecurityRow)
      BY <1>1
    <3>2. ScanInto(t, SecurityRow).err = FALSE
      BY <2>1, <3>1
    <3> HIDE DEF scan, t
    <3>3. /\ DOMAIN ScanInto(t, SecurityRow).rows = DOMAIN t.data
          /\ \A r \in DOMAIN t.data, f \in DOMAIN SecurityRow :
               /\ \A v : Holds(t, r, f, v) => ScanInto(t, SecurityRow).rows[r][f] = v
               /\ ScanInto(t, SecurityRow).rows[r][f] # Zero
                    => Holds(t, r, f, ScanInto(t, SecurityRow).rows[r][f])
      BY <1>0, <3>2, ScanIntoReads
    <3> QED BY <3>1, <3>3, Zenon
  <2>3. "SECID" \in DOMAIN SecurityRow /\ "SHORTNAME" \in DOMAIN SecurityRow
    BY DEF SecurityRow
  <2> HIDE DEF scan
  <2>4. DOMAIN all = DOMAIN t.data
    BY <2>2
  <2>5. ASSUME NEW r \in DOMAIN t.data
        PROVE  all[r].Symbol = scan.rows[r]["SHORTNAME"]
               /\ all[r].ShortSymbol = scan.rows[r]["SECID"]
    BY <2>2 DEF SymbolInfoFromISSRow
  <2> HIDE DEF all
  <2>6. DOMAIN t.data \subseteq Nat
    BY <1>0 DEF IsTable
  <2>7. CASE hits = {}
    <3>1. a = Unknown
      BY <1>2, <1>4, <2>7, Zenon
    <3>2. ASSUME NEW r \in DOMAIN t.data, Names(t, r, s) PROVE FALSE
      <4>1. s = all[r].Symbol \/ s = all[r].ShortSymbol
        BY <2>2, <2>3, <2>5, <3>2, Zenon DEF Names
      <4>2. r \in hits
        BY <2>4, <4>1
      <4> QED BY <2>7, <4>2
    <3> HIDE DEF a, t
    <3> QED BY <3>1, <3>2, Zenon DEF a, t
  <2>8. CASE hits # {}
    <3>1. hits \subseteq Nat
      BY <2>4, <2>6
    <3>2. \E m \in hits : \A k \in hits : m <= k
      BY <2>8, <3>1, LeastNumber
    <3>3. first \in hits
      BY <3>2
    <3> DEFINE x == all[first]
    <3>4. first \in DOMAIN t.data /\ s \in {x.Symbol, x.ShortSymbol}
      BY <2>4, <3>3
    <3> HIDE DEF first, hits
    <3>5. a = Info(x)
      BY <1>2, <1>4, <2>8, Zenon
    <3>6. PICK secid \in DOMAIN Candles : Holds(t, first, "SECID", secid)
      BY <3>4, ListingsNameIssues
    <3>7. x.ShortSymbol = secid
      BY <2>2, <2>3, <2>5, <3>4, <3>6, Zenon
    <3>8. s # Zero
      BY SymbolsAreNames
    <3>9. Names(t, first, s)
      <4>1. CASE s = x.ShortSymbol
        BY <3>6, <3>7, <4>1, Zenon DEF Names
      <4>2. CASE s = x.Symbol
        <5>1. s = scan.rows[first]["SHORTNAME"]
          BY <2>5, <3>4, <4>2, Zenon
        <5> QED BY <2>2, <2>3, <3>4, <3>8, <5>1, Zenon DEF Names
      <4> QED BY <3>4, <4>1, <4>2
    <3>10. FoundIn(t, first, s, x)
      BY <3>4, <3>6, <3>7, <3>9, Zenon DEF FoundIn
    <3> HIDE DEF x, a, t
    <3> QED BY <3>4, <3>5, <3>10, Zenon DEF a, t
  <2> QED BY <2>7, <2>8
<1> QED BY <1>3, <1>4

\* GetHistoricalCandles' second answer is read or fails.
LEMMA CandlesAreRead ==
  ASSUME NEW secid \in DOMAIN Candles
  PROVE  LET a == CandlesRead[secid] IN
         \/ a = Failed
         \/ \E rows :
              /\ a = Series(rows)
              /\ [i \in DOMAIN rows |-> rows[i].open]
                 = [i \in DOMAIN Candles[secid].candles.data |-> <<secid, i>>]
<1> DEFINE t    == Candles[secid].candles
           scan == ScanInto(t, CandleRow)
           rows == scan.rows
           a    == CandlesRead[secid]
<1>0. IsTable(t) /\ "candles" \in DOMAIN Candles[secid]
  BY CandlesNameTheirIssue
<1>1. Block(ParseResponse(Candles[secid]), "candles") = t
  BY <1>0, BlockOfBody
<1>2. a = IF scan.err THEN Failed ELSE Series(scan.rows)
  <2>1. a = DecodeCandles(Candles[secid])
    BY DEF CandlesRead
  <2> HIDE DEF a, t
  <2> QED BY <1>1, <2>1, Zenon DEF DecodeCandles
<1>3. scan.err = TRUE \/ scan.err = FALSE
  BY DEF ScanInto
<1>4. ASSUME scan.err = FALSE
      PROVE  [i \in DOMAIN rows |-> rows[i].open] = [i \in DOMAIN t.data |-> <<secid, i>>]
  <2>1. /\ DOMAIN scan.rows = DOMAIN t.data
        /\ \A r \in DOMAIN t.data, f \in DOMAIN CandleRow :
             /\ \A v : Holds(t, r, f, v) => scan.rows[r][f] = v
             /\ scan.rows[r][f] # Zero => Holds(t, r, f, scan.rows[r][f])
    BY <1>0, <1>4, ScanIntoReads
  <2>2. "open" \in DOMAIN CandleRow
    BY DEF CandleRow
  <2> HIDE DEF scan
  <2>3. \A i \in DOMAIN t.data : rows[i]["open"] = <<secid, i>>
    BY <2>1, <2>2, CandlesNameTheirIssue
  <2> HIDE DEF t
  <2> QED BY <2>1, <2>3
<1> HIDE DEF scan
<1>5. CASE scan.err
  BY <1>2, <1>5, Zenon
<1>6. CASE ~scan.err
  <2>1. scan.err = FALSE
    BY <1>3, <1>6
  <2> HIDE DEF a, rows
  <2>2. a = Series(rows)
    BY <1>2, <1>6, Zenon DEF rows
  <2>3. [i \in DOMAIN rows |-> rows[i].open] = [i \in DOMAIN t.data |-> <<secid, i>>]
    BY <1>4, <2>1
  <2> QED BY <2>2, <2>3, Zenon DEF a, t
<1> QED BY <1>5, <1>6

\* What the property reads off a listing is what its rows name.
LEMMA ListedAreNamed ==
  ASSUME NEW b \in DOMAIN Listings, NEW s \in Symbols \cup DOMAIN Candles
  PROVE  LET t == Listings[b].securities IN
         /\ \A r \in DOMAIN t.data : Names(t, r, s) => r \in Listed[b][s]
         /\ s \in Symbols => \A r \in Listed[b][s] : r \in DOMAIN t.data /\ Names(t, r, s)
<1> DEFINE t == Listings[b].securities
           Named(r) == {t.data[r][c].v : c \in {c \in DOMAIN t.data[r] :
                                                 t.columns[c] \in {"SECID", "SHORTNAME"}}}
<1>1. Listed[b][s] = {r \in DOMAIN t.data : s \in Named(r)}
  BY DEF Listed
<1>2. ASSUME NEW r \in DOMAIN t.data, Names(t, r, s) PROVE s \in Named(r)
  BY <1>2 DEF Names, Holds
<1>3. ASSUME s \in Symbols, NEW r \in DOMAIN t.data, s \in Named(r) PROVE Names(t, r, s)
  <2>1. PICK c \in DOMAIN t.data[r] :
           t.columns[c] \in {"SECID", "SHORTNAME"} /\ t.data[r][c].v = s
    BY <1>3
  <2>2. t.data[r][c].json # "null"
    BY <1>3, <2>1, ListingsNameIssues
  <2> QED BY <2>1, <2>2 DEF Names, Holds
<1> HIDE DEF t, Named
<1>4. \A r \in DOMAIN t.data : Names(t, r, s) => r \in Listed[b][s]
  BY <1>1, <1>2
<1>5. s \in Symbols => \A r \in Listed[b][s] : r \in DOMAIN t.data /\ Names(t, r, s)
  BY <1>1, <1>3
<1> QED BY <1>4, <1>5 DEF t

-----------------------------------------------------------------------------
(* The users' answers                                                       *)

\* What may be answered, or has been found so far.
FoundFor(u) ==
  /\ listing[u] \in DOMAIN Listings /\ asked[u] \in Symbols
  /\ answer[u] = SymbolFound[listing[u]][asked[u]] /\ answer[u].type = "info"
IdFor(u)    == /\ asked[u] \in DOMAIN SecurityIds
               /\ \E id \in SecurityIds[asked[u]] : answer[u] = Ids(id)
InfoFor(u)  == \E x : answer[u] = Info(x) /\ asked[u] \in {x.Symbol, x.ShortSymbol}
NoneFor(u)  == /\ answer[u] = Unknown
               /\ \/ listing[u] = "none"
                  \/ Listed[listing[u]][asked[u]] = {}
CandlesFor(u) ==
  \E secid \in DOMAIN Candles : \E rows :
    /\ answer[u] = Series(rows)
    /\ Listed[listing[u]][asked[u]] \cap Listed[listing[u]][secid] # {}
    /\ [i \in DOMAIN rows |-> rows[i].open]
       = [i \in DOMAIN Candles[secid].candles.data |-> <<secid, i>>]

MarketTypes ==
  /\ stage \in [Users -> {"new", "info", "history", "found", "candles", "resolve", "listen",
                          "done"}]
  /\ asked \in [Users -> Symbols \cup {Zero}]
  /\ listing \in [Users -> DOMAIN Listings \cup {"none"}]
  /\ DOMAIN answer = Users
  /\ DOMAIN ids \subseteq DOMAIN SecurityIds
  /\ \A s \in DOMAIN ids : ids[s] \in SecurityIds[s]

AnswerOf(u) ==
  /\ At(u, "new") \/ At(u, "info") \/ At(u, "history") \/ At(u, "resolve")
       => answer[u] = Nothing /\ listing[u] = "none"
  /\ At(u, "info") \/ At(u, "history") \/ At(u, "resolve") \/ At(u, "listen")
       => asked[u] \in Symbols
  /\ At(u, "found") \/ At(u, "candles") => FoundFor(u)
  /\ At(u, "listen") => (answer[u] = Nothing \/ IdFor(u)) /\ listing[u] = "none"
  /\ At(u, "done") => \/ answer[u] = Failed \/ InfoFor(u) \/ NoneFor(u)
                      \/ CandlesFor(u) \/ IdFor(u)

MarketInv == MarketTypes /\ \A u \in Users : AnswerOf(u)

LEMMA MarketInitInv == MarketInit => MarketInv
<1> SUFFICES ASSUME MarketInit PROVE MarketInv
  OBVIOUS
<1>1. MarketTypes
  BY DEF MarketInit, MarketTypes
<1>2. ASSUME NEW u \in Users PROVE AnswerOf(u)
  BY DEF MarketInit, AnswerOf, At
<1> QED BY <1>1, <1>2 DEF MarketInv

\* What one user does leaves the others alone.
OnlyFor(u) ==
  \A v \in Users \ {u} :
    /\ stage'[v] = stage[v] /\ asked'[v] = asked[v]
    /\ listing'[v] = listing[v] /\ answer'[v] = answer[v]

\* The five kinds of an answer depend on nothing but what it was asked and found.
LEMMA SameAnswer ==
  ASSUME NEW v, stage'[v] = stage[v], asked'[v] = asked[v], listing'[v] = listing[v],
         answer'[v] = answer[v], AnswerOf(v)
  PROVE  AnswerOf(v)'
<1>1. FoundFor(v)' <=> FoundFor(v)
  BY Zenon DEF FoundFor
<1>2. IdFor(v)' <=> IdFor(v)
  BY Zenon DEF IdFor
<1>3. InfoFor(v)' <=> InfoFor(v)
  BY Zenon DEF InfoFor
<1>4. NoneFor(v)' <=> NoneFor(v)
  BY Zenon DEF NoneFor
<1>5. CandlesFor(v)' <=> CandlesFor(v)
  BY Zenon DEF CandlesFor
<1> QED BY <1>1, <1>2, <1>3, <1>4, <1>5, Zenon DEF AnswerOf, At

LEMMA StepOfOne ==
  ASSUME MarketInv, NEW u \in Users, OnlyFor(u), MarketTypes', AnswerOf(u)'
  PROVE  MarketInv'
<1>1. ASSUME NEW v \in Users PROVE AnswerOf(v)'
  <2>1. CASE v = u
    BY <2>1, Zenon
  <2>2. CASE v # u
    <3>1. stage'[v] = stage[v] /\ asked'[v] = asked[v] /\ listing'[v] = listing[v]
          /\ answer'[v] = answer[v]
      BY <2>2 DEF OnlyFor
    <3>2. AnswerOf(v)
      BY Zenon DEF MarketInv
    <3> QED BY <3>1, <3>2, SameAnswer, Zenon
  <2> QED BY <2>1, <2>2
<1> QED BY <1>1, Zenon DEF MarketInv

-----------------------------------------------------------------------------
(* The steps of a user                                                      *)

Stages == {"new", "info", "history", "found", "candles", "resolve", "listen", "done"}

\* A user whose call is over has one of the answers there are.
LEMMA NowDone ==
  ASSUME NEW u, stage'[u] = "done",
         \/ answer'[u] = Failed
         \/ InfoFor(u)' \/ NoneFor(u)' \/ CandlesFor(u)' \/ IdFor(u)'
  PROVE  AnswerOf(u)'
<1>1. \A s \in Stages : At(u, s)' <=> s = "done"
  BY DEF At
<1>2. /\ ~At(u, "new")' /\ ~At(u, "info")' /\ ~At(u, "history")' /\ ~At(u, "resolve")'
      /\ ~At(u, "listen")' /\ ~At(u, "found")' /\ ~At(u, "candles")'
  BY DEF At
<1> QED BY <1>2, Zenon DEF AnswerOf

LEMMA Moves ==
  ASSUME MarketTypes, NEW u \in Users, NEW s \in Stages, Move(u, s)
  PROVE  /\ stage' \in [Users -> Stages] /\ stage'[u] = s
         /\ \A v \in Users \ {u} : stage'[v] = stage[v]
BY DEF MarketTypes, Move, Stages

LEMMA Answers1 ==
  ASSUME MarketTypes, NEW u \in Users, NEW a, Answer(u, a)
  PROVE  /\ DOMAIN answer' = Users /\ answer'[u] = a
         /\ \A v \in Users \ {u} : answer'[v] = answer[v]
BY DEF MarketTypes, Answer

LEMMA FinishedWith ==
  ASSUME MarketTypes, NEW u \in Users, NEW a, Finished(u, a),
         UNCHANGED asked, UNCHANGED listing, UNCHANGED ids
  PROVE  /\ MarketTypes' /\ OnlyFor(u) /\ stage'[u] = "done" /\ answer'[u] = a
<1>1. Move(u, "done") /\ Answer(u, a) /\ "done" \in Stages
  BY DEF Finished, Stages
<1>2. /\ stage' \in [Users -> Stages] /\ stage'[u] = "done"
      /\ \A v \in Users \ {u} : stage'[v] = stage[v]
  BY <1>1, Moves
<1>3. /\ DOMAIN answer' = Users /\ answer'[u] = a
      /\ \A v \in Users \ {u} : answer'[v] = answer[v]
  BY <1>1, Answers1
<1>4. MarketTypes'
  BY <1>2, <1>3 DEF MarketTypes, Stages
<1>5. OnlyFor(u)
  BY <1>2, <1>3, Zenon DEF OnlyFor
<1> QED BY <1>2, <1>3, <1>4, <1>5

LEMMA AskKeeps ==
  ASSUME MarketInv, NEW u \in Users, Ask(u)
  PROVE  MarketInv'
<1>0. MarketTypes /\ AnswerOf(u) /\ At(u, "new")
  BY DEF MarketInv, Ask
<1>1. PICK s \in Symbols : asked' = [asked EXCEPT ![u] = s]
  BY DEF Ask
<1>2. PICK x \in {"info", "history", "resolve"} : Move(u, x)
  BY DEF Ask
<1>3. UNCHANGED <<listing, answer, ids>>
  BY DEF Ask
<1>4. /\ stage' \in [Users -> Stages] /\ stage'[u] = x
      /\ \A v \in Users \ {u} : stage'[v] = stage[v]
  <2>1. x \in Stages
    BY DEF Stages
  <2> QED BY <1>0, <1>2, <2>1, Moves
<1>5. asked' \in [Users -> Symbols \cup {Zero}] /\ asked'[u] \in Symbols
      /\ \A v \in Users \ {u} : asked'[v] = asked[v]
  BY <1>0, <1>1 DEF MarketTypes
<1>6. MarketTypes'
  BY <1>0, <1>3, <1>4, <1>5 DEF MarketTypes, Stages
<1>7. OnlyFor(u)
  BY <1>3, <1>4, <1>5 DEF OnlyFor
<1>8. AnswerOf(u)'
  <2>1. answer'[u] = Nothing /\ listing'[u] = "none"
    <3>1. answer[u] = Nothing /\ listing[u] = "none"
      BY <1>0, Zenon DEF AnswerOf
    <3> QED BY <1>3, <3>1
  <2>2. /\ ~At(u, "found")' /\ ~At(u, "candles")' /\ ~At(u, "listen")' /\ ~At(u, "done")'
    BY <1>4 DEF At
  <2> QED BY <1>5, <2>1, <2>2, Zenon DEF AnswerOf
<1> QED BY <1>6, <1>7, <1>8, StepOfOne

LEMMA FailedKeeps ==
  ASSUME MarketInv, NEW u \in Users, Finished(u, Failed), UNCHANGED <<asked, listing, ids>>
  PROVE  MarketInv'
<1>1. MarketTypes
  BY DEF MarketInv
<1>2. MarketTypes' /\ OnlyFor(u) /\ stage'[u] = "done" /\ answer'[u] = Failed
  BY <1>1, FinishedWith
<1>3. AnswerOf(u)'
  BY <1>2, NowDone
<1> QED BY <1>2, <1>3, StepOfOne

LEMMA ListingAnsweredKeeps ==
  ASSUME MarketInv, NEW u \in Users, ListingAnswered(u)
  PROVE  MarketInv'
<1>0. MarketTypes /\ AnswerOf(u) /\ UNCHANGED <<asked, ids>> /\ asked[u] \in Symbols
  <2>1. AnswerOf(u) /\ (At(u, "info") \/ At(u, "history"))
    BY Zenon DEF MarketInv, ListingAnswered
  <2>2. asked[u] \in Symbols
    BY <2>1, Zenon DEF AnswerOf
  <2> QED BY <2>1, <2>2 DEF MarketInv, ListingAnswered
<1>1. CASE Finished(u, Failed) /\ UNCHANGED listing
  BY <1>0, <1>1, FailedKeeps
<1>2. CASE \E b \in DOMAIN Listings :
             LET found == SymbolFound[b][asked[u]]
             IN  /\ listing' = [listing EXCEPT ![u] = b]
                 /\ Answer(u, found)
                 /\ Move(u, IF At(u, "info") \/ found.type # "info" THEN "done" ELSE "found")
  <2>1. PICK b \in DOMAIN Listings :
             /\ listing' = [listing EXCEPT ![u] = b]
             /\ Answer(u, SymbolFound[b][asked[u]])
             /\ Move(u, IF At(u, "info") \/ SymbolFound[b][asked[u]].type # "info"
                        THEN "done" ELSE "found")
    BY <1>2
  <2> DEFINE a == SymbolFound[b][asked[u]]
             t == Listings[b].securities
             x == IF At(u, "info") \/ a.type # "info" THEN "done" ELSE "found"
  <2>2. x \in Stages /\ x \in {"done", "found"} /\ (x = "found" => a.type = "info")
    BY DEF Stages
  <2>3. Move(u, x) /\ Answer(u, a)
    BY <2>1
  <2> HIDE DEF x, a
  <2>4. /\ stage' \in [Users -> Stages] /\ stage'[u] = x
        /\ \A v \in Users \ {u} : stage'[v] = stage[v]
    BY <1>0, <2>2, <2>3, Moves
  <2>5. /\ DOMAIN answer' = Users /\ answer'[u] = a
        /\ \A v \in Users \ {u} : answer'[v] = answer[v]
    BY <1>0, <2>3, Answers1
  <2>6. /\ listing' \in [Users -> DOMAIN Listings \cup {"none"}] /\ listing'[u] = b
        /\ \A v \in Users \ {u} : listing'[v] = listing[v]
    BY <1>0, <2>1 DEF MarketTypes
  <2>7. MarketTypes'
    BY <1>0, <2>4, <2>5, <2>6 DEF MarketTypes, Stages
  <2>8. OnlyFor(u)
    BY <1>0, <2>4, <2>5, <2>6 DEF OnlyFor
  <2>9. AnswerOf(u)'
    <3>1. CASE x = "found"
      <4>1. FoundFor(u)'
        BY <1>0, <2>2, <2>5, <2>6, <3>1 DEF FoundFor, a
      <4>2. /\ ~At(u, "new")' /\ ~At(u, "info")' /\ ~At(u, "history")' /\ ~At(u, "resolve")'
            /\ ~At(u, "listen")' /\ ~At(u, "done")'
        BY <2>4, <3>1 DEF At
      <4> QED BY <4>1, <4>2, Zenon DEF AnswerOf
    <3>2. CASE x = "done"
      <4>1. \/ a = Failed
            \/ a = Unknown /\ \A r \in DOMAIN t.data : ~Names(t, r, asked[u])
            \/ \E r \in DOMAIN t.data : \E y : a = Info(y) /\ FoundIn(t, r, asked[u], y)
        BY <1>0, SymbolIsFound DEF a
      <4>2. CASE a = Failed
        BY <2>4, <2>5, <3>2, <4>2, NowDone
      <4>3. CASE a = Unknown /\ \A r \in DOMAIN t.data : ~Names(t, r, asked[u])
        <5>1. Listed[b][asked[u]] = {}
          BY <1>0, <4>3, ListedAreNamed
        <5>2. NoneFor(u)'
          BY <1>0, <2>5, <2>6, <4>3, <5>1 DEF NoneFor
        <5> QED BY <2>4, <3>2, <5>2, NowDone
      <4>4. CASE \E r \in DOMAIN t.data : \E y : a = Info(y) /\ FoundIn(t, r, asked[u], y)
        <5>1. PICK y : a = Info(y) /\ asked[u] \in {y.Symbol, y.ShortSymbol}
          BY <4>4 DEF FoundIn
        <5>2. InfoFor(u)'
          BY <1>0, <2>5, <5>1 DEF InfoFor
        <5> QED BY <2>4, <3>2, <5>2, NowDone
      <4> QED BY <4>1, <4>2, <4>3, <4>4
    <3> QED BY <2>2, <3>1, <3>2
  <2> QED BY <2>7, <2>8, <2>9, StepOfOne
<1> QED BY <1>1, <1>2 DEF ListingAnswered

LEMMA AskCandlesKeeps ==
  ASSUME MarketInv, NEW u \in Users, AskCandles(u)
  PROVE  MarketInv'
<1>0. MarketTypes /\ AnswerOf(u) /\ UNCHANGED <<asked, listing, answer, ids>>
      /\ Move(u, "candles") /\ "candles" \in Stages
  BY DEF MarketInv, AskCandles, Stages
<1>1. FoundFor(u)
  <2>1. At(u, "found") /\ AnswerOf(u)
    BY <1>0 DEF AskCandles
  <2> QED BY <2>1, Zenon DEF AnswerOf
<1>2. /\ stage' \in [Users -> Stages] /\ stage'[u] = "candles"
      /\ \A v \in Users \ {u} : stage'[v] = stage[v]
  BY <1>0, Moves
<1>3. MarketTypes'
  BY <1>0, <1>2 DEF MarketTypes, Stages
<1>4. OnlyFor(u)
  BY <1>0, <1>2 DEF OnlyFor
<1>5. AnswerOf(u)'
  <2>1. FoundFor(u)'
    BY <1>0, <1>1 DEF FoundFor
  <2>2. /\ ~At(u, "new")' /\ ~At(u, "info")' /\ ~At(u, "history")' /\ ~At(u, "resolve")'
        /\ ~At(u, "listen")' /\ ~At(u, "done")'
    BY <1>2 DEF At
  <2> QED BY <2>1, <2>2, Zenon DEF AnswerOf
<1> QED BY <1>3, <1>4, <1>5, StepOfOne

\* The SECID in the path is one that ISS has candles for, and lies beside the name.
LEMMA PathIsListed ==
  ASSUME NEW u, FoundFor(u)
  PROVE  /\ Path(u) \in DOMAIN Candles
         /\ Listed[listing[u]][asked[u]] \cap Listed[listing[u]][Path(u)] # {}
<1> DEFINE b == listing[u]
           s == asked[u]
           t == Listings[b].securities
<1>1. b \in DOMAIN Listings /\ s \in Symbols /\ answer[u] = SymbolFound[b][s]
      /\ answer[u].type = "info"
  BY DEF FoundFor
<1>2. \/ answer[u] = Failed \/ answer[u] = Unknown
      \/ \E r \in DOMAIN t.data : \E x : answer[u] = Info(x) /\ FoundIn(t, r, s, x)
  <2> HIDE DEF b, s, t
  <2> QED BY <1>1, SymbolIsFound DEF t
<1>3. Failed.type # "info" /\ Unknown.type # "info"
  BY DEF Failed, Unknown
<1>4. PICK r \in DOMAIN t.data : \E x : answer[u] = Info(x) /\ FoundIn(t, r, s, x)
  BY <1>1, <1>2, <1>3
<1>5. PICK x : answer[u] = Info(x) /\ FoundIn(t, r, s, x)
  BY <1>4
<1>6. Path(u) = x.ShortSymbol
  BY <1>5 DEF Path, Info
<1>7. Path(u) \in DOMAIN Candles /\ Names(t, r, Path(u)) /\ Names(t, r, s)
  BY <1>5, <1>6, Zenon DEF FoundIn, Names
<1>8. r \in Listed[b][s] /\ r \in Listed[b][Path(u)]
  <2> HIDE DEF b, s
  <2> QED BY <1>1, <1>7, ListedAreNamed
<1> QED BY <1>7, <1>8

LEMMA CandlesAnsweredKeeps ==
  ASSUME MarketInv, NEW u \in Users, CandlesAnswered(u)
  PROVE  MarketInv'
<1>0. MarketTypes /\ AnswerOf(u) /\ UNCHANGED <<asked, listing, ids>>
  BY DEF MarketInv, CandlesAnswered
<1>1. FoundFor(u)
  <2>1. At(u, "candles") /\ AnswerOf(u)
    BY <1>0 DEF CandlesAnswered
  <2> QED BY <2>1, Zenon DEF AnswerOf
<1>2. CASE Finished(u, Failed)
  BY <1>0, <1>2, FailedKeeps
<1>3. CASE Finished(u, CandlesRead[Path(u)])
  <2> DEFINE secid == Path(u)
             a == CandlesRead[secid]
  <2>1. MarketTypes' /\ OnlyFor(u) /\ stage'[u] = "done" /\ answer'[u] = a
    BY <1>0, <1>3, FinishedWith
  <2>2. /\ secid \in DOMAIN Candles
        /\ Listed[listing[u]][asked[u]] \cap Listed[listing[u]][secid] # {}
    BY <1>1, PathIsListed
  <2>2a. PICK id \in DOMAIN Candles : id = secid
    BY <2>2
  <2>3. \/ a = Failed
        \/ \E rows :
             /\ a = Series(rows)
             /\ [i \in DOMAIN rows |-> rows[i].open]
                = [i \in DOMAIN Candles[id].candles.data |-> <<id, i>>]
    <3> HIDE DEF secid
    <3> QED BY <2>2, <2>2a, CandlesAreRead
  <2>4. CASE a = Failed
    <3>1. AnswerOf(u)'
      BY <2>1, <2>4, NowDone
    <3> QED BY <2>1, <3>1, StepOfOne
  <2>5. CASE \E rows :
             /\ a = Series(rows)
             /\ [i \in DOMAIN rows |-> rows[i].open]
                = [i \in DOMAIN Candles[id].candles.data |-> <<id, i>>]
    <3>1. PICK rows :
             /\ a = Series(rows)
             /\ [i \in DOMAIN rows |-> rows[i].open]
                = [i \in DOMAIN Candles[id].candles.data |-> <<id, i>>]
      BY <2>5
    <3>2. answer'[u] = Series(rows)
      BY <2>1, <3>1, Zenon
    <3>3. asked'[u] = asked[u] /\ listing'[u] = listing[u]
      BY <1>0
    <3>4. Listed[listing'[u]][asked'[u]] \cap Listed[listing'[u]][id] # {}
      BY <2>2, <2>2a, <3>3, Zenon
    <3>5. CandlesFor(u)'
      BY <3>1, <3>2, <3>4, Zenon DEF CandlesFor
    <3>6. AnswerOf(u)'
      BY <2>1, <3>5, NowDone
    <3> QED BY <2>1, <3>6, StepOfOne
  <2> QED BY <2>3, <2>4, <2>5
<1> QED BY <1>2, <1>3 DEF CandlesAnswered

LEMMA LookUpKeeps ==
  ASSUME MarketInv, NEW u \in Users, LookUp(u)
  PROVE  MarketInv'
<1>0. MarketTypes /\ AnswerOf(u) /\ UNCHANGED <<asked, listing, ids>> /\ At(u, "resolve")
  BY DEF MarketInv, LookUp
<1>1. asked[u] \in Symbols /\ answer[u] = Nothing /\ listing[u] = "none"
  BY <1>0, Zenon DEF AnswerOf
<1>2. CASE asked[u] \in DOMAIN ids
  <2>1. Finished(u, Ids(ids[asked[u]]))
    BY <1>2 DEF LookUp
  <2>2. /\ MarketTypes' /\ OnlyFor(u) /\ stage'[u] = "done"
        /\ answer'[u] = Ids(ids[asked[u]])
    BY <1>0, <2>1, FinishedWith
  <2>3. asked[u] \in DOMAIN SecurityIds /\ ids[asked[u]] \in SecurityIds[asked[u]]
    BY <1>0, <1>2 DEF MarketTypes
  <2>4. IdFor(u)'
    BY <1>0, <2>2, <2>3 DEF IdFor
  <2>5. AnswerOf(u)'
    BY <2>2, <2>4, NowDone
  <2> QED BY <2>2, <2>5, StepOfOne
<1>3. CASE asked[u] \notin DOMAIN ids
  <2>1. Move(u, "listen") /\ UNCHANGED answer /\ "listen" \in Stages
    BY <1>3 DEF LookUp, Stages
  <2>2. /\ stage' \in [Users -> Stages] /\ stage'[u] = "listen"
        /\ \A v \in Users \ {u} : stage'[v] = stage[v]
    BY <1>0, <2>1, Moves
  <2>3. MarketTypes'
    BY <1>0, <2>1, <2>2 DEF MarketTypes, Stages
  <2>4. OnlyFor(u)
    BY <1>0, <2>1, <2>2 DEF OnlyFor
  <2>5. AnswerOf(u)'
    <3>1. asked'[u] \in Symbols /\ answer'[u] = Nothing /\ listing'[u] = "none"
      BY <1>0, <1>1, <2>1
    <3>2. /\ ~At(u, "new")' /\ ~At(u, "info")' /\ ~At(u, "history")' /\ ~At(u, "resolve")'
          /\ ~At(u, "found")' /\ ~At(u, "candles")' /\ ~At(u, "done")'
      BY <2>2 DEF At
    <3> QED BY <3>1, <3>2, Zenon DEF AnswerOf
  <2> QED BY <2>3, <2>4, <2>5, StepOfOne
<1> QED BY <1>2, <1>3

LEMMA DefinitionKeeps ==
  ASSUME MarketInv, NEW u \in Users, Definition(u)
  PROVE  MarketInv'
<1>0. MarketTypes /\ AnswerOf(u) /\ UNCHANGED <<stage, asked, listing>> /\ At(u, "listen")
  BY DEF MarketInv, Definition
<1>1. PICK s \in DOMAIN SecurityIds : \E id \in SecurityIds[s] :
        /\ ids' = [x \in DOMAIN ids \cup {s} |-> IF x = s THEN id ELSE ids[x]]
        /\ answer' = IF s = asked[u] THEN [answer EXCEPT ![u] = Ids(id)] ELSE answer
  BY DEF Definition
<1>2. PICK id \in SecurityIds[s] :
        /\ ids' = [x \in DOMAIN ids \cup {s} |-> IF x = s THEN id ELSE ids[x]]
        /\ answer' = IF s = asked[u] THEN [answer EXCEPT ![u] = Ids(id)] ELSE answer
  BY <1>1
<1>3. DOMAIN ids' \subseteq DOMAIN SecurityIds /\ \A x \in DOMAIN ids' : ids'[x] \in SecurityIds[x]
  BY <1>0, <1>2 DEF MarketTypes
<1>4. /\ DOMAIN answer' = Users
      /\ \A v \in Users \ {u} : answer'[v] = answer[v]
      /\ s = asked[u] => answer'[u] = Ids(id)
      /\ s # asked[u] => answer'[u] = answer[u]
  BY <1>0, <1>2 DEF MarketTypes
<1>5. MarketTypes'
  BY <1>0, <1>3, <1>4 DEF MarketTypes
<1>6. OnlyFor(u)
  BY <1>0, <1>4 DEF OnlyFor
<1>7. AnswerOf(u)'
  <2>1. asked[u] \in Symbols /\ (answer[u] = Nothing \/ IdFor(u)) /\ listing[u] = "none"
    BY <1>0, Zenon DEF AnswerOf
  <2>2. answer'[u] = Nothing \/ IdFor(u)'
    <3>1. CASE s = asked[u]
      BY <1>0, <1>4, <3>1 DEF IdFor
    <3>2. CASE s # asked[u]
      BY <1>0, <1>4, <2>1, <3>2 DEF IdFor
    <3> QED BY <3>1, <3>2
  <2>3. /\ ~At(u, "new")' /\ ~At(u, "info")' /\ ~At(u, "history")' /\ ~At(u, "resolve")'
        /\ ~At(u, "found")' /\ ~At(u, "candles")' /\ ~At(u, "done")'
    BY <1>0 DEF At
  <2>4. asked'[u] \in Symbols /\ listing'[u] = "none"
    BY <1>0, <2>1
  <2> QED BY <2>2, <2>3, <2>4, Zenon DEF AnswerOf
<1> QED BY <1>5, <1>6, <1>7, StepOfOne

LEMMA StopListeningKeeps ==
  ASSUME MarketInv, NEW u \in Users, StopListening(u)
  PROVE  MarketInv'
<1>0. MarketTypes /\ AnswerOf(u) /\ UNCHANGED <<asked, listing, ids>> /\ At(u, "listen")
  BY DEF MarketInv, StopListening
<1>1. (answer[u] = Nothing \/ IdFor(u)) /\ listing[u] = "none"
  BY <1>0, Zenon DEF AnswerOf
<1>2. CASE answer[u] = Nothing
  <2>1. Finished(u, Unknown)
    BY <1>2 DEF StopListening
  <2>2. MarketTypes' /\ OnlyFor(u) /\ stage'[u] = "done" /\ answer'[u] = Unknown
    BY <1>0, <2>1, FinishedWith
  <2>3. NoneFor(u)'
    BY <1>0, <1>1, <2>2 DEF NoneFor
  <2>4. AnswerOf(u)'
    BY <2>2, <2>3, NowDone
  <2> QED BY <2>2, <2>4, StepOfOne
<1>3. CASE answer[u] # Nothing
  <2>1. Move(u, "done") /\ UNCHANGED answer /\ "done" \in Stages
    BY <1>3 DEF StopListening, Stages
  <2>2. /\ stage' \in [Users -> Stages] /\ stage'[u] = "done"
        /\ \A v \in Users \ {u} : stage'[v] = stage[v]
    BY <1>0, <2>1, Moves
  <2>3. MarketTypes'
    BY <1>0, <2>1, <2>2 DEF MarketTypes, Stages
  <2>4. OnlyFor(u)
    BY <1>0, <2>1, <2>2 DEF OnlyFor
  <2>5. IdFor(u)'
    BY <1>0, <1>1, <1>3, <2>1 DEF IdFor
  <2>6. AnswerOf(u)'
    BY <2>2, <2>5, NowDone
  <2> QED BY <2>3, <2>4, <2>6, StepOfOne
<1> QED BY <1>2, <1>3

LEMMA MarketNextInv == MarketInv /\ [MarketNext]_allVars => MarketInv'
<1> SUFFICES ASSUME MarketInv, [MarketNext]_allVars PROVE MarketInv'
  OBVIOUS
<1>1. CASE UNCHANGED marketVars
  <2>1. UNCHANGED <<stage, asked, listing, answer, ids>>
    BY <1>1 DEF marketVars
  <2>2. MarketTypes'
    BY <2>1 DEF MarketInv, MarketTypes
  <2>3. ASSUME NEW u \in Users PROVE AnswerOf(u)'
    <3>1. AnswerOf(u)
      BY Zenon DEF MarketInv
    <3> QED BY <2>1, <3>1, SameAnswer
  <2> QED BY <2>2, <2>3, Zenon DEF MarketInv
<1>2. CASE Tick /\ UNCHANGED marketVars
  BY <1>1, <1>2
<1>3. ASSUME NEW c \in Calls, Travels(c) PROVE MarketInv'
  BY <1>1, <1>3 DEF Travels
<1>4. ASSUME NEW u \in Users, Ask(u) PROVE MarketInv'
  BY <1>4, AskKeeps
<1>5. ASSUME NEW u \in Users, Unsupported(u) PROVE MarketInv'
  BY <1>5, FailedKeeps DEF Unsupported
<1>6. ASSUME NEW u \in Users, ContextDone(u) PROVE MarketInv'
  BY <1>6, FailedKeeps DEF ContextDone
<1>7. ASSUME NEW u \in Users, Definition(u) PROVE MarketInv'
  BY <1>7, DefinitionKeeps
<1>8. ASSUME NEW u \in Users, Act(u) PROVE MarketInv'
  BY <1>8, ListingAnsweredKeeps, AskCandlesKeeps, CandlesAnsweredKeeps, LookUpKeeps,
     StopListeningKeeps DEF Act
<1>9. CASE UNCHANGED allVars
  <2>1. UNCHANGED marketVars
    BY <1>9 DEF allVars
  <2> QED BY <1>1, <2>1
<1> QED BY <1>2, <1>3, <1>4, <1>5, <1>6, <1>7, <1>8, <1>9 DEF MarketNext

LEMMA MarketInvariance == MarketSpec => []MarketInv
BY MarketInitInv, MarketNextInv, PTL DEF MarketSpec

\* What an answer is says which of the five it is.
LEMMA AnswerTypes ==
  ASSUME NEW u, AnswerOf(u), NEW s \in Stages, At(u, s)
  PROVE  /\ answer[u].type \in {"nothing", "error", "unknown", "info", "id", "candles"}
         /\ At(u, "done") =>
              /\ answer[u].type = "info" => InfoFor(u)
              /\ answer[u].type = "unknown" => NoneFor(u)
              /\ answer[u].type = "candles" => CandlesFor(u)
              /\ answer[u].type = "id" => IdFor(u)
<1>1. /\ Nothing.type = "nothing" /\ Failed.type = "error" /\ Unknown.type = "unknown"
      /\ \A x : Info(x).type = "info"
      /\ \A x : Ids(x).type = "id"
      /\ \A x : Series(x).type = "candles"
  BY DEF Nothing, Failed, Unknown, Info, Ids, Series
<1>2. InfoFor(u) => answer[u].type = "info"
  BY <1>1, Zenon DEF InfoFor
<1>3. NoneFor(u) => answer[u].type = "unknown"
  BY <1>1, Zenon DEF NoneFor
<1>4. CandlesFor(u) => answer[u].type = "candles"
  BY <1>1, Zenon DEF CandlesFor
<1>5. IdFor(u) => answer[u].type = "id"
  BY <1>1, Zenon DEF IdFor
<1>6. FoundFor(u) => answer[u].type = "info"
  BY Zenon DEF FoundFor
<1>7. CASE At(u, "done")
  <2>1. answer[u] = Failed \/ InfoFor(u) \/ NoneFor(u) \/ CandlesFor(u) \/ IdFor(u)
    BY <1>7, Zenon DEF AnswerOf
  <2> QED BY <1>1, <1>2, <1>3, <1>4, <1>5, <2>1
<1>8. CASE ~At(u, "done")
  <2>1. answer[u] = Nothing \/ FoundFor(u) \/ IdFor(u)
    <3>1. s # "done"
      BY <1>8
    <3>2. \/ At(u, "new") \/ At(u, "info") \/ At(u, "history") \/ At(u, "resolve")
          \/ At(u, "listen") \/ At(u, "found") \/ At(u, "candles")
      BY <3>1 DEF Stages
    <3> QED BY <3>2, Zenon DEF AnswerOf
  <2> QED BY <1>1, <1>5, <1>6, <1>8, <2>1
<1> QED BY <1>7, <1>8

\* The users' calls and the client's keep their types.
THEOREM MarketTypeCorrect == MarketSpec => []MarketTypeOK
<1>1. MarketInv /\ TypeOK => MarketTypeOK
  <2> SUFFICES ASSUME MarketInv, TypeOK PROVE MarketTypeOK
    OBVIOUS
  <2>1. MarketTypes
    BY DEF MarketInv
  <2>2. ASSUME NEW u \in Users
        PROVE  answer[u].type \in {"nothing", "error", "unknown", "info", "id", "candles"}
    <3>1. AnswerOf(u)
      BY Zenon DEF MarketInv
    <3>2. stage[u] \in Stages /\ At(u, stage[u])
      BY <2>1 DEF MarketTypes, Stages, At
    <3> QED BY <3>1, <3>2, AnswerTypes
  <2> QED BY <2>1, <2>2 DEF MarketTypes, MarketTypeOK
<1>2. IInv => TypeOK
  BY DEF IInv
<1> QED BY <1>1, <1>2, MarketInvariance, MarketUsesIss, IssInvariance, PTL

\* Every answer is about the instrument it was asked for, for any listing, in any
\* layout, and any number of users that share the client and the cache of ids.
THEOREM AnswersAreAskedFor == MarketSpec => []AnswersAskedFor
<1>1. MarketInv => AnswersAskedFor
  <2> SUFFICES ASSUME MarketInv, NEW u \in Users
               PROVE  LET a == answer[u]
                          rows == Listed[listing[u]]
                      IN  /\ At(u, "candles") => Path(u) \in DOMAIN Candles
                          /\ At(u, "done") =>
                               CASE a.type = "candles" ->
                                      \E secid \in DOMAIN Candles :
                                        /\ rows[asked[u]] \cap rows[secid] # {}
                                        /\ [i \in DOMAIN a.rows |-> a.rows[i].open]
                                           = [i \in DOMAIN Candles[secid].candles.data
                                                |-> <<secid, i>>]
                                 [] a.type = "info" ->
                                      asked[u] \in {a.symbol.Symbol, a.symbol.ShortSymbol}
                                 [] a.type = "unknown" ->
                                      listing[u] = "none" \/ rows[asked[u]] = {}
                                 [] a.type = "id" -> a.id \in SecurityIds[asked[u]]
                                 [] OTHER -> TRUE
    BY DEF AnswersAskedFor
  <2>1. AnswerOf(u)
    BY Zenon DEF MarketInv
  <2>2. At(u, "candles") => Path(u) \in DOMAIN Candles
    <3>1. At(u, "candles") => FoundFor(u)
      BY <2>1, Zenon DEF AnswerOf
    <3> QED BY <3>1, PathIsListed
  <2> DEFINE a == answer[u]
             rows == Listed[listing[u]]
             OfCandles == \E secid \in DOMAIN Candles :
                            /\ rows[asked[u]] \cap rows[secid] # {}
                            /\ [i \in DOMAIN a.rows |-> a.rows[i].open]
                               = [i \in DOMAIN Candles[secid].candles.data |-> <<secid, i>>]
  <2>3. ASSUME At(u, "done")
        PROVE  /\ a.type = "candles" => OfCandles
               /\ a.type = "info" => asked[u] \in {a.symbol.Symbol, a.symbol.ShortSymbol}
               /\ a.type = "unknown" => listing[u] = "none" \/ rows[asked[u]] = {}
               /\ a.type = "id" => a.id \in SecurityIds[asked[u]]
    <3>0. "done" \in Stages
      BY DEF Stages
    <3>1. /\ a.type = "info" => InfoFor(u)
          /\ a.type = "unknown" => NoneFor(u)
          /\ a.type = "candles" => CandlesFor(u)
          /\ a.type = "id" => IdFor(u)
      BY <2>1, <2>3, <3>0, AnswerTypes
    <3>2. ASSUME CandlesFor(u) PROVE OfCandles
      <4>1. PICK secid \in DOMAIN Candles : \E rs :
              /\ a = Series(rs)
              /\ rows[asked[u]] \cap rows[secid] # {}
              /\ [i \in DOMAIN rs |-> rs[i].open]
                 = [i \in DOMAIN Candles[secid].candles.data |-> <<secid, i>>]
        BY <3>2 DEF CandlesFor
      <4>2. PICK rs :
              /\ a = Series(rs)
              /\ rows[asked[u]] \cap rows[secid] # {}
              /\ [i \in DOMAIN rs |-> rs[i].open]
                 = [i \in DOMAIN Candles[secid].candles.data |-> <<secid, i>>]
        BY <4>1
      <4>3. a.rows = rs
        BY <4>2 DEF Series
      <4> HIDE DEF a, rows
      <4> QED BY <4>2, <4>3, Zenon
    <3>3. InfoFor(u) => asked[u] \in {a.symbol.Symbol, a.symbol.ShortSymbol}
      BY DEF InfoFor, Info
    <3>4. NoneFor(u) => listing[u] = "none" \/ rows[asked[u]] = {}
      BY DEF NoneFor
    <3>5. IdFor(u) => a.id \in SecurityIds[asked[u]]
      BY DEF IdFor, Ids
    <3> HIDE DEF OfCandles, a, rows
    <3> QED BY <3>1, <3>2, <3>3, <3>4, <3>5, Zenon
  <2> HIDE DEF OfCandles
  <2>4. At(u, "done") =>
           CASE a.type = "candles" -> OfCandles
             [] a.type = "info" -> asked[u] \in {a.symbol.Symbol, a.symbol.ShortSymbol}
             [] a.type = "unknown" -> listing[u] = "none" \/ rows[asked[u]] = {}
             [] a.type = "id" -> a.id \in SecurityIds[asked[u]]
             [] OTHER -> TRUE
    <3> HIDE DEF a, rows
    <3> QED BY <2>3
  <2> QED BY <2>2, <2>4 DEF OfCandles
<1> QED BY <1>1, MarketInvariance, PTL

=============================================================================
