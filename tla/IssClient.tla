------------------------------- MODULE IssClient -------------------------------
(***************************************************************************)
(* Requests to the exchange's information server: internal/iss/client.go   *)
(* with the token bucket of limiter.go and the shared authentication of    *)
(* auth.go.                                                                *)
(*                                                                         *)
(* Every Get runs on a goroutine of its own: it takes a token or sleeps    *)
(* until there should be one, makes sure under authMu that the cookie is   *)
(* fresh, and sends its request.  The mutex is held for the whole round    *)
(* trip to the passport server.                                            *)
(*                                                                         *)
(* Time passes in ticks, the nanoseconds of the code: the clock is read    *)
(* and a sleep is counted in whole ones.  The bucket is counted in the     *)
(* units of which Refill are added in a tick and Token make a whole token, *)
(* so a rate need not be a whole number; the rounding of the code's        *)
(* floating-point numbers is left out.                                     *)
(***************************************************************************)
EXTENDS Naturals

CONSTANTS Calls,       \* the goroutines that each call Get
          Refill,      \* units added in a tick
          Token,       \* units of one token
          PerSecond,   \* ticks in a second
          Interval     \* authRefreshInterval, in ticks

ASSUME UnitsPositive ==
  Refill \in Nat \ {0} /\ Token \in Nat \ {0} /\ PerSecond \in Nat \ {0} /\ Interval \in Nat \ {0}

\* The bucket holds at most what is added in one second.
Capacity == Refill * PerSecond

VARIABLES throttled,  \* the rate is positive; the limiter is off otherwise
          paid,       \* Login and Password are set
          tokens,     \* limiter.tokens, at the last refill
          elapsed,    \* ticks since lastRefill; beyond a second they make no difference
          meter,      \* history: the largest excess of the requests that took a token in
                      \* a window up to now over what the rate allows in that window
          slip,       \* history: when, since the last token was taken, a request was let
                      \* through without one: "none", "now", "earlier" than now, or both
          since,      \* ticks since authAt; Interval if longer ago or never
          authMu,     \* who holds the mutex: {} or one call
          pc,         \* where each call is
          sleep,      \* ticks until each call's timer fires
          ret         \* what each call returned

cfg == <<throttled, paid>>
bucketVars == <<tokens, elapsed, meter, slip>>
vars == <<cfg, bucketVars, since, authMu, pc, sleep, ret>>

Goto(c, to) == pc' = [pc EXCEPT ![c] = to]

Return(c, r) == Goto(c, "done") /\ ret' = [ret EXCEPT ![c] = r]

-----------------------------------------------------------------------------
(* The limiter                                                              *)

\* Mutant: the bucket is not capped at the rate.
Uncapped == tokens + elapsed * Refill

\* The bucket after the refill of tryAcquire.
Refilled == IF tokens + elapsed * Refill > Capacity THEN Capacity ELSE tokens + elapsed * Refill

\* Mutant: lastRefill is not moved, and the same time is credited again.
StillElapsed == elapsed

\* lastRefill = now.
JustRefilled == 0

\* The time in which the missing part of a token is added, cut down to full ticks.
Deficit(filled) == (Token - filled) \div Refill

Start(c) ==
  /\ pc[c] = "idle"
  /\ Goto(c, "wait")
  /\ UNCHANGED <<cfg, bucketVars, since, authMu, sleep, ret>>

\* Wait with throttling disabled.
PassFreely(c) ==
  /\ pc[c] = "wait" /\ ~throttled
  /\ Goto(c, "authenticate")
  /\ UNCHANGED <<cfg, bucketVars, since, authMu, sleep, ret>>

\* One round of Wait.  A token is there and is taken; or so little is missing of it
\* that the wait is cut down to 0, which Wait takes for a token; or the call sleeps.
TryAcquire(c) ==
  /\ pc[c] = "wait" /\ throttled /\ sleep[c] = 0
  /\ elapsed' = JustRefilled
  /\ \/ /\ Refilled >= Token
        /\ tokens' = Refilled - Token
        /\ meter' = meter + Token /\ slip' = "none"
        /\ Goto(c, "authenticate") /\ UNCHANGED sleep
     \/ /\ Refilled < Token /\ Deficit(Refilled) = 0
        /\ tokens' = Refilled
        /\ slip' = IF slip \in {"none", "now"} THEN "now" ELSE "both"
        /\ Goto(c, "authenticate") /\ UNCHANGED <<meter, sleep>>
     \/ /\ Refilled < Token /\ Deficit(Refilled) > 0
        /\ tokens' = Refilled
        /\ sleep' = [sleep EXCEPT ![c] = Deficit(Refilled)]
        /\ UNCHANGED <<meter, slip, pc>>
  /\ UNCHANGED <<cfg, since, authMu, ret>>

\* The context is done while the call sleeps.
GiveUp(c) ==
  /\ pc[c] = "wait" /\ sleep[c] > 0
  /\ Return(c, "ctx")
  /\ UNCHANGED <<cfg, bucketVars, since, authMu, sleep>>

-----------------------------------------------------------------------------
(* ensureAuthenticated                                                      *)

\* Mutant: calls do not exclude each other.
Anyone == TRUE

Free == authMu = {}

\* Mutant: an early return forgets the mutex.
StillLocked == authMu

\* defer authMu.Unlock().
Unlocked == {}

SkipLogin(c) ==
  /\ pc[c] = "authenticate" /\ ~paid
  /\ Goto(c, "request")
  /\ UNCHANGED <<cfg, bucketVars, since, authMu, sleep, ret>>

\* The mutex is taken; with a fresh cookie it is released at once.  Waiting for
\* it does not look at the context.
Enter(c) ==
  /\ pc[c] = "authenticate" /\ paid /\ Free
  /\ \/ since < Interval /\ Goto(c, "request") /\ UNCHANGED authMu
     \/ since = Interval /\ Goto(c, "passport") /\ authMu' = {c}
  /\ UNCHANGED <<cfg, bucketVars, since, sleep, ret>>

\* The passport server answers, or the round trip fails; either way Get goes on.
Passport(c) ==
  /\ pc[c] = "passport"
  /\ since' \in {0, since}
  /\ authMu' = Unlocked
  /\ Goto(c, "request")
  /\ UNCHANGED <<cfg, bucketVars, sleep, ret>>

-----------------------------------------------------------------------------
(* The request, and time                                                    *)

\* A response, or a network, status or parse error.
Finish(c) ==
  /\ pc[c] = "request"
  /\ \E r \in {"ok", "error"} : Return(c, r)
  /\ UNCHANGED <<cfg, bucketVars, since, authMu, sleep>>

Tick ==
  /\ elapsed' = IF elapsed < PerSecond THEN elapsed + 1 ELSE elapsed
  /\ since' = IF since < Interval THEN since + 1 ELSE since
  /\ sleep' = [c \in Calls |-> IF sleep[c] > 0 THEN sleep[c] - 1 ELSE 0]
  /\ meter' = IF meter > Refill THEN meter - Refill ELSE 0
  /\ slip' = IF slip = "now" THEN "earlier" ELSE slip
  /\ UNCHANGED <<cfg, tokens, authMu, pc, ret>>

-----------------------------------------------------------------------------
Init ==
  /\ throttled \in BOOLEAN /\ paid \in BOOLEAN
  /\ tokens = Capacity /\ elapsed = 0 /\ meter = 0 /\ slip = "none"
  /\ since = Interval /\ authMu = {}
  /\ pc = [c \in Calls |-> "idle"]
  /\ sleep = [c \in Calls |-> 0]
  /\ ret = [c \in Calls |-> "none"]

\* What a call does of its own accord once it has begun.
Travel(c)  == PassFreely(c) \/ TryAcquire(c) \/ SkipLogin(c) \/ Enter(c) \/ Passport(c)
Proceed(c) == Travel(c) \/ Finish(c)

Next == Tick \/ \E c \in Calls : Start(c) \/ GiveUp(c) \/ Proceed(c)

Spec == Init /\ [][Next]_vars

\* Time passes, the scheduler runs the calls, and a round trip ends, at the
\* latest with the timeout of the HTTP client.
FairSpec == Spec /\ WF_vars(Tick) /\ \A c \in Calls : WF_vars(Proceed(c))

-----------------------------------------------------------------------------
(* Properties                                                               *)

TypeOK ==
  /\ throttled \in BOOLEAN /\ paid \in BOOLEAN
  /\ tokens \in 0..Capacity /\ elapsed \in 0..PerSecond /\ meter \in Nat
  /\ slip \in {"none", "now", "earlier", "both"}
  /\ since \in 0..Interval /\ authMu \in SUBSET Calls
  /\ pc \in [Calls -> {"idle", "wait", "authenticate", "passport", "request", "done"}]
  /\ sleep \in [Calls -> Nat]
  /\ ret \in [Calls -> {"none", "ok", "error", "ctx"}]

\* The throttle (limiter.go:20-21), as far as it goes: in no stretch of time, however
\* long and wherever it begins, do more requests take a token than a full bucket and
\* what the rate adds in that time, however many calls compete.  "Wait blocks until a
\* token is available" (limiter.go:37) is not so: a request for which less than a
\* nanosecond's worth of a token is missing is let through and takes none.  Between
\* two tokens this happens at one instant at most, if a token fits into the bucket at
\* all; at that instant, though, to any number of requests.
RateRespected ==
  throttled => /\ meter <= Capacity
               /\ Capacity >= Token => slip # "both"

\* The passport cookie is renewed only when it was old (auth.go:45-47), however
\* many calls find it old at the same time.
CookieKept == [][since' < since => since = Interval]_vars

\* Every Get returns (client.go:91-94, auth.go:43), if a token fits into the bucket
\* at all: with less than one request per second it does not, and Wait ends only
\* with the context.  There are finitely many calls: nothing queues for the tokens,
\* so calls that keep arriving could overtake one for ever.
GetReturns ==
  Capacity >= Token => \A c \in Calls : pc[c] = "wait" ~> pc[c] = "done"
=============================================================================
