--------------------------------- MODULE Config ---------------------------------
(***************************************************************************)
(* The configuration: withDefaults and validate of config.go, and the      *)
(* delay before a reconnection that internal/fix/session.go computes from  *)
(* it.                                                                     *)
(*                                                                         *)
(* Durations are integers of Width bits, as Go's are of 64; jitter and its *)
(* random part are given in percent.                                       *)
(***************************************************************************)
EXTENDS Integers

CONSTANTS Width,   \* bits of a time.Duration
          Floor    \* minReconnectFloor

\* The fields for which DefaultConfig has a value and withDefaults uses it.  Those of
\* Orderbook are not among them.
Defaulted ==
  {"ISS.BaseURL", "ISS.RequestTimeout", "ISS.MaxIdleConns", "ISS.MaxIdleConnsPerHost",
   "ISS.IdleConnTimeout", "ISS.RequestsPerSecond", "FIX.Host", "FIX.Port",
   "FIX.TargetCompID", "FIX.HeartBtInt", "FIX.DialTimeout", "FIX.ReconnectInitialBackoff",
   "FIX.ReconnectMaxBackoff", "FIX.ReconnectJitter", "Logger", "Metrics", "UserAgent"}

\* A field is "empty", "given" by the user, or the "default".
WithDefaults(c) ==
  [f \in DOMAIN c |-> IF c[f] = "empty" /\ f \in Defaulted THEN "default" ELSE c[f]]

Valid(c) == c["ISS.BaseURL"] # "empty"

-----------------------------------------------------------------------------
(* JitteredBackoff                                                          *)

\* The bits that remain of a signed integer.
Signed(n) == LET m == n % 2^Width IN IF m < 2^(Width - 1) THEN m ELSE m - 2^Width

\* initial << attempt; once it exceeds the limit or overflows, the limit.
Exponential(initial, max, attempt) ==
  LET d == Signed(initial * 2^attempt) IN IF d > max \/ d <= 0 THEN max ELSE d

\* time.Duration(float64(d) * jitter) rounds towards zero.
Jittered(d, percent) ==
  IF d >= 0 THEN (d * (100 + percent)) \div 100 ELSE -((-d * (100 + percent)) \div 100)

JitteredBackoff(initial, max, attempt, percent) ==
  LET d == Jittered(Exponential(initial, max, attempt), percent)
  IN  IF d < Floor THEN Floor ELSE d

-----------------------------------------------------------------------------
(* What is claimed of them                                                  *)

\* Every field that has a default is set, what was set is kept, and NewClient
\* (client.go:55-60) refuses no configuration.
DefaultsFill(c) ==
  /\ \A f \in DOMAIN c : /\ c[f] = "given" => WithDefaults(c)[f] = "given"
                         /\ f \in Defaulted => WithDefaults(c)[f] # "empty"
  /\ Valid(WithDefaults(c))

\* "Honoring ... the spec-mandated 30s floor" (session.go:356-359): however often
\* the shift overflows, the delay is no shorter than the floor, and no longer than
\* the limit and its jitter unless the floor is.
BackoffInBounds(initial, max, attempt, percent) ==
  LET d == JitteredBackoff(initial, max, attempt, percent)
      highest == Jittered(max, percent)
  IN  d >= Floor /\ (d <= Floor \/ d <= highest)
=============================================================================
