----------------------------- MODULE RateLimiter -----------------------------
(***************************************************************************)
(* The limiter of /mcp (internal/httpserver/ratelimit.go): one token       *)
(* bucket per client address, refilled by the elapsed time when the client *)
(* is next seen.  `allow' runs under the limiter's mutex and reads the     *)
(* clock under it, so that a call is one step.                             *)
(*                                                                         *)
(* The code counts in float64 tokens per nanosecond.  Here a token is      *)
(* Minute parts, of which RequestsPerMinute are earned in a tick: the      *)
(* arithmetic is exact, and a float's rounding is not modelled.            *)
(***************************************************************************)
EXTENDS WallClock, Integers

CONSTANTS
  Clients,            \* the hosts of remote addresses
  RequestsPerMinute,  \* --mcp-rate-limit; the middleware is installed when it is positive
  Burst,              \* --mcp-rate-burst
  Minute,             \* ticks of the clock in a minute
  Unseen              \* no bucket yet

\* RateLimitOptions.validate, for an enabled limiter
ASSUME LimiterAssumption ==
  /\ RequestsPerMinute \in Nat \ {0}
  /\ Burst \in Nat \ {0}
  /\ Minute \in Nat \ {0}
  /\ Unseen \notin [tokens : Nat, updated : Nat]

VARIABLES
  buckets,   \* per client: its bucket, or Unseen
  opened,    \* history: the time from which an observer counts what passes
  passed,    \* history: per client, the requests let through since then
  lastPass   \* history: per client, the time of its last request let through

limiterVars == <<clock, buckets, opened, passed, lastPass>>

Capacity == Burst * Minute
Least(a, b) == IF a <= b THEN a ELSE b

LimiterTypeOK ==
  /\ clock \in Nat
  /\ buckets \in [Clients -> [tokens : Nat, updated : Nat] \cup {Unseen}]
  /\ opened \in Nat
  /\ passed \in [Clients -> Nat]
  /\ lastPass \in [Clients -> Nat]

LimiterInit ==
  /\ clock = 0
  /\ buckets = [c \in Clients |-> Unseen]
  /\ opened = 0
  /\ passed = [c \in Clients |-> 0]
  /\ lastPass = [c \in Clients |-> 0]

-----------------------------------------------------------------------------
(* Mutant: only whole tokens are credited.                                 *)
RefilledWhole(bucket) ==
  Least(Capacity, bucket.tokens
                  + (((clock - bucket.updated) * RequestsPerMinute) \div Minute) * Minute)

\* what the bucket holds once the time since its last update is credited
Refilled(bucket) ==
  Least(Capacity, bucket.tokens + (clock - bucket.updated) * RequestsPerMinute)

\* the tokens a call finds: those of the refilled bucket, or a full one
Available(c) == IF buckets[c] = Unseen THEN Capacity ELSE Refilled(buckets[c])

(* Mutant: a bucket keeps the time it was made at.                         *)
KeepStale(c, tokens) ==
  buckets' = [buckets EXCEPT ![c] =
    [tokens |-> tokens,
     updated |-> IF buckets[c] = Unseen THEN clock ELSE buckets[c].updated]]

Keep(c, tokens) == buckets' = [buckets EXCEPT ![c] = [tokens |-> tokens, updated |-> clock]]

(* Mutant: the first token of a bucket is not checked for.                 *)
AllowUnpaid(c) ==
  /\ Keep(c, Available(c) - Minute)
  /\ passed' = [passed EXCEPT ![c] = @ + 1]
  /\ lastPass' = [lastPass EXCEPT ![c] = clock]
  /\ UNCHANGED <<clock, opened>>

Allow(c) ==
  /\ Available(c) >= Minute
  /\ Keep(c, Available(c) - Minute)
  /\ passed' = [passed EXCEPT ![c] = @ + 1]
  /\ lastPass' = [lastPass EXCEPT ![c] = clock]
  /\ UNCHANGED <<clock, opened>>

Refuse(c) ==
  /\ Available(c) < Minute
  /\ Keep(c, Available(c))
  /\ UNCHANGED <<clock, opened, passed, lastPass>>

LimiterTick ==
  /\ Tick
  /\ UNCHANGED <<buckets, opened, passed, lastPass>>

\* an observer starts counting, at any moment: a bound it sees holds in every window
Observe ==
  /\ opened # clock
  /\ opened' = clock
  /\ passed' = [c \in Clients |-> 0]
  /\ UNCHANGED <<clock, buckets, lastPass>>

LimiterNext ==
  \/ \E c \in Clients : Allow(c) \/ Refuse(c)
  \/ LimiterTick
  \/ Observe

LimiterSpec == LimiterInit /\ [][LimiterNext]_limiterVars

-----------------------------------------------------------------------------
(* In any window of time a client gets at most a burst and what the window *)
(* earns through (ratelimit.go:98-109): not a burst per refill, and no     *)
(* credit for time it spent away.                                          *)
WindowBound ==
  \A c \in Clients :
    passed[c] * Minute <= Capacity + RequestsPerMinute * (clock - opened)

(* A client that has had no request let through for the time of one token  *)
(* is not refused, however often it was refused in between: being polled   *)
(* costs a bucket nothing (ratelimit.go:99-105).  Strictly more than that  *)
(* time, since the code's floats may round the last part of a token away.  *)
QuietClientPasses ==
  [][\A c \in Clients :
       Refuse(c) => RequestsPerMinute * (clock - lastPass[c]) <= Minute]_limiterVars

=============================================================================
