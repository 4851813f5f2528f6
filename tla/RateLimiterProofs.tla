-------------------------- MODULE RateLimiterProofs --------------------------
(***************************************************************************)
(* The limiter's bound on every window and its promise to a quiet client,  *)
(* for every rate, burst and set of clients.                               *)
(***************************************************************************)
EXTENDS RateLimiter, TLAPS

(* A bucket holds no more than the burst and is not newer than the clock;  *)
(* a window that saw no pass after a bucket's update counted none.         *)
BucketInv(c) ==
  buckets[c] # Unseen =>
    /\ buckets[c].tokens <= Capacity
    /\ lastPass[c] <= buckets[c].updated
    /\ buckets[c].updated <= clock

\* what passed since opened was paid from the burst and what was earned since
PaidInv(c) ==
  IF buckets[c] = Unseen THEN passed[c] = 0
  ELSE IF buckets[c].updated < opened THEN passed[c] = 0
  ELSE passed[c] * Minute + buckets[c].tokens
         <= Capacity + RequestsPerMinute * (buckets[c].updated - opened)

\* a refused client keeps what it earned since its last pass
EarnedInv(c) ==
  buckets[c] # Unseen =>
    Least(Capacity, RequestsPerMinute * (buckets[c].updated - lastPass[c]))
      <= buckets[c].tokens

LimiterInv ==
  /\ LimiterTypeOK
  /\ opened <= clock
  /\ \A c \in Clients : BucketInv(c) /\ PaidInv(c) /\ EarnedInv(c)

(* Products are monotone and distribute over a difference of times.        *)
LEMMA ProductMonotone ==
  ASSUME NEW r \in Nat, NEW a \in Nat, NEW b \in Nat, a <= b
  PROVE  r * a \in Nat /\ r * b \in Nat /\ r * a <= r * b
  OBVIOUS

\* a product over an interval is the sum of those over its two parts
LEMMA ProductSplits ==
  ASSUME NEW r \in Nat, NEW a \in Nat, NEW b \in Nat, NEW d \in Nat, a <= b, b <= d
  PROVE  /\ r * (d - a) = r * (b - a) + r * (d - b)
         /\ (d - b) * r = r * (d - b)
         /\ r * (d - a) \in Nat /\ r * (b - a) \in Nat /\ r * (d - b) \in Nat
  OBVIOUS

\* a full bucket holds at least one token
LEMMA CapacityFacts == Capacity \in Nat /\ Minute <= Capacity
  BY LimiterAssumption, ProductMonotone DEF Capacity

(* What a call finds is a natural number, at most the burst; a seen client *)
(* finds all it had and has earned since, or a full bucket.                *)
LEMMA AvailableFacts ==
  ASSUME LimiterInv, NEW c \in Clients
  PROVE  /\ Available(c) \in Nat /\ Available(c) <= Capacity
         /\ buckets[c] # Unseen =>
              LET earned == RequestsPerMinute * (clock - buckets[c].updated)
              IN  /\ earned \in Nat
                  /\ buckets[c].tokens \in Nat /\ buckets[c].updated \in Nat
                  /\ Available(c) = Capacity \/ Available(c) = buckets[c].tokens + earned
                  /\ Available(c) <= buckets[c].tokens + earned
<1>1. CASE buckets[c] = Unseen
  BY <1>1, CapacityFacts DEF Available
<1>2. CASE buckets[c] # Unseen
  <2>1. /\ buckets[c].tokens \in Nat /\ buckets[c].updated \in Nat
        /\ clock \in Nat /\ buckets[c].updated <= clock
    BY <1>2 DEF LimiterInv, LimiterTypeOK, BucketInv
  <2> DEFINE earned == RequestsPerMinute * (clock - buckets[c].updated)
  <2>2. earned \in Nat /\ (clock - buckets[c].updated) * RequestsPerMinute = earned
    BY <2>1, ProductSplits, LimiterAssumption
  <2>3. Available(c) = Least(Capacity, buckets[c].tokens + earned)
    BY <1>2, <2>2 DEF Available, Refilled
  <2> HIDE DEF earned
  <2>4. /\ Available(c) \in Nat /\ Available(c) <= Capacity
        /\ Available(c) = Capacity \/ Available(c) = buckets[c].tokens + earned
        /\ Available(c) <= buckets[c].tokens + earned
    BY <2>1, <2>2, <2>3, CapacityFacts DEF Least
  <2> QED BY <1>2, <2>1, <2>2, <2>4 DEF earned
<1> QED BY <1>1, <1>2

-----------------------------------------------------------------------------
\* no client has a bucket at first
LEMMA LimiterInitial == LimiterInit => LimiterInv
  BY CapacityFacts DEF LimiterInit, LimiterInv, LimiterTypeOK, BucketInv, PaidInv, EarnedInv

(* A call leaves the client's bucket up to date, with what it found less   *)
(* what it took, and every other client's as it was.                       *)
LEMMA CallKeeps ==
  ASSUME LimiterInv, NEW c \in Clients, NEW left \in Nat, left <= Capacity, Keep(c, left),
         UNCHANGED <<clock, opened>>,
         passed' \in [Clients -> Nat], lastPass' \in [Clients -> Nat],
         \A d \in Clients \ {c} : passed'[d] = passed[d] /\ lastPass'[d] = lastPass[d],
         lastPass'[c] <= clock,
         passed'[c] * Minute + left
           <= Capacity + RequestsPerMinute * (clock - opened),
         Least(Capacity, RequestsPerMinute * (clock - lastPass'[c])) <= left
  PROVE  LimiterInv'
<1>1. /\ buckets'[c] = [tokens |-> left, updated |-> clock] /\ buckets'[c] # Unseen
      /\ \A d \in Clients \ {c} : buckets'[d] = buckets[d]
      /\ clock \in Nat /\ clock' = clock /\ opened' = opened
  BY LimiterAssumption DEF LimiterInv, LimiterTypeOK, Keep
<1>2. LimiterTypeOK' /\ opened' <= clock'
  BY <1>1 DEF LimiterInv, LimiterTypeOK, Keep
<1>3. BucketInv(c)' /\ PaidInv(c)' /\ EarnedInv(c)'
  <2>1. BucketInv(c)'
    BY <1>1 DEF BucketInv
  <2>2. PaidInv(c)'
    BY <1>1, <1>2 DEF PaidInv, LimiterInv, LimiterTypeOK, Capacity
  <2>3. EarnedInv(c)'
    BY <1>1 DEF EarnedInv, Capacity, Least
  <2> QED BY <2>1, <2>2, <2>3
<1>4. ASSUME NEW d \in Clients \ {c} PROVE BucketInv(d)' /\ PaidInv(d)' /\ EarnedInv(d)'
  BY <1>1, <1>4 DEF LimiterInv, BucketInv, PaidInv, EarnedInv, Capacity, Least
<1> QED BY <1>2, <1>3, <1>4 DEF LimiterInv

\* a request that passes, one that is refused and a tick keep the account
LEMMA LimiterStep == LimiterInv /\ [LimiterNext]_limiterVars => LimiterInv'
<1> SUFFICES ASSUME LimiterInv, [LimiterNext]_limiterVars PROVE LimiterInv'
  OBVIOUS
<1> DEFINE Now == RequestsPerMinute * (clock - opened)
<1>1. /\ clock \in Nat /\ opened \in Nat /\ opened <= clock /\ Now \in Nat
      /\ passed \in [Clients -> Nat] /\ lastPass \in [Clients -> Nat]
      /\ RequestsPerMinute * (clock - clock) = 0
  BY ProductSplits, LimiterAssumption DEF LimiterInv, LimiterTypeOK
\* what had passed and what the call finds was paid from the burst and the window
<1>2. ASSUME NEW c \in Clients
      PROVE  /\ passed[c] * Minute \in Nat
             /\ passed[c] * Minute + Available(c) <= Capacity + Now
  <2>1. passed[c] \in Nat /\ passed[c] * Minute \in Nat /\ 0 * Minute = 0
    BY <1>1, LimiterAssumption, ProductMonotone
  <2>2. Available(c) \in Nat /\ Available(c) <= Capacity
    BY AvailableFacts
  <2>3. CASE buckets[c] = Unseen \/ buckets[c].updated < opened
    <3>1. passed[c] = 0
      BY <2>3 DEF LimiterInv, PaidInv
    <3> QED BY <1>1, <2>1, <2>2, <3>1, CapacityFacts
  <2>4. CASE buckets[c] # Unseen /\ ~(buckets[c].updated < opened)
    <3> DEFINE then == buckets[c].updated
               earned == RequestsPerMinute * (clock - then)
               before == RequestsPerMinute * (then - opened)
    <3>1. /\ then \in Nat /\ opened <= then /\ then <= clock
          /\ passed[c] * Minute + buckets[c].tokens <= Capacity + before
      BY <1>1, <2>4, AvailableFacts DEF LimiterInv, PaidInv, BucketInv
    <3>2. Now = before + earned /\ before \in Nat /\ earned \in Nat
      BY <1>1, <3>1, ProductSplits, LimiterAssumption
    <3>3. buckets[c].tokens \in Nat /\ Available(c) <= buckets[c].tokens + earned
      BY <2>4, AvailableFacts
    <3> HIDE DEF earned, before, Now
    <3> QED BY <2>1, <2>2, <3>1, <3>2, <3>3, CapacityFacts
  <2> QED BY <2>1, <2>3, <2>4
<1>3. ASSUME NEW c \in Clients, Allow(c) PROVE LimiterInv'
  <2> DEFINE left == Available(c) - Minute
  <2>1. /\ left \in Nat /\ left <= Capacity /\ Available(c) = left + Minute
        /\ Keep(c, left) /\ UNCHANGED <<clock, opened>>
    BY <1>3, AvailableFacts, CapacityFacts, LimiterAssumption DEF Allow
  <2>2. /\ passed' \in [Clients -> Nat] /\ lastPass' \in [Clients -> Nat]
        /\ \A d \in Clients \ {c} : passed'[d] = passed[d] /\ lastPass'[d] = lastPass[d]
        /\ passed'[c] = passed[c] + 1 /\ lastPass'[c] = clock
    BY <1>1, <1>3 DEF Allow
  <2>3. passed'[c] * Minute = passed[c] * Minute + Minute
    BY <1>1, <2>2, LimiterAssumption
  <2>4. passed'[c] * Minute + left <= Capacity + Now
    BY <1>1, <1>2, <2>1, <2>3, LimiterAssumption, CapacityFacts
  <2>5. Least(Capacity, RequestsPerMinute * (clock - lastPass'[c])) <= left
    BY <1>1, <2>1, <2>2, CapacityFacts DEF Least
  <2> QED BY <1>1, <2>1, <2>2, <2>4, <2>5, CallKeeps
<1>4. ASSUME NEW c \in Clients, Refuse(c) PROVE LimiterInv'
  <2>1. /\ Available(c) \in Nat /\ Available(c) <= Capacity /\ Available(c) # Capacity
        /\ Keep(c, Available(c)) /\ UNCHANGED <<clock, opened, passed, lastPass>>
    BY <1>4, AvailableFacts, CapacityFacts, LimiterAssumption DEF Refuse
  <2>2. buckets[c] # Unseen
    BY <2>1 DEF Available
  <2> DEFINE then == buckets[c].updated
             earned == RequestsPerMinute * (clock - then)
             before == RequestsPerMinute * (then - lastPass[c])
  <2>3. /\ then \in Nat /\ lastPass[c] \in Nat /\ lastPass[c] <= then /\ then <= clock
        /\ Least(Capacity, before) <= buckets[c].tokens
    BY <1>1, <2>2, AvailableFacts DEF LimiterInv, BucketInv, EarnedInv
  <2> HIDE DEF then
  <2>4. /\ RequestsPerMinute * (clock - lastPass[c]) = before + earned
        /\ before \in Nat /\ earned \in Nat
    <3> DEFINE last == lastPass[c]
    <3>1. /\ RequestsPerMinute \in Nat /\ last \in Nat /\ then \in Nat /\ clock \in Nat
          /\ last <= then /\ then <= clock
      BY <1>1, <2>3, LimiterAssumption
    <3> HIDE DEF last
    <3>2. /\ RequestsPerMinute * (clock - last)
               = RequestsPerMinute * (then - last) + RequestsPerMinute * (clock - then)
          /\ RequestsPerMinute * (then - last) \in Nat
          /\ RequestsPerMinute * (clock - then) \in Nat
      BY ONLY <3>1, ProductSplits
    <3> QED BY <3>2 DEF last
  <2>5. buckets[c].tokens \in Nat /\ Available(c) = buckets[c].tokens + earned
    BY <2>1, <2>2, AvailableFacts DEF then
  <2>6. Least(Capacity, before + earned) <= Available(c)
    <3> HIDE DEF before, earned
    <3> QED BY <2>3, <2>4, <2>5, CapacityFacts DEF Least
  <2> HIDE DEF before, earned
  <2> QED BY <1>1, <1>2, <2>1, <2>3, <2>4, <2>6, CallKeeps
<1>5. CASE LimiterTick
  <2>1. clock' = clock + 1 /\ UNCHANGED <<buckets, opened, passed, lastPass>>
    BY <1>5 DEF LimiterTick, Tick
  <2>2. ASSUME NEW c \in Clients PROVE BucketInv(c)' /\ PaidInv(c)' /\ EarnedInv(c)'
    BY <1>1, <2>1, <2>2, AvailableFacts
       DEF LimiterInv, BucketInv, PaidInv, EarnedInv, Capacity, Least
  <2> QED BY <1>1, <2>1, <2>2 DEF LimiterInv, LimiterTypeOK
<1>6. CASE Observe
  <2>1. opened' = clock /\ passed' = [c \in Clients |-> 0] /\ UNCHANGED <<clock, buckets, lastPass>>
    BY <1>6 DEF Observe
  <2>2. ASSUME NEW c \in Clients PROVE BucketInv(c)' /\ PaidInv(c)' /\ EarnedInv(c)'
    <3>1. BucketInv(c)' /\ EarnedInv(c)'
      BY <2>1, <2>2 DEF LimiterInv, BucketInv, EarnedInv, Capacity, Least
    <3>2. ASSUME buckets[c] = Unseen \/ buckets[c].updated < clock PROVE PaidInv(c)'
      BY <2>1, <2>2, <3>2 DEF PaidInv
    <3>3. ASSUME buckets[c] # Unseen, ~(buckets[c].updated < clock) PROVE PaidInv(c)'
      <4>1. buckets[c].updated = clock /\ buckets[c].tokens \in Nat /\ buckets[c].tokens <= Capacity
        BY <1>1, <3>3, AvailableFacts DEF LimiterInv, BucketInv
      <4>2. 0 * Minute = 0
        BY LimiterAssumption
      <4> QED BY <1>1, <2>1, <2>2, <3>3, <4>1, <4>2, CapacityFacts DEF PaidInv, Capacity
    <3> QED BY <3>1, <3>2, <3>3
  <2> QED BY <1>1, <2>1, <2>2 DEF LimiterInv, LimiterTypeOK
<1>7. CASE UNCHANGED limiterVars
  BY <1>7 DEF limiterVars, LimiterInv, LimiterTypeOK, BucketInv, PaidInv, EarnedInv, Capacity, Least
<1> QED BY <1>3, <1>4, <1>5, <1>6, <1>7 DEF LimiterNext

(* The account of the buckets is kept (ratelimit.go, Allow).               *)
THEOREM LimiterInvariance == LimiterSpec => []LimiterInv
  BY LimiterInitial, LimiterStep, PTL DEF LimiterSpec

(* However the requests of a client fall, no window lets more than a burst *)
(* and what the window earns through.                                      *)
THEOREM WindowBoundHolds == LimiterSpec => []WindowBound
<1>1. ASSUME LimiterInv, NEW c \in Clients
      PROVE  passed[c] * Minute <= Capacity + RequestsPerMinute * (clock - opened)
  <2>1. /\ clock \in Nat /\ opened \in Nat /\ opened <= clock
        /\ passed[c] * Minute \in Nat /\ 0 * Minute = 0
        /\ RequestsPerMinute * (clock - opened) \in Nat
    BY <1>1, LimiterAssumption, ProductMonotone, ProductSplits DEF LimiterInv, LimiterTypeOK
  <2>2. CASE buckets[c] = Unseen \/ buckets[c].updated < opened
    BY <1>1, <2>1, <2>2, CapacityFacts DEF LimiterInv, PaidInv
  <2>3. CASE buckets[c] # Unseen /\ ~(buckets[c].updated < opened)
    <3> DEFINE then == buckets[c].updated
    <3>1. /\ then \in Nat /\ opened <= then /\ then <= clock /\ buckets[c].tokens \in Nat
          /\ passed[c] * Minute + buckets[c].tokens
               <= Capacity + RequestsPerMinute * (then - opened)
      BY <1>1, <2>1, <2>3, AvailableFacts DEF LimiterInv, PaidInv, BucketInv
    <3>2. /\ RequestsPerMinute * (then - opened) <= RequestsPerMinute * (clock - opened)
          /\ RequestsPerMinute * (then - opened) \in Nat
      BY <2>1, <3>1, ProductMonotone, LimiterAssumption
    <3> QED BY <2>1, <3>1, <3>2, CapacityFacts
  <2> QED BY <2>2, <2>3
<1>2. LimiterInv => WindowBound
  BY <1>1 DEF WindowBound
<1> QED BY <1>2, LimiterInvariance, PTL

(* A client is refused only within the time of one token of its last pass. *)
THEOREM QuietClientPassesHolds == LimiterSpec => QuietClientPasses
<1>1. ASSUME LimiterInv, LimiterInv', NEW c \in Clients, Refuse(c)
      PROVE  RequestsPerMinute * (clock - lastPass[c]) <= Minute
  <2>1. /\ Available(c) \in Nat /\ Available(c) < Minute /\ buckets'[c] # Unseen
        /\ buckets'[c] = [tokens |-> Available(c), updated |-> clock]
        /\ lastPass' = lastPass
    BY <1>1, AvailableFacts, LimiterAssumption DEF Refuse, Keep, LimiterInv, LimiterTypeOK
  <2>2. Least(Capacity, RequestsPerMinute * (clock - lastPass[c])) <= Available(c)
    BY <1>1, <2>1 DEF LimiterInv, EarnedInv, Capacity, Least
  <2>3. clock \in Nat /\ lastPass[c] \in Nat /\ lastPass[c] <= clock
    BY <1>1, <2>1 DEF LimiterInv, LimiterTypeOK, BucketInv
  <2>4. RequestsPerMinute * (clock - lastPass[c]) \in Nat
    BY <2>3, ProductSplits, LimiterAssumption
  <2> QED BY <2>1, <2>2, <2>4, CapacityFacts, LimiterAssumption DEF Least
<1>2. LimiterInv /\ LimiterInv' /\ [LimiterNext]_limiterVars
        => [\A c \in Clients :
              Refuse(c) => RequestsPerMinute * (clock - lastPass[c]) <= Minute]_limiterVars
  BY <1>1
<1> QED BY <1>2, LimiterInvariance, PTL DEF LimiterSpec, QuietClientPasses
=============================================================================
