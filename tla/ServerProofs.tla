------------------------------ MODULE ServerProofs -----------------------------
(***************************************************************************)
(* The team service, and the rate limiter its requests pass first.         *)
(*                                                                         *)
(* For any number of overlapping requests: the team service is well typed, *)
(* no row is left without the rows it refers to, every role is accounted   *)
(* for in the audit trail, and roles are granted by admins alone.          *)
(*                                                                         *)
(* For every number of callers, burst, rate and clock: the lazy, sweeping  *)
(* limiter of RateLimiter implements the steady token bucket, and so       *)
(* admits no more than the configured rate over any interval.              *)
(***************************************************************************)
EXTENDS TeamService, RateLimiter, TLAPS

(* Arithmetic on symbolic products, stated once. *)

LEMMA AddOneTimes ==
  ASSUME NEW x \in Int, NEW r \in Int
  PROVE  (x + 1) * r = x * r + r
OBVIOUS

LEMMA TimesMonotone ==
  ASSUME NEW a \in Int, NEW b \in Int, NEW r \in Nat, a <= b
  PROVE  a * r <= b * r
OBVIOUS

LEMMA DivBound ==
  ASSUME NEW a \in Nat, NEW d \in Nat \ {0}
  PROVE  /\ a \div d \in Nat
         /\ a < (a \div d + 1) * d
OBVIOUS
-------------------------------------------------------------------------------
(* What a call may spend. *)

\* Time does not run back, and a bucket is touched by its refill.
ClockInv ==
  \A k \in Keys : buckets[k] # NoBucket =>
    /\ buckets[k].last <= now
    /\ buckets[k].seen = buckets[k].last

LEMMA AvailableInRange ==
  ASSUME NEW b \in Bucket \union {NoBucket}, now \in Nat,
         b # NoBucket => b.last <= now
  PROVE  Available(b, now) \in 0..Burst
<1>1. CASE b = NoBucket
  BY <1>1, LimiterAssumption DEF Available
<1>2. CASE b # NoBucket
  <2>1. b \in Bucket
    BY <1>2
  <2>2. (now - b.last) * Rate \in Nat
    BY <1>2, <2>1, LimiterAssumption DEF Bucket
  <2>3. QED
    BY <1>2, <2>1, <2>2, LimiterAssumption
       DEF Available, Refilled, Least, Bucket
<1>3. QED
  BY <1>1, <1>2

\* Dropping an idle bucket does not change what its caller may spend: left alone
\* for IdleTTL it would be full again.
LEMMA SweepIsInvisible ==
  ASSUME LimiterTypeOK, ClockInv, NEW k \in Keys
  PROVE  Available(Swept[k], now) = Available(buckets[k], now)
<1>1. CASE ~(Sweeping /\ Idle(buckets[k]))
  BY <1>1 DEF Swept
<1>2. CASE Sweeping /\ Idle(buckets[k])
  <2> DEFINE b == buckets[k]
  <2>1. b \in Bucket /\ b # NoBucket /\ now - b.last > IdleTTL
    BY <1>2 DEF Idle, LimiterTypeOK, ClockInv
  <2>2. IdleTTL * Rate <= (now - b.last) * Rate
    BY <2>1, TimesMonotone, LimiterAssumption DEF LimiterTypeOK, Bucket
  <2>3. (now - b.last) * Rate \in Int
    BY <2>1, LimiterAssumption DEF LimiterTypeOK, Bucket
  <2>4. Refilled(b, now) = Burst
    BY <2>1, <2>2, <2>3, LimiterAssumption DEF Refilled, Least, Bucket
  <2>5. Swept[k] = NoBucket
    BY <1>2 DEF Swept
  <2>6. QED
    BY <2>1, <2>4, <2>5 DEF Available
<1>3. QED
  BY <1>1, <1>2

\* A tick credits every caller one tick's worth, up to the burst.
LEMMA TickFills ==
  ASSUME NEW b \in Bucket \union {NoBucket}, NEW t \in Nat,
         b # NoBucket => b.last <= t
  PROVE  Available(b, t + 1) = Least(Burst, Available(b, t) + Rate)
<1>1. CASE b = NoBucket
  BY <1>1, LimiterAssumption DEF Available, Least
<1>2. CASE b # NoBucket
  <2>1. b \in Bucket
    BY <1>2
  <2>2. ((t + 1) - b.last) * Rate = (t - b.last) * Rate + Rate
    <3>1. (t + 1) - b.last = (t - b.last) + 1
      BY <2>1 DEF Bucket
    <3>2. QED
      BY <2>1, <3>1, AddOneTimes, LimiterAssumption DEF Bucket
  <2>3. (t - b.last) * Rate \in Nat
    BY <1>2, <2>1, LimiterAssumption DEF Bucket
  <2>4. /\ Available(b, t) = Least(Burst, b.tokens + (t - b.last) * Rate)
        /\ Available(b, t + 1) = Least(Burst, b.tokens + ((t - b.last) * Rate + Rate))
    BY <1>2, <2>2 DEF Available, Refilled
  <2>5. ASSUME NEW x \in Nat
        PROVE  Least(Burst, b.tokens + (x + Rate))
                 = Least(Burst, Least(Burst, b.tokens + x) + Rate)
    BY <2>1, LimiterAssumption DEF Least, Bucket
  <2>6. QED
    BY <2>3, <2>4, <2>5
<1>3. QED
  BY <1>1, <1>2
-------------------------------------------------------------------------------
(* Type correctness. *)

LIInv == LimiterTypeOK /\ ClockInv

LEMMA SweptType ==
  ASSUME LIInv, NEW k \in Keys
  PROVE  /\ Swept[k] \in Bucket \union {NoBucket}
         /\ Swept[k] # NoBucket => /\ Swept[k] = buckets[k]
                                   /\ Swept[k].last <= now
                                   /\ Swept[k].seen = Swept[k].last
BY DEF LIInv, LimiterTypeOK, ClockInv, Swept

LEMMA InitLI == LimiterInit => LIInv
BY LimiterAssumption DEF LimiterInit, LIInv, LimiterTypeOK, ClockInv

LEMMA AdviceType ==
  ASSUME NEW u \in 0..Burst, u < Cost
  PROVE  Advice(u) \in Nat
<1>1. Rate * TicksPerSecond \in Nat \ {0}
  BY LimiterAssumption
<1>2. Cost - u \in Nat
  BY LimiterAssumption
<1>3. (Cost - u) \div (Rate * TicksPerSecond) \in Nat
  BY <1>1, <1>2, DivBound
<1>4. QED
  BY <1>3 DEF Advice

LEMMA NextLI == LIInv /\ [LimiterNext]_limiterVars => LIInv'
<1> SUFFICES ASSUME LIInv, [LimiterNext]_limiterVars
             PROVE  LIInv'
  OBVIOUS
<1>1. CASE Tick
  BY <1>1 DEF Tick, LIInv, LimiterTypeOK, ClockInv, Bucket
<1>2. CASE Mark
  BY <1>2 DEF Mark, LIInv, LimiterTypeOK, ClockInv
<1>3. ASSUME NEW k \in Keys, Allow(k)
      PROVE  LIInv'
  <2> DEFINE units == Available(Swept[k], now)
             new   == [tokens |-> IF units >= Cost THEN units - Cost ELSE units,
                       last |-> now, seen |-> now]
  <2>1. units \in 0..Burst
    BY SweptType, AvailableInRange DEF LIInv, LimiterTypeOK
  <2>2. new \in Bucket
    BY <2>1, LimiterAssumption DEF Bucket, LIInv, LimiterTypeOK
  <2>3. buckets' = [Swept EXCEPT ![k] = new] /\ now' = now /\ since' = since
    BY <1>3 DEF Allow
  <2>4. ASSUME NEW j \in Keys
        PROVE  /\ buckets'[j] \in Bucket \union {NoBucket}
               /\ buckets'[j] # NoBucket => /\ buckets'[j].last <= now
                                            /\ buckets'[j].seen = buckets'[j].last
    <3>1. CASE j = k
      BY <2>2, <2>3, <3>1 DEF Swept, LIInv, LimiterTypeOK
    <3>2. CASE j # k
      BY <2>3, <3>2, SweptType DEF Swept
    <3>3. QED
      BY <3>1, <3>2
  <2>5. buckets' \in [Keys -> Bucket \union {NoBucket}]
    BY <2>3, <2>4 DEF Swept
  <2>6. lastSweep' \in Int
    BY <1>3 DEF Allow, LIInv, LimiterTypeOK
  <2>7. taken' \in [Keys -> Nat]
    BY <1>3 DEF Allow, LIInv, LimiterTypeOK
  <2>8. units < Cost => now + Advice(units) * TicksPerSecond \in Nat
    BY <2>1, AdviceType, LimiterAssumption DEF LIInv, LimiterTypeOK
  <2>9. retryAt' \in [Keys -> Nat \union {NoAdvice}]
    BY <1>3, <2>1, <2>8, LimiterAssumption DEF Allow, LIInv, LimiterTypeOK
  <2>10. QED
    BY <2>3, <2>4, <2>5, <2>6, <2>7, <2>9 DEF LIInv, LimiterTypeOK, ClockInv
<1>4. CASE UNCHANGED limiterVars
  BY <1>4 DEF limiterVars, LIInv, LimiterTypeOK, ClockInv
<1>5. QED
  BY <1>1, <1>2, <1>3, <1>4 DEF LimiterNext

\* Every reachable state has its type: no bucket ever holds more than the burst or
\* less than nothing.
THEOREM LimiterIsWellTyped == LimiterSpec => []LimiterTypeOK
<1>1. LIInv => LimiterTypeOK
  BY DEF LIInv
<1>2. QED
  BY InitLI, NextLI, <1>1, PTL DEF LimiterSpec
-------------------------------------------------------------------------------
(* The steady bucket. *)

Level == [k \in Keys |-> Available(buckets[k], now)]

LEMMA LevelType == LIInv => Level \in [Keys -> 0..Burst]
<1> SUFFICES ASSUME LIInv, NEW k \in Keys
             PROVE  Available(buckets[k], now) \in 0..Burst
  BY DEF Level
<1>1. /\ buckets[k] \in Bucket \union {NoBucket}
      /\ now \in Nat
      /\ buckets[k] # NoBucket => buckets[k].last <= now
  BY DEF LIInv, LimiterTypeOK, ClockInv
<1>2. QED
  BY <1>1, AvailableInRange

LEMMA TickMaps ==
  ASSUME LIInv, Tick
  PROVE  Level' = [k \in Keys |-> Least(Burst, Level[k] + Rate)]
<1>1. buckets' = buckets /\ now' = now + 1 /\ now \in Nat
  BY DEF Tick, LIInv, LimiterTypeOK
<1>2. ASSUME NEW k \in Keys
      PROVE  Available(buckets[k], now + 1) = Least(Burst, Available(buckets[k], now) + Rate)
  <2>1. /\ buckets[k] \in Bucket \union {NoBucket}
        /\ buckets[k] # NoBucket => buckets[k].last <= now
    BY DEF LIInv, LimiterTypeOK, ClockInv
  <2>2. QED
    BY <1>1, <2>1, TickFills
<1>3. Level' = [k \in Keys |-> Available(buckets[k], now + 1)]
  BY <1>1 DEF Level
<1>4. QED
  BY <1>2, <1>3 DEF Level

\* A call that is admitted takes one token; a refused one leaves every level alone.
LEMMA AllowMaps ==
  ASSUME LIInv, NEW k \in Keys, Allow(k)
  PROVE  /\ now' = now /\ since' = since
         /\ \/ /\ Level[k] >= Cost
               /\ Level' = [Level EXCEPT ![k] = @ - Cost]
               /\ taken' = [taken EXCEPT ![k] = @ + 1]
            \/ Level' = Level /\ taken' = taken
<1> DEFINE units == Available(Swept[k], now)
           left  == IF units >= Cost THEN units - Cost ELSE units
           new   == [tokens |-> left, last |-> now, seen |-> now]
<1>1. /\ buckets' = [Swept EXCEPT ![k] = new]
      /\ now' = now /\ since' = since
      /\ taken' = IF units >= Cost THEN [taken EXCEPT ![k] = @ + 1] ELSE taken
  BY DEF Allow
<1>2. \A j \in Keys : Available(Swept[j], now) = Available(buckets[j], now)
  BY SweepIsInvisible DEF LIInv
<1>3. units = Level[k] /\ units \in 0..Burst
  BY <1>2, LevelType DEF Level
<1>4. new \in Bucket /\ new # NoBucket
  BY <1>3, LimiterAssumption, NoBucketAssumption DEF Bucket, LIInv, LimiterTypeOK
<1>5. Available(new, now) = left
  <2>1. now - now = 0 /\ 0 * Rate = 0
    BY LimiterAssumption DEF LIInv, LimiterTypeOK
  <2>2. left \in 0..Burst
    BY <1>3, LimiterAssumption
  <2>3. QED
    BY <1>4, <2>1, <2>2, LimiterAssumption DEF Available, Refilled, Least
<1>6. Level' = [j \in Keys |-> Available(buckets'[j], now)]
  BY <1>1 DEF Level
<1>7. ASSUME NEW j \in Keys
      PROVE  Available(buckets'[j], now) = IF j = k THEN left ELSE Level[j]
  <2>1. CASE j = k
    BY <1>1, <1>5, <2>1 DEF Swept
  <2>2. CASE j # k
    BY <1>1, <1>2, <2>2 DEF Swept, Level
  <2>3. QED
    BY <2>1, <2>2
<1>8. Level' = [Level EXCEPT ![k] = left]
  BY <1>6, <1>7 DEF Level
<1>9. CASE units >= Cost
  BY <1>1, <1>3, <1>8, <1>9
<1>10. CASE ~(units >= Cost)
  BY <1>1, <1>3, <1>8, <1>10 DEF Level
<1>11. QED
  BY <1>9, <1>10

LEMMA NextMaps == LIInv /\ [LimiterNext]_limiterVars => [Steady!Next]_(Steady!vars)
<1> SUFFICES ASSUME LIInv, [LimiterNext]_limiterVars
             PROVE  Steady!Next \/ UNCHANGED Steady!vars
  OBVIOUS
<1>1. CASE Tick
  <2>1. Level' = [k \in Keys |-> Steady!Least(Burst, Level[k] + Rate)]
    BY <1>1, TickMaps DEF Least, Steady!Least
  <2>2. Steady!Tick
    BY <1>1, <2>1 DEF Tick, Steady!Tick, Level
  <2>3. QED
    BY <2>2 DEF Steady!Next
<1>2. CASE Mark
  BY <1>2 DEF Mark, Steady!Mark, Steady!Next
<1>3. ASSUME NEW k \in Keys, Allow(k)
      PROVE  Steady!Take(k) \/ UNCHANGED Steady!vars
  BY <1>3, AllowMaps DEF Steady!Take, Steady!vars, Level
<1>4. CASE UNCHANGED limiterVars
  BY <1>4 DEF limiterVars, Steady!vars
<1>5. QED
  BY <1>1, <1>2, <1>3, <1>4 DEF LimiterNext, Steady!Next

\* The lazily refilled, swept map of buckets implements one steady token bucket per
\* caller: forgetting a caller is never observable in what the caller may spend.
THEOREM LimiterImplementsSteady == LimiterSpec => SteadySpec
<1>1. LimiterInit => Steady!Init
  BY DEF LimiterInit, Steady!Init, Available
<1>2. QED
  BY <1>1, InitLI, NextLI, NextMaps, PTL DEF LimiterSpec, SteadySpec, Steady!Spec
-------------------------------------------------------------------------------
(* The bound over any interval. *)

\* What was admitted and what may still be spent never exceed the burst plus what
\* accrued: RateBound alone says nothing of the tokens left.
QuotaInv ==
  \A k \in Keys : taken[k] * Cost + Level[k] <= Burst + (now - since) * Rate

LEMMA InitQuota == LimiterInit => QuotaInv
<1> SUFFICES ASSUME LimiterInit, NEW k \in Keys
             PROVE  taken[k] * Cost + Level[k] <= Burst + (now - since) * Rate
  BY DEF QuotaInv
<1>1. taken[k] = 0 /\ Level[k] = Burst /\ now - since = 0
  BY DEF LimiterInit, Level, Available
<1>2. 0 * Cost = 0 /\ 0 * Rate = 0
  BY LimiterAssumption
<1>3. QED
  BY <1>1, <1>2, LimiterAssumption

LEMMA NextQuota == LIInv /\ QuotaInv /\ [LimiterNext]_limiterVars => QuotaInv'
<1> SUFFICES ASSUME LIInv, QuotaInv, [LimiterNext]_limiterVars, NEW k \in Keys
             PROVE  taken'[k] * Cost + Level'[k] <= Burst + (now' - since') * Rate
  BY DEF QuotaInv
<1>0. /\ taken[k] * Cost + Level[k] <= Burst + (now - since) * Rate
      /\ taken[k] \in Nat /\ taken[k] * Cost \in Int
      /\ now \in Nat /\ since \in Nat /\ since <= now
      /\ (now - since) * Rate \in Int
      /\ Level[k] \in 0..Burst
  BY LevelType, LimiterAssumption DEF QuotaInv, LIInv, LimiterTypeOK
<1>1. CASE Tick
  <2>1. ((now + 1) - since) * Rate = (now - since) * Rate + Rate
    <3>1. (now + 1) - since = (now - since) + 1
      BY <1>0
    <3>2. QED
      BY <1>0, <3>1, AddOneTimes, LimiterAssumption
  <2>2. Level'[k] <= Level[k] + Rate /\ Level'[k] \in Int
    BY <1>0, <1>1, TickMaps, LimiterAssumption DEF Least
  <2>3. taken' = taken /\ since' = since /\ now' = now + 1
    BY <1>1 DEF Tick
  <2>4. QED
    BY <1>0, <2>1, <2>2, <2>3, LimiterAssumption
<1>2. CASE Mark
  <2>1. taken'[k] = 0 /\ Level' = Level /\ now' = now /\ since' = now
    BY <1>2 DEF Mark, Level
  <2>2. 0 * Cost = 0 /\ (now - now) * Rate = 0
    BY <1>0, LimiterAssumption
  <2>3. QED
    BY <1>0, <2>1, <2>2, LimiterAssumption
<1>3. ASSUME NEW j \in Keys, Allow(j)
      PROVE  taken'[k] * Cost + Level'[k] <= Burst + (now' - since') * Rate
  <2>1. (taken[k] + 1) * Cost = taken[k] * Cost + Cost
    BY <1>0, AddOneTimes, LimiterAssumption
  <2>2. \/ taken'[k] = taken[k] /\ Level'[k] = Level[k]
        \/ taken'[k] = taken[k] + 1 /\ Level'[k] = Level[k] - Cost
    BY <1>3, AllowMaps, LevelType DEF LIInv, LimiterTypeOK
  <2>3. now' = now /\ since' = since
    BY <1>3 DEF Allow
  <2>4. QED
    BY <1>0, <2>1, <2>2, <2>3, LimiterAssumption
<1>4. CASE UNCHANGED limiterVars
  BY <1>0, <1>4 DEF limiterVars, Level
<1>5. QED
  BY <1>1, <1>2, <1>3, <1>4 DEF LimiterNext

\* Over any interval, however its calls are spread and however often its bucket is
\* swept, a caller is admitted at most the burst plus the sustained rate.
THEOREM LimiterRateBound == LimiterSpec => []RateBound
<1>1. LIInv /\ QuotaInv => RateBound
  <2> SUFFICES ASSUME LIInv, QuotaInv, NEW k \in Keys
               PROVE  taken[k] * Cost <= Burst + (now - since) * Rate
    BY DEF RateBound
  <2>1. /\ taken[k] * Cost + Level[k] <= Burst + (now - since) * Rate
        /\ taken[k] * Cost \in Int /\ (now - since) * Rate \in Int
        /\ Level[k] \in 0..Burst
    BY LevelType, LimiterAssumption DEF QuotaInv, LIInv, LimiterTypeOK
  <2>2. QED
    BY <2>1, LimiterAssumption
<1>2. QED
  BY InitLI, NextLI, InitQuota, NextQuota, <1>1, PTL DEF LimiterSpec
-------------------------------------------------------------------------------
(* The Retry-After advice. *)

\* A standing advice was computed from the bucket as it still is, unless the bucket
\* was swept since.
AdviceInv ==
  \A k \in Keys : retryAt[k] # NoAdvice /\ buckets[k] # NoBucket =>
    /\ buckets[k].tokens < Cost
    /\ retryAt[k] = buckets[k].last + Advice(buckets[k].tokens) * TicksPerSecond

LEMMA InitAdvice == LimiterInit => AdviceInv
BY DEF LimiterInit, AdviceInv

LEMMA NextAdvice == LIInv /\ AdviceInv /\ [LimiterNext]_limiterVars => AdviceInv'
<1> SUFFICES ASSUME LIInv, AdviceInv, [LimiterNext]_limiterVars
             PROVE  AdviceInv'
  OBVIOUS
<1>1. CASE Tick \/ Mark \/ UNCHANGED limiterVars
  BY <1>1 DEF Tick, Mark, limiterVars, AdviceInv
<1>2. ASSUME NEW j \in Keys, Allow(j), NEW k \in Keys,
             retryAt'[k] # NoAdvice, buckets'[k] # NoBucket
      PROVE  /\ buckets'[k].tokens < Cost
             /\ retryAt'[k]
                  = buckets'[k].last + Advice(buckets'[k].tokens) * TicksPerSecond
  <2> DEFINE units == Available(Swept[j], now)
  <2>1. CASE k = j
    <3>1. ~(units >= Cost) /\ retryAt'[k] = now + Advice(units) * TicksPerSecond
      BY <1>2, <2>1 DEF Allow, LIInv, LimiterTypeOK
    <3>2. buckets'[k] = [tokens |-> units, last |-> now, seen |-> now]
      BY <1>2, <2>1, <3>1 DEF Allow, Swept
    <3>3. units \in 0..Burst
      BY SweptType, AvailableInRange DEF LIInv, LimiterTypeOK
    <3>4. QED
      BY <3>1, <3>2, <3>3, LimiterAssumption
  <2>2. CASE k # j
    <3>1. retryAt'[k] = retryAt[k] /\ buckets'[k] = Swept[k]
      BY <1>2, <2>2 DEF Allow, Swept, LIInv, LimiterTypeOK
    <3>2. QED
      BY <1>2, <3>1, SweptType DEF AdviceInv
  <2>3. QED
    BY <2>1, <2>2
<1>3. QED
  BY <1>1, <1>2 DEF LimiterNext, AdviceInv

\* The truncated advice and one second more always earn a whole token.
LEMMA AdvicePlusOne ==
  ASSUME NEW u \in 0..Burst, u < Cost
  PROVE  u + ((Advice(u) + 1) * TicksPerSecond) * Rate >= Cost
<1> DEFINE d == Rate * TicksPerSecond
           q == (Cost - u) \div d
<1>1. d \in Nat \ {0} /\ Cost - u \in Nat
  BY LimiterAssumption
<1>2. q \in Nat /\ Cost - u < (q + 1) * d
  BY <1>1, DivBound
<1>3. Advice(u) \in Nat /\ q <= Advice(u)
  BY <1>2 DEF Advice
<1> HIDE DEF q
<1>4. (q + 1) * d <= (Advice(u) + 1) * d
  BY <1>1, <1>2, <1>3, TimesMonotone
<1>5. (Advice(u) + 1) * d = ((Advice(u) + 1) * TicksPerSecond) * Rate
  BY <1>3, LimiterAssumption
<1>6. (q + 1) * d \in Int /\ (Advice(u) + 1) * d \in Int
  BY <1>1, <1>2, <1>3
<1>7. QED
  <2> HIDE DEF d
  <2>1. QED
    BY <1>1, <1>2, <1>4, <1>5, <1>6, LimiterAssumption

\* A refused caller who waits the advice and one second more is admitted, whoever
\* else calls and whatever is swept meanwhile.
THEOREM LimiterRetryAfter == LimiterSpec => []RetryAfterOneMoreSecond
<1>1. LIInv /\ AdviceInv => RetryAfterOneMoreSecond
  <2> SUFFICES ASSUME LIInv, AdviceInv, NEW k \in Keys, retryAt[k] # NoAdvice,
                      now >= retryAt[k] + TicksPerSecond
               PROVE  Available(buckets[k], now) >= Cost
    BY DEF RetryAfterOneMoreSecond
  <2> DEFINE b == buckets[k]
  <2>1. CASE b = NoBucket
    BY <2>1, LimiterAssumption DEF Available
  <2>2. CASE b # NoBucket
    <3>1. /\ b \in Bucket /\ b.last <= now /\ b.tokens < Cost
          /\ retryAt[k] = b.last + Advice(b.tokens) * TicksPerSecond
      BY <2>2 DEF LIInv, LimiterTypeOK, ClockInv, AdviceInv
    <3>2. now \in Nat /\ b.tokens \in 0..Burst /\ b.last \in Nat
      BY <3>1 DEF LIInv, LimiterTypeOK, Bucket
    <3>3. Advice(b.tokens) \in Nat
      BY <3>1, <3>2, AdviceType
    <3> HIDE DEF b
    <3> DEFINE wait == (Advice(b.tokens) + 1) * TicksPerSecond
    <3>4. wait = Advice(b.tokens) * TicksPerSecond + TicksPerSecond
      BY <3>3, AddOneTimes, LimiterAssumption
    <3>5. wait \in Int /\ wait <= now - b.last
      BY <3>1, <3>2, <3>3, <3>4, LimiterAssumption DEF b
    <3>6. wait * Rate <= (now - b.last) * Rate
      BY <3>2, <3>5, TimesMonotone, LimiterAssumption
    <3>7. b.tokens + wait * Rate >= Cost
      BY <3>1, <3>2, AdvicePlusOne
    <3>8. wait * Rate \in Int /\ (now - b.last) * Rate \in Int
      BY <3>2, <3>5, LimiterAssumption
    <3> HIDE DEF wait
    <3>9. Refilled(b, now) >= Cost
      BY <3>2, <3>6, <3>7, <3>8, LimiterAssumption DEF Refilled, Least
    <3>10. QED
      BY <2>2, <3>9 DEF Available, b
  <2>3. QED
    BY <2>1, <2>2
<1>2. QED
  BY InitLI, NextLI, InitAdvice, NextAdvice, <1>1, PTL DEF LimiterSpec
-------------------------------------------------------------------------------
(* The team service. *)

\* A request past its arrival still holds what it asked for.
Holding == \A r \in Requests : pc[r] # "idle" => asked[r] \in Ask

TeamInv == TypeOK /\ Holding

USE StoreAssumption, ServiceAssumption

-------------------------------------------------------------------------------
(* The store's writes keep its tables well typed. *)

LEMMA LogType ==
  ASSUME StoreTypeOK, NEW a \in Subjects, NEW action \in Actions,
         NEW r \in Roles \union {None}, NEW target \in Workspaces \union Packs,
         Log(a, action, r, target)
  PROVE  /\ audit' = Append(audit, [actor |-> a, action |-> action, role |-> r,
                                    target |-> target])
         /\ audit' \in Seq(Record)
BY DEF Log, StoreTypeOK, Record

LEMMA UpsertUserType ==
  ASSUME StoreTypeOK, NEW u \in Subjects, UpsertUser(u)
  PROVE  StoreTypeOK'
BY DEF UpsertUser, StoreTypeOK

LEMMA CreateWorkspaceType ==
  ASSUME StoreTypeOK, NEW u \in Subjects, NEW w \in Workspaces, CreateWorkspace(u, w)
  PROVE  StoreTypeOK'
<1>1. audit' \in Seq(Record)
  BY LogType DEF CreateWorkspace, Actions
<1>2. owner' \in [Workspaces -> Subjects \union {None}]
  BY DEF CreateWorkspace, StoreTypeOK
<1>3. role' \in [Workspaces -> [Subjects -> Roles \union {None}]]
  BY DEF CreateWorkspace, StoreTypeOK, Roles
<1>4. QED
  BY <1>1, <1>2, <1>3 DEF CreateWorkspace, StoreTypeOK

LEMMA RenameWorkspaceType ==
  ASSUME StoreTypeOK, NEW a \in Subjects, NEW w \in Workspaces, RenameWorkspace(a, w)
  PROVE  StoreTypeOK'
<1>1. audit' \in Seq(Record)
  BY LogType DEF RenameWorkspace, Actions
<1>2. QED
  BY <1>1 DEF RenameWorkspace, StoreTypeOK

LEMMA AddMemberType ==
  ASSUME StoreTypeOK, NEW a \in Subjects, NEW w \in Workspaces, NEW u \in Subjects,
         NEW r \in Roles, AddMember(a, w, u, r)
  PROVE  StoreTypeOK'
<1>1. audit' \in Seq(Record)
  BY LogType DEF AddMember, Actions
<1>2. role' \in [Workspaces -> [Subjects -> Roles \union {None}]]
  BY DEF AddMember, StoreTypeOK
<1>3. QED
  BY <1>1, <1>2 DEF AddMember, StoreTypeOK

LEMMA ActivatePackType ==
  ASSUME StoreTypeOK, NEW a \in Subjects, NEW p \in Packs, NEW v \in Versions,
         ActivatePack(a, p, v)
  PROVE  StoreTypeOK'
<1>1. audit' \in Seq(Record)
  BY LogType DEF ActivatePack, Actions
<1>2. active' \in [Packs -> Versions \union {None}]
  BY DEF ActivatePack, StoreTypeOK
<1>3. QED
  BY <1>1, <1>2 DEF ActivatePack, StoreTypeOK

LEMMA SaveSnapshotType ==
  ASSUME StoreTypeOK, NEW w \in Workspaces, NEW u \in Subjects,
         SaveDiagramSnapshot(w, u)
  PROVE  StoreTypeOK'
BY DEF SaveDiagramSnapshot, StoreTypeOK

LEMMA WriteType ==
  ASSUME StoreTypeOK, NEW q \in Ask, Write(q)
  PROVE  StoreTypeOK'
<1>1. /\ q.by \in Subjects
      /\ q.ws \in Workspaces
      /\ q.user \in Subjects
      /\ q.as \in Roles
      /\ q.pack \in Packs
      /\ q.version \in Versions
  BY DEF Ask
<1>2. QED
  BY <1>1, CreateWorkspaceType, RenameWorkspaceType, AddMemberType,
     ActivatePackType, SaveSnapshotType DEF Write

-------------------------------------------------------------------------------
(* The type invariant. *)

LEMMA InitTeam == Init => TeamInv
BY DEF Init, StoreInit, TeamInv, TypeOK, StoreTypeOK, Holding

LEMMA NextTeam == TeamInv /\ [Next]_vars => TeamInv'
<1> SUFFICES ASSUME TeamInv, [Next]_vars
             PROVE  TeamInv'
  OBVIOUS
<1> USE DEF TeamInv
<1>1. ASSUME NEW r \in Requests, Identify(r)
      PROVE  TeamInv'
  <2>1. PICK q \in Ask :
          /\ IF q.op = "draw" THEN UNCHANGED tables ELSE UpsertUser(q.by)
          /\ IF q.op = "me"
             THEN UNCHANGED <<pc, asked>>
             ELSE /\ Goto(r, "identified")
                  /\ asked' = [asked EXCEPT ![r] = q]
    BY <1>1 DEF Identify
  <2>2. StoreTypeOK'
    <3>1. q.by \in Subjects
      BY DEF Ask
    <3>2. CASE UNCHANGED tables
      BY <3>2 DEF tables, TypeOK, StoreTypeOK
    <3>3. CASE UpsertUser(q.by)
      BY <3>1, <3>3, UpsertUserType DEF TypeOK
    <3>4. QED
      BY <2>1, <3>2, <3>3
  <2>3. UNCHANGED held
    BY <1>1 DEF Identify
  <2>4. CASE UNCHANGED <<pc, asked>>
    BY <2>2, <2>3, <2>4 DEF TypeOK, Holding
  <2>5. CASE Goto(r, "identified") /\ asked' = [asked EXCEPT ![r] = q]
    BY <2>2, <2>3, <2>5 DEF TypeOK, Holding, Goto
  <2>6. QED
    BY <2>1, <2>4, <2>5
<1>2. ASSUME NEW r \in Requests, Authorize(r)
      PROVE  TeamInv'
  <2>1. StoreTypeOK' /\ UNCHANGED held
    BY <1>2 DEF Authorize, tables, TypeOK, StoreTypeOK
  <2>2. QED
    BY <1>2, <2>1 DEF Authorize, Answer, Goto, TypeOK, Holding
<1>3. ASSUME NEW r \in Requests, Commit(r)
      PROVE  TeamInv'
  <2>1. asked[r] \in Ask /\ Write(asked[r])
    BY <1>3 DEF Commit, Holding
  <2>2. StoreTypeOK'
    BY <2>1, WriteType DEF TypeOK
  <2>3. held' \subseteq Workspaces \X Subjects \X Roles
    BY <1>3 DEF Commit, TypeOK
  <2>4. QED
    BY <1>3, <2>2, <2>3 DEF Commit, Answer, Goto, TypeOK, Holding
<1>4. ASSUME NEW r \in Requests, Fail(r)
      PROVE  TeamInv'
  <2>1. StoreTypeOK' /\ UNCHANGED held
    BY <1>4 DEF Fail, tables, TypeOK, StoreTypeOK
  <2>2. QED
    BY <1>4, <2>1 DEF Fail, Answer, Goto, TypeOK, Holding
<1>5. CASE UNCHANGED vars
  BY <1>5 DEF vars, tables, TypeOK, StoreTypeOK, Holding
<1>6. QED
  BY <1>1, <1>2, <1>3, <1>4, <1>5 DEF Next

\* The tables, the audit trail and the requests in flight are always well typed.
THEOREM TeamTypeOK == Spec => []TypeOK
<1>1. TeamInv => TypeOK
  BY DEF TeamInv
<1>2. QED
  BY InitTeam, NextTeam, <1>1, PTL DEF Spec

-------------------------------------------------------------------------------
(* What a step does to the tables. *)

\* A committed write appends one record at most.
LEMMA AuditGrows ==
  ASSUME TeamInv, NEW q \in Ask, Write(q)
  PROVE  \/ audit' = audit
         \/ /\ q.op # "draw"
            /\ \E e \in Record : e.actor = q.by /\ audit' = Append(audit, e)
<1>1. /\ q.by \in Subjects
      /\ q.ws \in Workspaces
      /\ q.as \in Roles
      /\ q.pack \in Packs
  BY DEF Ask
<1>2. ASSUME NEW action \in Actions, NEW r \in Roles \union {None},
             NEW target \in Workspaces \union Packs, Log(q.by, action, r, target)
      PROVE  \E e \in Record : e.actor = q.by /\ audit' = Append(audit, e)
  <2> DEFINE e == [actor |-> q.by, action |-> action, role |-> r, target |-> target]
  <2>1. e \in Record /\ e.actor = q.by
    BY <1>1 DEF Record
  <2>2. audit' = Append(audit, e)
    BY <1>2 DEF Log
  <2>3. QED
    BY <2>1, <2>2
<1>3. ASSUME q.op = "create", NEW w \in Workspaces, CreateWorkspace(q.by, w)
      PROVE  \E e \in Record : e.actor = q.by /\ audit' = Append(audit, e)
  BY <1>2, <1>3 DEF CreateWorkspace, Actions
<1>4. CASE q.op = "rename" /\ RenameWorkspace(q.by, q.ws)
  BY <1>1, <1>2, <1>4 DEF RenameWorkspace, Actions
<1>5. CASE q.op = "add-member" /\ AddMember(q.by, q.ws, q.user, q.as)
  BY <1>1, <1>2, <1>5 DEF AddMember, Actions
<1>6. CASE q.op = "activate" /\ ActivatePack(q.by, q.pack, q.version)
  BY <1>1, <1>2, <1>6 DEF ActivatePack, Actions
<1>7. CASE q.op = "draw" /\ SaveDiagramSnapshot(q.ws, q.by)
  BY <1>7 DEF SaveDiagramSnapshot
<1>8. QED
  BY <1>3, <1>4, <1>5, <1>6, <1>7 DEF Write

\* Steps other than Commit leave the trail, the roster and the owners alone.
LEMMA OnlyCommitWrites ==
  ASSUME TeamInv, [Next]_vars, \A r \in Requests : ~Commit(r)
  PROVE  /\ UNCHANGED <<owner, role, audit, held>>
         /\ users \subseteq users'
BY DEF Next, vars, tables, Identify, UpsertUser, Authorize, Fail

LEMMA Appended ==
  ASSUME NEW S, NEW s \in Seq(S), NEW e \in S
  PROVE  /\ Len(Append(s, e)) = Len(s) + 1
         /\ Append(s, e)[Len(s) + 1] = e
         /\ \A i \in 1..Len(s) : Append(s, e)[i] = s[i]
OBVIOUS

-------------------------------------------------------------------------------
(* No row without the rows it refers to. *)

\* Whoever may come to write on a team route is a user the store knows already.
CallersAreKnown ==
  \A r \in Requests :
    pc[r] # "idle" /\ asked[r].op # "draw" => asked[r].by \in users

AnchorInv == RowsAreAnchored /\ CallersAreKnown

LEMMA InitAnchor == Init => AnchorInv
BY DEF Init, StoreInit, AnchorInv, RowsAreAnchored, CallersAreKnown

LEMMA NextAnchor == TeamInv /\ AnchorInv /\ [Next]_vars => AnchorInv'
<1> SUFFICES ASSUME TeamInv, AnchorInv, [Next]_vars
             PROVE  AnchorInv'
  OBVIOUS
<1>1. CallersAreKnown'
  <2>1. ASSUME NEW r \in Requests, Identify(r)
        PROVE  CallersAreKnown'
    <3>1. PICK q \in Ask :
            /\ IF q.op = "draw" THEN UNCHANGED tables ELSE UpsertUser(q.by)
            /\ IF q.op = "me"
               THEN UNCHANGED <<pc, asked>>
               ELSE /\ Goto(r, "identified")
                    /\ asked' = [asked EXCEPT ![r] = q]
      BY <2>1 DEF Identify
    <3>2. users \subseteq users' /\ (q.op # "draw" => q.by \in users')
      BY <3>1 DEF UpsertUser, tables
    <3>3. QED
      BY <3>1, <3>2 DEF AnchorInv, CallersAreKnown, TeamInv, TypeOK, Goto
  <2>2. ASSUME NEW r \in Requests, Authorize(r) \/ Commit(r) \/ Fail(r)
        PROVE  CallersAreKnown'
    <3>1. users \subseteq users'
      BY <2>2 DEF Authorize, Commit, Fail, tables, Write, CreateWorkspace,
                  RenameWorkspace, AddMember, ActivatePack, SaveDiagramSnapshot
    <3>2. /\ \A t \in Requests \ {r} : pc'[t] = pc[t] /\ asked'[t] = asked[t]
          /\ pc'[r] = "idle" \/ (pc[r] # "idle" /\ asked'[r] = asked[r])
      BY <2>2 DEF Authorize, Commit, Fail, Answer, Goto, TeamInv, TypeOK
    <3>3. QED
      BY <3>1, <3>2 DEF AnchorInv, CallersAreKnown
  <2>3. CASE UNCHANGED vars
    BY <2>3 DEF vars, tables, AnchorInv, CallersAreKnown
  <2>4. QED
    BY <2>1, <2>2, <2>3 DEF Next
<1>2. CASE \A r \in Requests : ~Commit(r)
  BY <1>1, <1>2, OnlyCommitWrites DEF AnchorInv, RowsAreAnchored
<1>3. ASSUME NEW r \in Requests, Commit(r)
      PROVE  RowsAreAnchored'
  <2> DEFINE q == asked[r]
  <2>1. q \in Ask /\ Write(q)
    BY <1>3 DEF Commit, TeamInv, Holding
  <2>2. /\ q.by \in Subjects
        /\ q.ws \in Workspaces
        /\ q.user \in Subjects
        /\ q.as \in Roles
    BY <2>1 DEF Ask
  <2>3. q.op # "draw" => q.by \in users
    BY <1>3 DEF AnchorInv, CallersAreKnown, Commit
  <2>4. users' = users
    BY <2>1 DEF Write, CreateWorkspace, RenameWorkspace, AddMember, ActivatePack,
                SaveDiagramSnapshot
  <2>5. \A i \in 1..Len(audit') : audit'[i].actor \in users'
    <3>1. CASE audit' = audit
      BY <2>4, <3>1 DEF AnchorInv, RowsAreAnchored
    <3>2. ASSUME q.op # "draw", NEW e \in Record, e.actor = q.by,
                 audit' = Append(audit, e)
          PROVE  \A i \in 1..Len(audit') : audit'[i].actor \in users'
      <4>1. audit \in Seq(Record)
        BY DEF TeamInv, TypeOK, StoreTypeOK
      <4>2. /\ Len(audit') = Len(audit) + 1
            /\ audit'[Len(audit) + 1] = e
            /\ \A i \in 1..Len(audit) : audit'[i] = audit[i]
        BY <3>2, <4>1, Appended
      <4>3. QED
        BY <2>3, <2>4, <3>2, <4>1, <4>2 DEF AnchorInv, RowsAreAnchored
    <3>3. QED
      BY <2>1, <3>1, <3>2, AuditGrows
  <2> DEFINE Anchored(own, rol) ==
        /\ \A w \in Workspaces : own[w] # None => rol[w][own[w]] # None
        /\ \A w \in Workspaces, u \in Subjects :
             rol[w][u] # None => own[w] # None /\ u \in users
  <2>6. Anchored(owner, role)
    BY DEF AnchorInv, RowsAreAnchored
  <2>7. Anchored(owner', role')
    <3>1. ASSUME NEW w \in Workspaces, CreateWorkspace(q.by, w), q.op = "create"
          PROVE  Anchored(owner', role')
      <4>1. q.by \in Subjects /\ "admin" # None
        BY <2>2 DEF Roles
      <4>2. /\ owner' = [owner EXCEPT ![w] = q.by]
            /\ role' = [role EXCEPT ![w][q.by] = "admin"]
            /\ q.by \in users
        BY <3>1 DEF CreateWorkspace
      <4>3. QED
        BY <2>6, <4>1, <4>2 DEF TeamInv, TypeOK, StoreTypeOK
    <3>2. CASE AddMember(q.by, q.ws, q.user, q.as)
      BY <2>2, <2>6, <3>2 DEF AddMember, TeamInv, TypeOK, StoreTypeOK
    <3>3. CASE UNCHANGED <<owner, role>>
      BY <2>6, <3>3
    <3>4. QED
      BY <2>1, <3>1, <3>2, <3>3 DEF Write, RenameWorkspace, ActivatePack,
                                    SaveDiagramSnapshot
  <2>8. QED
    BY <2>4, <2>5, <2>7 DEF RowsAreAnchored
<1>4. QED
  BY <1>1, <1>2, <1>3 DEF AnchorInv

\* Owners are members, and members, owners and recorded actors are known users,
\* whatever requests fail or overlap.
THEOREM TeamRowsAreAnchored == Spec => []RowsAreAnchored
<1>1. TeamInv /\ AnchorInv => RowsAreAnchored
  BY DEF AnchorInv
<1>2. QED
  BY InitTeam, NextTeam, InitAnchor, NextAnchor, <1>1, PTL DEF Spec

-------------------------------------------------------------------------------
(* Every role is accounted for in the audit trail. *)

\* The trail tr accounts for the role rol of u in w.
Accounts(tr, w, u, rol) ==
  \E i \in 1..Len(tr) :
    /\ tr[i].target = w
    /\ \/ tr[i].action = "set-member-role" /\ tr[i].role = rol
       \/ tr[i].action = "create-workspace" /\ tr[i].actor = u

LEMMA RosterMeaning ==
  RosterIsAudited <=> \A w \in Workspaces, u \in Subjects :
                        role[w][u] # None => Accounts(audit, w, u, role[w][u])
BY DEF RosterIsAudited, Accounts

\* A record more accounts for all that was accounted for, and for its own grant.
LEMMA AccountsGrow ==
  ASSUME NEW tr \in Seq(Record), NEW e \in Record, NEW w, NEW u, NEW rol
  PROVE  /\ Accounts(tr, w, u, rol) => Accounts(Append(tr, e), w, u, rol)
         /\ /\ e.target = w
            /\ \/ e.action = "set-member-role" /\ e.role = rol
               \/ e.action = "create-workspace" /\ e.actor = u
            => Accounts(Append(tr, e), w, u, rol)
<1>1. /\ Len(tr) \in Nat
      /\ Len(Append(tr, e)) = Len(tr) + 1
      /\ Append(tr, e)[Len(tr) + 1] = e
      /\ \A i \in 1..Len(tr) : Append(tr, e)[i] = tr[i]
  BY Appended
<1>2. QED
  BY <1>1 DEF Accounts

LEMMA NextRoster == TeamInv /\ RosterIsAudited /\ [Next]_vars => RosterIsAudited'
<1> SUFFICES ASSUME TeamInv, RosterIsAudited, [Next]_vars
             PROVE  RosterIsAudited'
  OBVIOUS
<1>1. CASE \A r \in Requests : ~Commit(r)
  BY <1>1, OnlyCommitWrites DEF RosterIsAudited
<1>2. ASSUME NEW r \in Requests, Commit(r)
      PROVE  RosterIsAudited'
  <2> DEFINE q == asked[r]
  <2>1. q \in Ask /\ Write(q)
    BY <1>2 DEF Commit, TeamInv, Holding
  <2>2. /\ q.by \in Subjects
        /\ q.ws \in Workspaces
        /\ q.user \in Subjects
        /\ q.as \in Roles
    BY <2>1 DEF Ask
  <2>3. audit \in Seq(Record) /\ role \in [Workspaces -> [Subjects -> Roles \union {None}]]
    BY DEF TeamInv, TypeOK, StoreTypeOK
  <2>4. SUFFICES ASSUME NEW w \in Workspaces, NEW u \in Subjects, role'[w][u] # None
                 PROVE  Accounts(audit', w, u, role'[w][u])
    BY DEF RosterIsAudited, Accounts
  <2>5. CASE role'[w][u] = role[w][u]
    <3>1. Accounts(audit, w, u, role[w][u])
      BY <2>4, <2>5, RosterMeaning
    <3>2. CASE audit' = audit
      BY <2>5, <3>1, <3>2 DEF Accounts
    <3>3. ASSUME NEW e \in Record, audit' = Append(audit, e)
          PROVE  Accounts(audit', w, u, role'[w][u])
      <4>1. Accounts(Append(audit, e), w, u, role[w][u])
        BY <2>3, <3>1, AccountsGrow
      <4>2. QED
        BY <2>5, <3>3, <4>1
    <3>4. QED
      BY <2>1, <3>2, <3>3, AuditGrows
  <2>6. ASSUME role'[w][u] # role[w][u], NEW v \in Workspaces,
               CreateWorkspace(q.by, v)
        PROVE  Accounts(audit', w, u, role'[w][u])
    <3>1. w = v /\ u = q.by
      BY <2>2, <2>3, <2>6 DEF CreateWorkspace
    <3> DEFINE e == [actor |-> q.by, action |-> "create-workspace", role |-> None,
                     target |-> v]
    <3>2. e \in Record /\ audit' = Append(audit, e)
      BY <2>2, <2>6 DEF CreateWorkspace, Log, Record, Actions
    <3>3. QED
      BY <2>3, <3>1, <3>2, AccountsGrow
  <2>7. ASSUME role'[w][u] # role[w][u], AddMember(q.by, q.ws, q.user, q.as)
        PROVE  Accounts(audit', w, u, role'[w][u])
    <3>1. w = q.ws /\ u = q.user /\ role'[w][u] = q.as
      BY <2>2, <2>3, <2>7 DEF AddMember
    <3> DEFINE e == [actor |-> q.by, action |-> "set-member-role", role |-> q.as,
                     target |-> q.ws]
    <3>2. e \in Record /\ audit' = Append(audit, e)
      BY <2>2, <2>7 DEF AddMember, Log, Record, Actions
    <3>3. QED
      BY <2>3, <3>1, <3>2, AccountsGrow
  <2>8. QED
    BY <2>1, <2>5, <2>6, <2>7 DEF Write, RenameWorkspace, ActivatePack,
                                  SaveDiagramSnapshot
<1>3. QED
  BY <1>1, <1>2

\* A role and the record that accounts for it are never one without the other.
THEOREM TeamRosterIsAudited == Spec => []RosterIsAudited
<1>1. Init => RosterIsAudited
  BY DEF Init, StoreInit, RosterIsAudited
<1>2. QED
  BY InitTeam, NextTeam, NextRoster, <1>1, PTL DEF Spec

-------------------------------------------------------------------------------
(* Roles are granted by admins alone. *)

AdminOnce(w, u) == u \in GlobalAdmins \/ <<w, u, "admin">> \in held

\* The history remembers every role, and a grant about to be written was asked for
\* by somebody who was an admin when Authorize looked.
GrantInv ==
  /\ GrantsComeFromAdmins
  /\ \A w \in Workspaces, u \in Subjects :
       role[w][u] # None => <<w, u, role[w][u]>> \in held
  /\ \A r \in Requests :
       pc[r] = "entitled" /\ asked[r].op = "add-member" =>
         AdminOnce(asked[r].ws, asked[r].by)

LEMMA NextGrant == TeamInv /\ GrantInv /\ [Next]_vars => GrantInv'
<1> SUFFICES ASSUME TeamInv, GrantInv, [Next]_vars
             PROVE  GrantInv'
  OBVIOUS
<1> DEFINE Pending(r) ==
      pc[r] = "entitled" /\ asked[r].op = "add-member" =>
        AdminOnce(asked[r].ws, asked[r].by)
<1> USE DEF GrantInv
<1>1. ASSUME NEW r \in Requests, Identify(r)
      PROVE  GrantInv'
  <2>1. \A t \in Requests : Pending(t)'
    <3>1. \A t \in Requests \ {r} : pc'[t] = pc[t] /\ asked'[t] = asked[t]
      BY <1>1 DEF Identify, Goto, TeamInv, TypeOK
    <3>2. pc'[r] # "entitled"
      BY <1>1 DEF Identify, Goto, TeamInv, TypeOK
    <3>3. UNCHANGED held
      BY <1>1 DEF Identify
    <3>4. QED
      BY <3>1, <3>2, <3>3 DEF AdminOnce
  <2>2. UNCHANGED <<role, audit, held>>
    BY <1>1 DEF Identify, UpsertUser, tables
  <2>3. QED
    BY <2>1, <2>2 DEF GrantsComeFromAdmins
<1>2. ASSUME NEW r \in Requests, Authorize(r)
      PROVE  GrantInv'
  <2>1. UNCHANGED <<role, audit, held>>
    BY <1>2 DEF Authorize, tables
  <2>2. asked[r] \in Ask
    BY <1>2 DEF Authorize, TeamInv, Holding
  <2>3. ASSUME asked[r].op = "add-member", Entitled(asked[r])
        PROVE  AdminOnce(asked[r].ws, asked[r].by)
    <3>1. asked[r].ws \in Workspaces /\ asked[r].by \in Subjects /\ "admin" # None
      BY <2>2 DEF Ask, Roles
    <3>2. QED
      BY <2>3, <3>1 DEF Entitled, AdminOnce
  <2>4. Pending(r)'
    BY <1>2, <2>1, <2>3 DEF Authorize, Answer, Goto, TeamInv, TypeOK, AdminOnce
  <2>5. \A t \in Requests \ {r} : Pending(t)'
    BY <1>2, <2>1 DEF Authorize, Answer, Goto, TeamInv, TypeOK, AdminOnce
  <2>6. QED
    BY <2>1, <2>4, <2>5 DEF GrantsComeFromAdmins
<1>3. ASSUME NEW r \in Requests, Commit(r)
      PROVE  GrantInv'
  <2> DEFINE q == asked[r]
  <2>1. q \in Ask /\ Write(q)
    BY <1>3 DEF Commit, TeamInv, Holding
  <2>2. held \subseteq held'
    BY <1>3 DEF Commit
  <2>3. role' \in [Workspaces -> [Subjects -> Roles \union {None}]]
    BY <2>1, WriteType DEF TeamInv, TypeOK, StoreTypeOK
  <2>4. \A w \in Workspaces, u \in Subjects :
          role'[w][u] # None => <<w, u, role'[w][u]>> \in held'
    BY <1>3, <2>3 DEF Commit
  <2>5. \A t \in Requests : Pending(t)'
    BY <1>3, <2>2 DEF Commit, Answer, Goto, TeamInv, TypeOK, AdminOnce
  <2>6. GrantsComeFromAdmins'
    <3>1. CASE audit' = audit
      BY <2>2, <3>1 DEF GrantsComeFromAdmins
    <3>2. ASSUME NEW e \in Record, audit' = Append(audit, e),
                 e.action = "set-member-role" => AdminOnce(e.target, e.actor)
          PROVE  GrantsComeFromAdmins'
      <4>1. /\ Len(audit') = Len(audit) + 1
            /\ Len(audit) \in Nat
            /\ audit'[Len(audit) + 1] = e
            /\ \A i \in 1..Len(audit) : audit'[i] = audit[i]
        BY <3>2, Appended DEF TeamInv, TypeOK, StoreTypeOK
      <4>2. QED
        BY <2>2, <3>2, <4>1 DEF GrantsComeFromAdmins, AdminOnce
    <3>3. CASE AddMember(q.by, q.ws, q.user, q.as) /\ q.op = "add-member"
      <4> DEFINE e == [actor |-> q.by, action |-> "set-member-role", role |-> q.as,
                       target |-> q.ws]
      <4>1. e \in Record /\ audit' = Append(audit, e)
        BY <2>1, <3>3 DEF AddMember, Log, Record, Actions, Ask
      <4>2. AdminOnce(e.target, e.actor)
        BY <1>3, <3>3 DEF Commit
      <4>3. QED
        BY <3>2, <4>1, <4>2
    <3>4. ASSUME NEW action \in Actions \ {"set-member-role"},
                 NEW target \in Workspaces \union Packs,
                 Log(q.by, action, None, target)
          PROVE  GrantsComeFromAdmins'
      <4> DEFINE e == [actor |-> q.by, action |-> action, role |-> None,
                       target |-> target]
      <4>1. e \in Record /\ audit' = Append(audit, e)
        BY <2>1, <3>4 DEF Log, Record, Ask
      <4>2. QED
        BY <3>2, <4>1
    <3>5. ASSUME NEW w \in Workspaces, CreateWorkspace(q.by, w)
          PROVE  GrantsComeFromAdmins'
      BY <3>4, <3>5 DEF CreateWorkspace, Actions
    <3>6. CASE RenameWorkspace(q.by, q.ws)
      BY <2>1, <3>4, <3>6 DEF RenameWorkspace, Actions, Ask
    <3>7. CASE ActivatePack(q.by, q.pack, q.version)
      BY <2>1, <3>4, <3>7 DEF ActivatePack, Actions, Ask
    <3>8. QED
      BY <2>1, <3>1, <3>3, <3>5, <3>6, <3>7 DEF Write, SaveDiagramSnapshot
  <2>7. QED
    BY <2>4, <2>5, <2>6
<1>4. ASSUME NEW r \in Requests, Fail(r)
      PROVE  GrantInv'
  BY <1>4 DEF Fail, Answer, Goto, TeamInv, TypeOK, tables, AdminOnce,
              GrantsComeFromAdmins
<1>5. CASE UNCHANGED vars
  BY <1>5 DEF vars, tables, AdminOnce, GrantsComeFromAdmins
<1>6. QED
  BY <1>1, <1>2, <1>3, <1>4, <1>5 DEF Next

\* Nobody but admins ever set a role, however many requests were in flight while
\* roles changed under them.
THEOREM TeamGrantsComeFromAdmins == Spec => []GrantsComeFromAdmins
<1>1. Init => GrantInv
  BY DEF Init, StoreInit, GrantInv, GrantsComeFromAdmins
<1>2. TeamInv /\ GrantInv => GrantsComeFromAdmins
  BY DEF GrantInv
<1>3. QED
  BY InitTeam, NextTeam, NextGrant, <1>1, <1>2, PTL DEF Spec
================================================================================
