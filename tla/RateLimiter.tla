------------------------------ MODULE RateLimiter -----------------------------
(***************************************************************************)
(* The per-caller HTTP limiter of internal/ratelimit/ratelimit.go: token   *)
(* buckets refilled lazily, created on demand and swept when idle, and the *)
(* Retry-After advice of its middleware.                                   *)
(*                                                                         *)
(* Tokens are counted in units so that the sustained rate is a whole       *)
(* number of units per clock tick: a token is Cost units and RPS is        *)
(* Rate * TicksPerSecond / Cost. Every call holds Limiter.mu and reads the *)
(* clock under it, so a call is one step and the clock never runs back.    *)
(***************************************************************************)
EXTENDS Integers

CONSTANTS
  Keys,             \* caller keys (PrincipalKey)
  Burst,            \* Limit.Burst in units, at least one token (New clamps it)
  Rate,             \* Limit.RPS as units per tick, positive (New clamps it)
  Cost,             \* units in a token
  TicksPerSecond,   \* the clock's resolution
  IdleTTL,          \* ticks without a call after which a bucket may be dropped
  NoBucket,         \* no entry in Limiter.buckets
  NoAdvice,         \* no refusal to retry
  MaxTime           \* bound: the clock stops here

\* A bucket idle for IdleTTL would have refilled. With the code's ten minutes this
\* is Burst <= 600 * RPS.
ASSUME LimiterAssumption ==
  /\ Rate \in Nat \ {0}
  /\ Cost \in Nat \ {0}
  /\ Burst \in Nat
  /\ Burst >= Cost
  /\ TicksPerSecond \in Nat \ {0}
  /\ IdleTTL \in Nat \ {0}
  /\ Burst <= IdleTTL * Rate
  /\ MaxTime \in Nat
  /\ NoAdvice \notin Nat

Bucket == [tokens : 0..Burst, last : Nat, seen : Nat]

ASSUME NoBucketAssumption == NoBucket \notin Bucket

VARIABLES
  buckets,     \* Limiter.buckets
  lastSweep,   \* Limiter.lastSweep, the zero time at first
  now,         \* the clock
  retryAt,     \* when each refused caller was last advised to come back
  since,       \* history: when an observer started counting
  taken        \* history: requests admitted since

limiterVars == <<buckets, lastSweep, now, retryAt, since, taken>>

Least(a, b) == IF a <= b THEN a ELSE b

LimiterInit ==
  /\ buckets = [k \in Keys |-> NoBucket]
  /\ lastSweep = -IdleTTL
  /\ now = 0
  /\ retryAt = [k \in Keys |-> NoAdvice]
  /\ since = 0
  /\ taken = [k \in Keys |-> 0]

\* Mutant: any bucket not used this very tick is idle.
IdleAtOnce(b) == b # NoBucket /\ now > b.seen

\* sweepLocked: at most once per IdleTTL, drops the buckets idle for longer.
Sweeping  == now - lastSweep >= IdleTTL
Idle(b)   == b # NoBucket /\ now - b.seen > IdleTTL
Swept ==
  [k \in Keys |-> IF Sweeping /\ Idle(buckets[k]) THEN NoBucket ELSE buckets[k]]

\* Mutant: the credit is not capped at the burst.
RefilledUncapped(b, t) == b.tokens + (t - b.last) * Rate

\* What bucket b holds at time t: a new caller starts full; an old one is credited
\* what accrued since its last call.
Refilled(b, t)  == Least(Burst, b.tokens + (t - b.last) * Rate)
Available(b, t) == IF b = NoBucket THEN Burst ELSE Refilled(b, t)

\* The Retry-After header for a refusal with this many units in the bucket: the
\* wait for one whole token, never under a second, cut down to whole seconds.
Advice(units) ==
  LET seconds == (Cost - units) \div (Rate * TicksPerSecond)
  IN  IF seconds < 1 THEN 1 ELSE seconds

\* Mutant: a refusal moves the bucket's clock on without crediting what accrued.
AllowForfeits(k) ==
  LET units == Available(Swept[k], now)
      grant == units >= Cost
  IN  /\ lastSweep' = IF Sweeping THEN now ELSE lastSweep
      /\ buckets' = [Swept EXCEPT ![k] =
                       [tokens |-> IF grant THEN units - Cost ELSE @.tokens,
                        last |-> now, seen |-> now]]
      /\ taken' = IF grant THEN [taken EXCEPT ![k] = @ + 1] ELSE taken
      /\ retryAt' = [retryAt EXCEPT ![k] =
                       IF grant THEN NoAdvice
                       ELSE now + Advice(units) * TicksPerSecond]
      /\ UNCHANGED <<now, since>>

\* Limiter.Allow and the middleware around it.
Allow(k) ==
  LET units == Available(Swept[k], now)
      grant == units >= Cost
  IN  /\ lastSweep' = IF Sweeping THEN now ELSE lastSweep
      /\ buckets' = [Swept EXCEPT ![k] =
                       [tokens |-> IF grant THEN units - Cost ELSE units,
                        last |-> now, seen |-> now]]
      /\ taken' = IF grant THEN [taken EXCEPT ![k] = @ + 1] ELSE taken
      /\ retryAt' = [retryAt EXCEPT ![k] =
                       IF grant THEN NoAdvice
                       ELSE now + Advice(units) * TicksPerSecond]
      /\ UNCHANGED <<now, since>>

Tick ==
  /\ now < MaxTime
  /\ now' = now + 1
  /\ UNCHANGED <<buckets, lastSweep, retryAt, since, taken>>

\* An observer starts counting.
Mark ==
  /\ since' = now
  /\ taken' = [k \in Keys |-> 0]
  /\ UNCHANGED <<buckets, lastSweep, now, retryAt>>

LimiterNext == Tick \/ Mark \/ \E k \in Keys : Allow(k)

LimiterSpec == LimiterInit /\ [][LimiterNext]_limiterVars
-------------------------------------------------------------------------------
LimiterTypeOK ==
  /\ buckets \in [Keys -> Bucket \union {NoBucket}]
  /\ lastSweep \in Int
  /\ now \in Nat
  /\ retryAt \in [Keys -> Nat \union {NoAdvice}]
  /\ since \in 0..now
  /\ taken \in [Keys -> Nat]

\* Over any interval a caller is admitted at most the burst plus what the sustained
\* rate accrues, although buckets refill lazily and are forgotten when idle.
RateBound ==
  \A k \in Keys : taken[k] * Cost <= Burst + (now - since) * Rate

\* The limiter implements the steady token bucket: what a caller could spend now
\* is that bucket's level, and creating or sweeping a bucket never changes it.
Steady == INSTANCE TokenBucket
            WITH level <- [k \in Keys |-> Available(buckets[k], now)]
SteadySpec == Steady!Spec

\* A refused caller who waits out the advice and one second more is admitted: the
\* advice is at most a second short, whatever the other callers do meanwhile.
RetryAfterOneMoreSecond ==
  \A k \in Keys :
    retryAt[k] # NoAdvice /\ now >= retryAt[k] + TicksPerSecond =>
      Available(buckets[k], now) >= Cost

\* ratelimit.go:133-135: the advice rounds up, because rounding down would advise a
\* retry that is guaranteed to fail again. So a caller who waits it out is admitted.
RetryAdviceIsEnough ==
  \A k \in Keys :
    retryAt[k] # NoAdvice /\ now >= retryAt[k] => Available(buckets[k], now) >= Cost
===============================================================================
