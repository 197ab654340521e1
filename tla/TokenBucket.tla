------------------------------ MODULE TokenBucket -----------------------------
(***************************************************************************)
(* What a rate limiter promises each caller: a bucket that fills steadily  *)
(* as time passes and from which every admitted request takes one token.   *)
(* Nothing is lazy here and no bucket is ever forgotten.                   *)
(* An observer may start counting at any moment.                           *)
(***************************************************************************)
EXTENDS Integers

CONSTANTS
  Keys,    \* callers
  Burst,   \* the bucket's depth, in units
  Rate,    \* units gained per tick
  Cost     \* units in one token: a request takes this much

VARIABLES
  level,   \* units in each caller's bucket
  now,     \* the clock
  since,   \* when the observer started counting
  taken    \* requests of each caller admitted since then

vars == <<level, now, since, taken>>

Least(a, b) == IF a <= b THEN a ELSE b

Init ==
  /\ level = [k \in Keys |-> Burst]
  /\ now = 0
  /\ since = 0
  /\ taken = [k \in Keys |-> 0]

Tick ==
  /\ now' = now + 1
  /\ level' = [k \in Keys |-> Least(Burst, level[k] + Rate)]
  /\ UNCHANGED <<since, taken>>

Take(k) ==
  /\ level[k] >= Cost
  /\ level' = [level EXCEPT ![k] = @ - Cost]
  /\ taken' = [taken EXCEPT ![k] = @ + 1]
  /\ UNCHANGED <<now, since>>

Mark ==
  /\ since' = now
  /\ taken' = [k \in Keys |-> 0]
  /\ UNCHANGED <<level, now>>

Next == Tick \/ Mark \/ \E k \in Keys : Take(k)

Spec == Init /\ [][Next]_vars
===============================================================================
