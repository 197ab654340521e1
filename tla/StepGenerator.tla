----------------------------- MODULE StepGenerator ----------------------------
(***************************************************************************)
(* What the step generators of modules/learning/algorithms share: each     *)
(* takes an input, runs, and emits snapshots for the player (contracts.ts).*)
(* A snapshot's text and highlights are left out; snapshots are counted.   *)
(***************************************************************************)
EXTENDS Integers, Sequences, SequencesExt

VARIABLES
  algo,    \* which generator runs
  values,  \* its input array
  pc,      \* where it is; "done" at the end
  steps    \* the snapshots emitted so far

generator == <<algo, values, pc, steps>>

\* Arrays count from 0.
At(array, i) == array[i + 1]
Swapped(array, i, j) == [array EXCEPT ![i + 1] = array[j + 1], ![j + 1] = array[i + 1]]
Slice(array, i, j) == SubSeq(array, i + 1, j)

Yield(n) == steps' = steps + n

\* Reference definitions for the properties of all generators.
IsOrdered(array) == \A i, j \in DOMAIN array : i < j => array[i] <= array[j]
SameValues(a, b) == ToBag(a) = ToBag(b)

===============================================================================
