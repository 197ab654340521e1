-------------------------------- MODULE Sorting -------------------------------
(***************************************************************************)
(* bubbleSortSteps and mergeSortSteps of algorithms/sorting.ts, one action *)
(* per iteration of a loop.                                                *)
(***************************************************************************)
EXTENDS StepGenerator

VARIABLES
  arr,          \* the array being sorted
  i, j, k,      \* the loops' indexes
  left, right,  \* merge's copies of the two runs
  todo          \* calls of divideAndMerge and merge to come, the next first

sorting == <<arr, i, j, k, left, right, todo>>

SortingIdle ==
  arr = <<>> /\ i = 0 /\ j = 0 /\ k = 0 /\ left = <<>> /\ right = <<>> /\ todo = <<>>

Divide(start, end) == [call |-> "divide", start |-> start, end |-> end]
Merging(start, mid, end) == [call |-> "merge", start |-> start, mid |-> mid, end |-> end]

StartSort ==
  /\ algo \in {"bubbleSort", "mergeSort"}
  /\ pc = "start"
  /\ arr' = values
  /\ todo' = IF algo = "mergeSort" THEN <<Divide(0, Len(values) - 1)>> ELSE <<>>
  /\ pc' = IF algo = "mergeSort" THEN "divide" ELSE "bubble"
  /\ Yield(1)
  /\ UNCHANGED <<algo, values, i, j, k, left, right>>

\* One comparison of a pass, with its swap: pass i ends at n - i - 1.
BubbleCompare ==
  /\ pc = "bubble"
  /\ i < Len(arr) - 1
  /\ IF At(arr, j) > At(arr, j + 1)
       THEN arr' = Swapped(arr, j, j + 1) /\ Yield(2)
       ELSE UNCHANGED arr /\ Yield(1)
  /\ IF j + 1 < Len(arr) - i - 1
       THEN j' = j + 1 /\ UNCHANGED i
       ELSE j' = 0 /\ i' = i + 1
  /\ UNCHANGED <<algo, values, pc, k, left, right, todo>>

SortDone ==
  /\ \/ pc = "bubble" /\ i >= Len(arr) - 1
     \/ pc = "divide" /\ todo = <<>>
  /\ pc' = "done"
  /\ Yield(1)
  /\ UNCHANGED <<algo, values, sorting>>

\* divideAndMerge: both halves, then their merge.
DivideAndMerge ==
  /\ pc = "divide"
  /\ todo # <<>>
  /\ Head(todo).call = "divide"
  /\ LET start == Head(todo).start
         end == Head(todo).end
         mid == (start + end) \div 2
     IN todo' = IF start >= end THEN Tail(todo)
                ELSE <<Divide(start, mid), Divide(mid + 1, end), Merging(start, mid, end)>>
                       \o Tail(todo)
  /\ UNCHANGED <<algo, values, pc, steps, arr, i, j, k, left, right>>

BeginMerge ==
  /\ pc = "divide"
  /\ todo # <<>>
  /\ Head(todo).call = "merge"
  /\ left' = Slice(arr, Head(todo).start, Head(todo).mid + 1)
  /\ right' = Slice(arr, Head(todo).mid + 1, Head(todo).end + 1)
  /\ i' = 0 /\ j' = 0 /\ k' = Head(todo).start
  /\ pc' = "merge"
  /\ UNCHANGED <<algo, values, steps, arr, todo>>

\* Mutant: the merge's output index stays.
PlaceInPlace(value) == arr' = [arr EXCEPT ![k + 1] = value] /\ UNCHANGED k

Place(value) == arr' = [arr EXCEPT ![k + 1] = value] /\ k' = k + 1

TakeSmaller ==
  /\ pc = "merge"
  /\ i < Len(left) /\ j < Len(right)
  /\ IF At(left, i) <= At(right, j)
       THEN Place(At(left, i)) /\ i' = i + 1 /\ UNCHANGED j
       ELSE Place(At(right, j)) /\ j' = j + 1 /\ UNCHANGED i
  /\ Yield(2)
  /\ UNCHANGED <<algo, values, pc, left, right, todo>>

TakeRemaining ==
  /\ pc = "merge"
  /\ \/ /\ i < Len(left) /\ j = Len(right)
        /\ Place(At(left, i)) /\ i' = i + 1 /\ UNCHANGED j
     \/ /\ i = Len(left) /\ j < Len(right)
        /\ Place(At(right, j)) /\ j' = j + 1 /\ UNCHANGED i
  /\ Yield(1)
  /\ UNCHANGED <<algo, values, pc, left, right, todo>>

EndMerge ==
  /\ pc = "merge"
  /\ i = Len(left) /\ j = Len(right)
  /\ todo' = Tail(todo)
  /\ pc' = "divide"
  /\ UNCHANGED <<algo, values, steps, arr, i, j, k, left, right>>

SortingNext ==
  \/ StartSort \/ BubbleCompare \/ SortDone \/ DivideAndMerge
  \/ BeginMerge \/ TakeSmaller \/ TakeRemaining \/ EndMerge

-------------------------------------------------------------------------------
(* Properties *)

\* No value is lost or doubled while sorting. Bubble sort's snapshots are always
\* rearrangements of the input, and the i largest values are in place after i
\* passes. In the middle of a merge the array does hold values twice; what was
\* placed, is still in a run, or lies outside makes up the input, and what was
\* placed is in order. At the end the array is the input in order.
SortsItsInput ==
  /\ pc = "bubble" =>
       /\ SameValues(arr, values)
       /\ IsOrdered(Slice(arr, Len(arr) - i, Len(arr)))
       /\ \A x \in 0 .. Len(arr) - i - 1, y \in Len(arr) - i .. Len(arr) - 1 :
            At(arr, x) <= At(arr, y)
  /\ pc = "merge" =>
       LET m == Head(todo)
           placed == Slice(arr, m.start, k)
       IN /\ SameValues(Slice(arr, 0, m.start) \o placed
                          \o Slice(left, i, Len(left)) \o Slice(right, j, Len(right))
                          \o Slice(arr, m.end + 1, Len(arr)), values)
          /\ IsOrdered(placed)
  /\ pc = "done" /\ algo \in {"bubbleSort", "mergeSort"} =>
       IsOrdered(arr) /\ SameValues(arr, values)

===============================================================================
