------------------------------- MODULE Structures -----------------------------
(***************************************************************************)
(* The generators of algorithms/structures.ts: a binary heap built by      *)
(* insertion and emptied by extraction, a binary search tree, and a hash   *)
(* table with three ways to resolve collisions. One action per iteration.  *)
(***************************************************************************)
EXTENDS StepGenerator, FiniteSets

VARIABLES
  next,       \* how many of the values have been taken
  heap,       \* the heap's array
  index,      \* where sifting is; the node an insert or search is at (0: none)
  extracted,  \* the values taken from the root; the traversal so far
  tree,       \* the tree's nodes: the children of each value, 0 for none
  root,       \* its root, 0 when empty
  path,       \* the walk's open nodes, the innermost last; the search's path
  target,     \* the value searched for
  buckets, rejected, stored, strategy, size, attempt

heapVars == <<heap, extracted>>
treeVars == <<tree, root, path, target>>
hashVars == <<buckets, rejected, stored, strategy, size, attempt>>
structure == <<next, index, heapVars, treeVars, hashVars>>

StructureIdle ==
  /\ next = 0 /\ heap = <<>> /\ index = 0 /\ extracted = <<>>
  /\ tree = <<>> /\ root = 0 /\ path = <<>>
  /\ buckets = <<>> /\ rejected = <<>> /\ stored = 0 /\ attempt = 0

Finish == pc' = "done" /\ Yield(1)

-------------------------------------------------------------------------------
(* The heap: children of i are at 2i + 1 and 2i + 2. *)

Parent(i) == (i - 1) \div 2

\* Mutant: compares with the left child only.
LargestOfLeft(h, i, n) ==
  LET family == {i} \cup ({2 * i + 1} \cap 0 .. (n - 1))
  IN CHOOSE x \in family : \A y \in family :
       At(h, x) > At(h, y) \/ (At(h, x) = At(h, y) /\ x <= y)

Largest(h, i, n) ==
  LET family == {i} \cup ({2 * i + 1, 2 * i + 2} \cap 0 .. (n - 1))
  IN CHOOSE x \in family : \A y \in family :
       At(h, x) > At(h, y) \/ (At(h, x) = At(h, y) /\ x <= y)

StartHeap ==
  /\ algo \in {"heapInsert", "heapExtract"} /\ pc = "start"
  /\ IF algo = "heapInsert"
       THEN heap' = <<>> /\ next' = 0 /\ index' = 0 /\ pc' = "insert" /\ Yield(1)
       ELSE /\ heap' = values
            /\ next' = Len(values) \div 2   \* nodes still to be sifted down
            /\ index' = Len(values) \div 2 - 1
            /\ pc' = "build"
            /\ UNCHANGED steps
  /\ UNCHANGED <<algo, values, extracted, treeVars, hashVars>>

HeapInsert ==
  /\ algo = "heapInsert" /\ pc = "insert"
  /\ IF next < Len(values)
       THEN /\ heap' = Append(heap, At(values, next))
            /\ index' = Len(heap)
            /\ next' = next + 1
            /\ pc' = IF heap = <<>> THEN "insert" ELSE "siftUp"
            /\ Yield(1)
       ELSE Finish /\ UNCHANGED <<heap, index, next>>
  /\ UNCHANGED <<algo, values, extracted, treeVars, hashVars>>

SiftUp ==
  /\ pc = "siftUp"
  /\ Yield(2)
  /\ IF At(heap, Parent(index)) >= At(heap, index)
       THEN pc' = "insert" /\ UNCHANGED <<heap, index>>
       ELSE /\ heap' = Swapped(heap, index, Parent(index))
            /\ index' = Parent(index)
            /\ pc' = IF Parent(index) > 0 THEN "siftUp" ELSE "insert"
  /\ UNCHANGED <<algo, values, next, extracted, treeVars, hashVars>>

\* One level of sifting down, of the silent build or of an extraction.
SiftDown(done) ==
  LET largest == Largest(heap, index, Len(heap))
  IN IF largest = index THEN done /\ UNCHANGED heap
     ELSE heap' = Swapped(heap, index, largest) /\ index' = largest /\ UNCHANGED <<next, pc>>

BuildHeap ==
  /\ pc = "build"
  /\ IF next = 0 THEN pc' = "extract" /\ Yield(1) /\ UNCHANGED <<heap, index, next>>
     ELSE /\ SiftDown(next' = next - 1 /\ index' = next - 2 /\ UNCHANGED pc)
          /\ UNCHANGED steps
  /\ UNCHANGED <<algo, values, extracted, treeVars, hashVars>>

\* The root is taken, and the last element moved to its place.
Extract ==
  /\ pc = "extract"
  /\ IF heap = <<>> THEN Finish /\ UNCHANGED <<heap, index, extracted>>
     ELSE /\ extracted' = Append(extracted, At(heap, 0))
          /\ heap' = Front([heap EXCEPT ![1] = Last(heap)])
          /\ index' = 0
          /\ IF Len(heap) > 1 THEN pc' = "siftDown" /\ Yield(2) ELSE UNCHANGED pc /\ Yield(1)
  /\ UNCHANGED <<algo, values, next, treeVars, hashVars>>

ExtractSift ==
  /\ pc = "siftDown"
  /\ SiftDown(pc' = "extract" /\ UNCHANGED <<index, next>>)
  /\ Yield(1)
  /\ UNCHANGED <<algo, values, extracted, treeVars, hashVars>>

-------------------------------------------------------------------------------
(* The tree. In-order walk and search first insert all values, silently. *)

TreeAlgos == {"bstInsert", "bstInOrder", "bstSearch"}
Leaf == [left |-> 0, right |-> 0]
\* Mutant: smaller values go right.
ChildSwapped(n, v) == IF v < n THEN tree[n].right ELSE tree[n].left

Child(n, v) == IF v < n THEN tree[n].left ELSE tree[n].right

StartTree ==
  /\ algo \in TreeAlgos /\ pc = "start"
  /\ pc' = "grow"
  /\ Yield(IF algo = "bstInsert" THEN 1 ELSE 0)
  /\ UNCHANGED <<algo, values, next, index, heapVars, treeVars, hashVars>>

\* One comparison on the way down: a duplicate is skipped, a missing child is
\* where the value goes.
BstInsert ==
  /\ algo \in TreeAlgos /\ pc = "grow"
  /\ next < Len(values)
  /\ LET value == At(values, next)
         here == IF index = 0 THEN root ELSE index
         side == IF value < here THEN "left" ELSE "right"
     IN \/ /\ root = 0
           /\ root' = value
           /\ tree' = [n \in {value} |-> Leaf]
           /\ next' = next + 1 /\ index' = 0
           /\ Yield(IF algo = "bstInsert" THEN 1 ELSE 0)
        \/ /\ root # 0 /\ here = value
           /\ next' = next + 1 /\ index' = 0
           /\ Yield(IF algo = "bstInsert" THEN 1 ELSE 0)
           /\ UNCHANGED <<tree, root>>
        \/ /\ root # 0 /\ here # value /\ Child(here, value) # 0
           /\ index' = Child(here, value)
           /\ Yield(IF algo = "bstInsert" THEN 1 ELSE 0)
           /\ UNCHANGED <<tree, root, next>>
        \/ /\ root # 0 /\ here # value /\ Child(here, value) = 0
           /\ tree' = [n \in DOMAIN tree \cup {value} |->
                       IF n = value THEN Leaf
                       ELSE IF n = here THEN [tree[here] EXCEPT ![side] = value]
                       ELSE tree[n]]
           /\ next' = next + 1 /\ index' = 0
           /\ Yield(IF algo = "bstInsert" THEN 2 ELSE 0)
           /\ UNCHANGED root
  /\ UNCHANGED <<algo, values, pc, heapVars, path, target, hashVars>>

BstGrown ==
  /\ algo \in TreeAlgos /\ pc = "grow"
  /\ next = Len(values)
  /\ pc' = CASE algo = "bstInsert" -> "done"
             [] algo = "bstInOrder" -> "walk"
             [] algo = "bstSearch" -> "seek"
  /\ index' = root
  /\ Yield(1)
  /\ UNCHANGED <<algo, values, next, heapVars, treeVars, hashVars>>

\* walk: down the left spine, then the innermost open node is emitted and its
\* right subtree walked.
WalkDown ==
  /\ pc = "walk" /\ index # 0
  /\ path' = Append(path, index)
  /\ index' = tree[index].left
  /\ Yield(IF index' # 0 THEN 1 ELSE 0)
  /\ UNCHANGED <<algo, values, pc, next, heapVars, tree, root, target, hashVars>>

WalkEmit ==
  /\ pc = "walk" /\ index = 0 /\ path # <<>>
  /\ extracted' = Append(extracted, Last(path))
  /\ path' = Front(path)
  /\ index' = tree[Last(path)].right
  /\ Yield(IF index' # 0 THEN 2 ELSE 1)
  /\ UNCHANGED <<algo, values, pc, next, heap, tree, root, target, hashVars>>

WalkEnd ==
  /\ pc = "walk" /\ index = 0 /\ path = <<>>
  /\ Finish
  /\ UNCHANGED <<algo, values, structure>>

BstSearch ==
  /\ pc = "seek"
  /\ IF index = 0 THEN pc' = "done" /\ UNCHANGED <<index, path>>
     ELSE /\ path' = Append(path, index)
          /\ IF index = target THEN pc' = "done" /\ UNCHANGED index
             ELSE index' = Child(index, target) /\ UNCHANGED pc
  /\ Yield(1)
  /\ UNCHANGED <<algo, values, next, heapVars, tree, root, target, hashVars>>

-------------------------------------------------------------------------------
(* The hash table. *)

Strategies == {"chaining", "linear-probing", "quadratic-probing"}

\* hashValue, and the bucket of each attempt.
Abs(v) == IF v < 0 THEN -v ELSE v
HashValue(v) == Abs(v) % size
\* Mutant: every second bucket is skipped.
BucketSkipping(v, a) == (HashValue(v) + IF strategy = "quadratic-probing" THEN a * a ELSE 2 * a) % size

Bucket(v, a) == (HashValue(v) + IF strategy = "quadratic-probing" THEN a * a ELSE a) % size

StartHash ==
  /\ algo = "hashTable" /\ pc = "start"
  /\ buckets' = [b \in 0 .. size - 1 |-> <<>>]
  /\ pc' = "hash"
  /\ Yield(1)
  /\ UNCHANGED <<algo, values, next, index, heapVars, treeVars,
                 rejected, stored, strategy, size, attempt>>

HashNext ==
  /\ pc = "hash"
  /\ IF next < Len(values) THEN pc' = "probe" /\ attempt' = 0 /\ Yield(1)
     ELSE Finish /\ UNCHANGED attempt
  /\ UNCHANGED <<algo, values, next, index, heapVars, treeVars,
                 buckets, rejected, stored, strategy, size>>

\* One bucket is looked at; with chaining it is the only one.
Probe ==
  /\ pc = "probe"
  /\ LET value == At(values, next)
         b == IF strategy = "chaining" THEN HashValue(value) ELSE Bucket(value, attempt)
         placed == pc' = "hash" /\ next' = next + 1 /\ Yield(1) /\ UNCHANGED <<attempt, rejected>>
     IN \/ /\ Contains(buckets[b], value)
           /\ placed
           /\ UNCHANGED <<buckets, stored>>
        \/ /\ ~Contains(buckets[b], value)
           /\ strategy = "chaining" \/ buckets[b] = <<>>
           /\ buckets' = [buckets EXCEPT ![b] = Append(@, value)]
           /\ stored' = stored + 1
           /\ placed
        \/ /\ ~Contains(buckets[b], value)
           /\ strategy # "chaining" /\ buckets[b] # <<>>
           /\ IF attempt + 1 < size
                THEN /\ attempt' = attempt + 1
                     /\ Yield(1)
                     /\ UNCHANGED <<pc, next, rejected>>
                ELSE /\ rejected' = Append(rejected, value)
                     /\ next' = next + 1
                     /\ pc' = "hash"
                     /\ Yield(2)
                     /\ UNCHANGED attempt
           /\ UNCHANGED <<buckets, stored>>
  /\ UNCHANGED <<algo, values, index, heapVars, treeVars, strategy, size>>

StructureNext ==
  \/ StartHeap \/ HeapInsert \/ SiftUp \/ BuildHeap \/ Extract \/ ExtractSift
  \/ StartTree \/ BstInsert \/ BstGrown \/ WalkDown \/ WalkEmit \/ WalkEnd \/ BstSearch
  \/ StartHash \/ HashNext \/ Probe

-------------------------------------------------------------------------------
(* Properties *)

Ordered(h, except) ==
  \A x \in 1 .. Len(h) - 1 : x \notin except => At(h, Parent(x)) >= At(h, x)

\* The heap's order is whole whenever a value has been inserted or a root
\* replaced, and broken in one place only in between; values are never lost or
\* doubled; what is extracted comes in descending order.
HeapsStayOrdered ==
  /\ algo = "heapInsert" /\ pc # "start" =>
       /\ SameValues(heap, SubSeq(values, 1, next))
       /\ Ordered(heap, IF pc = "siftUp" THEN {index} ELSE {})
  /\ algo = "heapExtract" /\ pc # "start" =>
       /\ SameValues(heap \o extracted, values)
       /\ pc # "build" =>
            Ordered(heap, IF pc = "siftDown" THEN {2 * index + 1, 2 * index + 2} ELSE {})
       /\ IsOrdered(Reverse(extracted))
       /\ \A x \in DOMAIN extracted, y \in DOMAIN heap : heap[y] <= extracted[x]
       /\ pc = "done" => heap = <<>>

\* The start of the values in ascending order: before each of them come exactly the
\* smaller values.
InOrder(array) ==
  \A x \in DOMAIN array :
    /\ array[x] \in ToSet(values)
    /\ \A v \in ToSet(values) : v < array[x] <=> \E y \in 1 .. x - 1 : array[y] = v

\* The tree holds the set of the values, a walk emits it in order with nothing
\* left out, and a search finds exactly what is there without a detour: it looks
\* at no value that an earlier comparison has ruled out.
TreesKeepOrder ==
  algo \in TreeAlgos =>
    /\ DOMAIN tree = ToSet(SubSeq(values, 1, next))
    /\ algo = "bstInOrder" => InOrder(extracted)
    /\ algo = "bstInOrder" /\ pc = "done" => ToSet(extracted) = ToSet(values)
    /\ algo = "bstSearch" /\ pc = "done" =>
         (target \in ToSet(values)) <=> (path # <<>> /\ Last(path) = target)
    /\ algo = "bstSearch" => \A x, y \in DOMAIN path : x < y =>
         /\ path[x] # path[y]
         /\ (path[y] < path[x]) <=> (target < path[x])

Prime(n) == n > 1 /\ \A d \in 2 .. n - 1 : n % d # 0
Holders(v) == {b \in DOMAIN buckets : Contains(buckets[b], v)}

\* Every value taken is stored once or was rejected; probing for a stored value
\* meets no free bucket before it; linear probing rejects only when the table is
\* full, and quadratic probing never where the message promises a place: in a
\* table of prime size less than half full.
HashTableKeepsValues ==
  algo = "hashTable" /\ pc # "start" =>
    /\ \A v \in ToSet(SubSeq(values, 1, next)) :
         \/ Cardinality(Holders(v)) = 1
         \/ Holders(v) = {} /\ Contains(rejected, v)
    /\ stored = Cardinality({v \in ToSet(values) : Holders(v) # {}})
    /\ strategy # "chaining" =>
         \A b \in DOMAIN buckets :
           /\ Len(buckets[b]) <= 1
           /\ \A v \in ToSet(buckets[b]) : \E a \in 0 .. size - 1 :
                Bucket(v, a) = b /\ \A e \in 0 .. a : buckets[Bucket(v, e)] # <<>>
    /\ strategy = "linear-probing" /\ rejected # <<>> => stored = size
    /\ strategy = "quadratic-probing" /\ Prime(size) /\ 2 * stored < size => rejected = <<>>

===============================================================================
