---------------------------- MODULE AlgorithmProofs ---------------------------
(***************************************************************************)
(* The algorithm visualisers: their player, that the sorts sort arrays of  *)
(* any length, and that the searches of a graph of any size with any edges *)
(* find what they promise.                                                 *)
(*                                                                         *)
(* What a search finds is judged by walks, from node 1 along the edges.    *)
(* Walks of up to n edges are defined by recursion on n, so the first      *)
(* lemmas show that the definition has a value (WalksAreDefined), and that *)
(* leaving a set of nodes takes an edge out of it. Then, for each search,  *)
(* an invariant: Dijkstra's says that the nearest node not yet visited is  *)
(* at its final distance, from what the edges of the visited nodes have    *)
(* already relaxed; breadth-first search keeps the edges to each visited   *)
(* node (its level), and its queue is the end of the list of those visited;*)
(* depth-first search knows of every node on its stack who pushed it and   *)
(* for which edge.                                                         *)
(***************************************************************************)
EXTENDS AlgorithmPlayer, Sorting, GraphSearch, FiniteSetTheorems, FunctionTheorems,
        SequenceTheorems, WellFoundedInduction, TLAPS

(***************************************************************************)
(* The player, for algorithms of any length. The strengthening relates the *)
(* intervals that run to what the timer's effect last ran for, which after *)
(* a selection is not what the page shows: until the effect has run again  *)
(* a stopped player may still be ticking.                                  *)
(***************************************************************************)

PlayerTypes ==
  /\ length \in Nat /\ length >= 2
  /\ currentStepIdx \in Nat
  /\ isPlaying \in BOOLEAN /\ reselected \in BOOLEAN
  /\ saw[1] \in BOOLEAN /\ saw[2] \in Nat

\* At most one interval runs, for the steps of the effect that set it; it does when
\* that effect saw the player playing and nothing has stopped it since. The steps
\* are those the effect saw, unless an algorithm has just been selected.
TimersFollow ==
  /\ timers \in {<<>>, <<saw[2]>>}
  /\ ~saw[1] => timers = <<>>
  /\ saw[1] /\ isPlaying => timers = <<saw[2]>>
  /\ ~reselected => saw[2] = length /\ currentStepIdx < length

PlayerInv == PlayerTypes /\ TimersFollow

LEMMA PlayerInvInit == PlayerInit => PlayerInv
<1> SUFFICES ASSUME PlayerInit PROVE PlayerInv
  OBVIOUS
<1>1. length \in Nat /\ length >= 2
  BY PlayerAssumption DEF PlayerInit
<1>2. saw[1] = FALSE /\ saw[2] = length /\ saw[3] = 1 /\ saw = <<FALSE, length, 1>>
  BY DEF PlayerInit
<1>3. currentStepIdx = 0 /\ isPlaying = FALSE /\ reselected = FALSE /\ timers = <<>>
  BY DEF PlayerInit
<1>4. PlayerTypes
  BY <1>1, <1>2, <1>3 DEF PlayerTypes
<1>5. TimersFollow
  BY <1>1, <1>2, <1>3 DEF TimersFollow
<1>6. QED
  BY <1>4, <1>5 DEF PlayerInv

\* Clearing timerRef.current leaves no interval.
LEMMA ClearedIsEmpty ==
  ASSUME PlayerInv
  PROVE  Cleared = <<>> /\ Append(Cleared, length) = <<length>>
<1>1. ASSUME NEW n \in Nat PROVE Front(<<n>>) = <<>>
  BY DEF Front
<1>2. timers \in {<<>>, <<saw[2]>>} /\ saw[2] \in Nat /\ length \in Nat
  BY DEF PlayerInv, PlayerTypes, TimersFollow
<1>3. Cleared = <<>>
  BY <1>1, <1>2 DEF Cleared
<1>4. QED
  BY <1>2, <1>3

LEMMA FlushKeepsPlayer ==
  ASSUME PlayerInv, FlushEffects
  PROVE  PlayerInv'
<1>1. /\ saw' = <<isPlaying, length, speed>>
      /\ saw'[1] = isPlaying /\ saw'[2] = length /\ saw'[3] = speed
      /\ reselected' = FALSE /\ length' = length
  BY DEF FlushEffects
<1>2. IF reselected THEN isPlaying' = FALSE /\ currentStepIdx' = 0
                    ELSE UNCHANGED <<isPlaying, currentStepIdx>>
  BY DEF FlushEffects, NewSelection
<1>3. PlayerTypes'
  <2>1. length \in Nat /\ length >= 2 /\ currentStepIdx \in Nat /\ isPlaying \in BOOLEAN
    BY DEF PlayerInv, PlayerTypes
  <2>2. CASE reselected
    <3>1. currentStepIdx' = 0 /\ isPlaying' = FALSE /\ saw'[1] \in BOOLEAN
      BY <1>1, <1>2, <2>1, <2>2, Zenon
    <3>2. currentStepIdx' \in Nat /\ isPlaying' \in BOOLEAN
      BY <3>1
    <3>3. QED
      BY <1>1, <2>1, <3>1, <3>2 DEF PlayerTypes
  <2>3. CASE ~reselected
    BY <1>1, <1>2, <2>1, <2>3 DEF PlayerTypes
  <2>4. QED
    BY <2>2, <2>3
<1>4. currentStepIdx' < length'
  BY <1>1, <1>2 DEF PlayerInv, PlayerTypes, TimersFollow
<1>5. timers' = IF TimerDue /\ isPlaying THEN <<length>> ELSE <<>>
  BY ClearedIsEmpty DEF FlushEffects
<1>6. isPlaying /\ isPlaying' => TimerDue
  BY <1>2 DEF FlushEffects, Settled
<1>7. TimersFollow'
  BY <1>1, <1>4, <1>5, <1>6 DEF TimersFollow
<1>8. QED
  BY <1>3, <1>7 DEF PlayerInv

LEMMA TickKeepsPlayer ==
  ASSUME PlayerInv, Tick
  PROVE  PlayerInv'
<1>1. UNCHANGED <<length, speed, reselected, saw, timers>>
  BY DEF Tick
<1>2. PICK limit \in ToSet(timers) :
        IF currentStepIdx < limit - 1
          THEN currentStepIdx' = currentStepIdx + 1 /\ UNCHANGED isPlaying
          ELSE isPlaying' = FALSE /\ UNCHANGED currentStepIdx
  BY DEF Tick
<1>3. limit = saw[2]
  <2>1. PICK x \in DOMAIN timers : limit = timers[x]
    BY DEF ToSet
  <2>2. timers = <<saw[2]>>
    BY <2>1 DEF PlayerInv, TimersFollow
  <2>3. QED
    BY <2>1, <2>2
<1>4. PlayerTypes'
  <2>1. currentStepIdx \in Nat /\ isPlaying \in BOOLEAN /\ saw[2] \in Nat
    BY DEF PlayerInv, PlayerTypes
  <2>2. CASE currentStepIdx < limit - 1
    BY <1>1, <1>2, <2>1, <2>2 DEF PlayerInv, PlayerTypes
  <2>3. CASE ~(currentStepIdx < limit - 1)
    BY <1>1, <1>2, <2>1, <2>3 DEF PlayerInv, PlayerTypes
  <2>4. QED
    BY <2>2, <2>3
<1>5. TimersFollow'
  BY <1>1, <1>2, <1>3 DEF PlayerInv, PlayerTypes, TimersFollow
<1>6. QED
  BY <1>4, <1>5 DEF PlayerInv

LEMMA InputKeepsPlayer ==
  ASSUME PlayerInv, SelectAlgorithm \/ PlayPause \/ Jump \/ SetSpeed
  PROVE  PlayerInv'
<1>1. /\ ~reselected /\ saw = <<isPlaying, length, speed>>
      /\ saw[1] = isPlaying /\ saw[2] = length
      /\ UNCHANGED <<saw, timers>>
  BY DEF SelectAlgorithm, PlayPause, Jump, SetSpeed, Settled, TimerDue
<1>2. CASE SelectAlgorithm
  <2>1. length' \in Nat /\ length' >= 2 /\ reselected' = TRUE
        /\ UNCHANGED <<currentStepIdx, isPlaying>>
    BY <1>2, PlayerAssumption DEF SelectAlgorithm
  <2>2. QED
    BY <1>1, <2>1 DEF PlayerInv, PlayerTypes, TimersFollow
<1>3. CASE PlayPause
  BY <1>1, <1>3 DEF PlayPause, PlayerInv, PlayerTypes, TimersFollow
<1>4. CASE Jump
  <2>1. /\ UNCHANGED <<length, isPlaying, speed, reselected>>
        /\ currentStepIdx' \in Nat /\ currentStepIdx' < length
    BY <1>1, <1>4 DEF Jump, PlayerInv, PlayerTypes, TimersFollow
  <2>2. QED
    BY <1>1, <2>1 DEF PlayerInv, PlayerTypes, TimersFollow
<1>5. CASE SetSpeed
  BY <1>1, <1>5 DEF SetSpeed, PlayerInv, PlayerTypes, TimersFollow
<1>6. QED
  BY <1>2, <1>3, <1>4, <1>5

\* Once the effects of the last render have run, one interval runs while playing
\* and none otherwise, for the steps there are, and the step shown is one of them:
\* whatever was selected, and however often speed and state were changed
\* (AlgorithmPage.tsx, the effects on algo and on isPlaying, steps and speedMs).
THEOREM PlayerOneTimerWhilePlaying ==
  PlayerInit /\ [][PlayerNext]_player => []OneTimerWhilePlaying
<1>1. PlayerInv /\ [PlayerNext]_player => PlayerInv'
  <2>1. ASSUME PlayerInv, UNCHANGED player PROVE PlayerInv'
    BY <2>1 DEF player, PlayerInv, PlayerTypes, TimersFollow
  <2>2. QED
    BY <2>1, FlushKeepsPlayer, TickKeepsPlayer, InputKeepsPlayer DEF PlayerNext
<1>2. ASSUME PlayerInv PROVE OneTimerWhilePlaying
  <2>1. ASSUME Settled PROVE saw[1] = isPlaying /\ saw[2] = length /\ ~reselected
    BY <2>1 DEF Settled, TimerDue
  <2>2. QED
    BY <1>2, <2>1 DEF PlayerInv, PlayerTypes, TimersFollow, OneTimerWhilePlaying
<1>3. QED
  BY <1>1, <1>2, PlayerInvInit, PTL
-------------------------------------------------------------------------------
(* How often a value occurs in a stretch of an array. *)

Where(a, p, q, v) == {x \in p .. q : a[x] = v}
Occ(a, p, q, v) == Cardinality(Where(a, p, q, v))

LEMMA OccType ==
  ASSUME NEW a, NEW p \in Int, NEW q \in Int, NEW v
  PROVE  /\ IsFiniteSet(Where(a, p, q, v))
         /\ Occ(a, p, q, v) \in Nat
<1>1. IsFiniteSet(p .. q)
  BY FS_Interval
<1>2. Where(a, p, q, v) \in SUBSET (p .. q)
  BY DEF Where
<1>3. IsFiniteSet(Where(a, p, q, v))
  BY <1>1, <1>2, FS_Subset
<1>4. QED
  BY <1>3, FS_CardinalityType DEF Occ

LEMMA OccSplit ==
  ASSUME NEW a, NEW p \in Int, NEW q \in Int, NEW r \in Int, p <= q + 1, q <= r, NEW v
  PROVE  Occ(a, p, r, v) = Occ(a, p, q, v) + Occ(a, q + 1, r, v)
<1> DEFINE X == Where(a, p, q, v)
           Y == Where(a, q + 1, r, v)
           Z == Where(a, p, r, v)
<1>1. IsFiniteSet(X) /\ IsFiniteSet(Y) /\ Occ(a, p, q, v) \in Nat /\ Occ(a, q + 1, r, v) \in Nat
  BY OccType
<1>2. Z = X \cup Y /\ X \cap Y = {}
  BY DEF Where
<1> HIDE DEF X, Y, Z
<1>3. Cardinality(X \cup Y) = Cardinality(X) + Cardinality(Y) - Cardinality(X \cap Y)
  BY <1>1, FS_Union
<1>4. Cardinality(X \cap Y) = 0
  BY <1>2, FS_EmptySet
<1>5. Cardinality(X) = Occ(a, p, q, v) /\ Cardinality(Y) = Occ(a, q + 1, r, v)
      /\ Cardinality(Z) = Occ(a, p, r, v)
  BY DEF X, Y, Z, Occ
<1>6. QED
  BY <1>1, <1>2, <1>3, <1>4, <1>5

LEMMA OccOne ==
  ASSUME NEW a, NEW p \in Int, NEW v
  PROVE  Occ(a, p, p, v) = IF a[p] = v THEN 1 ELSE 0
<1>1. Where(a, p, p, v) = IF a[p] = v THEN {p} ELSE {}
  BY DEF Where
<1>2. QED
  BY <1>1, FS_EmptySet, FS_Singleton DEF Occ

LEMMA OccNone ==
  ASSUME NEW a, NEW p \in Int, NEW q \in Int, q < p, NEW v
  PROVE  Occ(a, p, q, v) = 0
<1>1. Where(a, p, q, v) = {}
  BY DEF Where
<1>2. QED
  BY <1>1, FS_EmptySet DEF Occ

LEMMA OccFirst ==
  ASSUME NEW a, NEW p \in Int, NEW r \in Int, p <= r, NEW q \in Int, q = p + 1, NEW v
  PROVE  Occ(a, p, r, v) = Occ(a, p, p, v) + Occ(a, q, r, v)
<1>1. Occ(a, p, r, v) = Occ(a, p, p, v) + Occ(a, p + 1, r, v)
  BY OccSplit
<1>2. QED
  BY <1>1

\* b has at a distance d what a has from p to q.
Shifted(a, b, p, q, d) == \A x \in p .. q : a[x] = b[x + d]

LEMMA OccShift ==
  ASSUME NEW a, NEW b, NEW p \in Int, NEW q \in Int, NEW d \in Int, NEW v,
         Shifted(a, b, p, q, d)
  PROVE  Occ(a, p, q, v) = Occ(b, p + d, q + d, v)
<1> DEFINE X == Where(a, p, q, v)
           Y == Where(b, p + d, q + d, v)
           f == [x \in X |-> x + d]
<1>1. IsFiniteSet(X)
  BY OccType
<1>2. f \in [X -> Y]
  BY DEF Where, Shifted
<1>3. \A x, y \in X : f[x] = f[y] => x = y
  BY DEF Where
<1>4. \A y \in Y : \E x \in X : f[x] = y
  <2> SUFFICES ASSUME NEW y \in Y PROVE \E x \in X : f[x] = y
    OBVIOUS
  <2>1. y - d \in p .. q /\ (y - d) + d = y /\ b[y] = v
    BY DEF Where
  <2>2. y - d \in X
    BY <2>1 DEF Where, Shifted
  <2>3. f[y - d] = y
    BY <2>1, <2>2
  <2>4. QED
    BY <2>2, <2>3
<1>5. ExistsBijection(X, Y)
  <2> HIDE DEF f, X, Y
  <2>1. f \in Bijection(X, Y)
    BY <1>2, <1>3, <1>4 DEF Bijection, Injection, Surjection, IsInjective
  <2>2. QED
    BY <2>1 DEF ExistsBijection
<1>6. Cardinality(Y) = Cardinality(X)
  <2> HIDE DEF X, Y
  <2>1. QED
    BY <1>1, <1>5, FS_Bijection
<1>7. QED
  BY <1>6 DEF Occ

LEMMA OccSame ==
  ASSUME NEW a, NEW b, NEW p \in Int, NEW q \in Int, NEW v,
         \A x \in p .. q : a[x] = b[x]
  PROVE  Occ(a, p, q, v) = Occ(b, p, q, v)
<1>1. Where(a, p, q, v) = Where(b, p, q, v)
  BY DEF Where
<1>2. QED
  BY <1>1 DEF Occ

\* How often it occurs in the whole.
Count(a, v) == Occ(a, 1, Len(a), v)

LEMMA CountConcat ==
  ASSUME NEW a \in Seq(Int), NEW b \in Seq(Int), NEW v
  PROVE  Count(a \o b, v) = Count(a, v) + Count(b, v)
<1> DEFINE n == Len(a)
           m == Len(b)
           c == a \o b
<1>1. n \in Nat /\ m \in Nat /\ Len(c) = n + m
  BY LenProperties, ConcatProperties
<1>2. \A x \in 1 .. (n + m) : c[x] = IF x <= n THEN a[x] ELSE b[x - n]
  BY ConcatProperties
<1> HIDE DEF n, m, c
<1>3. Occ(c, 1, n + m, v) = Occ(c, 1, n, v) + Occ(c, n + 1, n + m, v)
  BY <1>1, OccSplit
<1>4. Occ(c, 1, n, v) = Occ(a, 1, n, v)
  <2>1. \A x \in 1 .. n : c[x] = a[x]
    BY <1>1, <1>2
  <2>2. QED
    BY <1>1, <2>1, OccSame
<1>5. Occ(b, 1, m, v) = Occ(c, n + 1, n + m, v)
  <2>1. Shifted(b, c, 1, m, n)
    <3> SUFFICES ASSUME NEW x \in 1 .. m PROVE b[x] = c[x + n]
      BY DEF Shifted
    <3>1. x + n \in 1 .. (n + m) /\ ~(x + n <= n) /\ (x + n) - n = x
      BY <1>1
    <3>2. QED
      BY <1>2, <3>1
  <2>2. 1 + n = n + 1 /\ m + n = n + m
    BY <1>1
  <2>3. Occ(b, 1, m, v) = Occ(c, 1 + n, m + n, v)
    BY <1>1, <2>1, OccShift
  <2>4. QED
    BY <2>2, <2>3
<1>6. QED
  BY <1>1, <1>3, <1>4, <1>5 DEF Count, n, m, c

LEMMA SliceType ==
  ASSUME NEW a \in Seq(Int), NEW p \in 0 .. Len(a), NEW q \in p .. Len(a)
  PROVE  /\ Slice(a, p, q) \in Seq(Int)
         /\ Len(Slice(a, p, q)) = q - p
         /\ \A x \in 1 .. (q - p) : Slice(a, p, q)[x] = a[p + x]
         /\ \A v : Count(Slice(a, p, q), v) = Occ(a, p + 1, q, v)
<1> DEFINE s == SubSeq(a, p + 1, q)
<1>1. Len(a) \in Nat /\ p \in Int /\ q \in Int /\ p + 1 \in Int
  BY LenProperties
<1>2. \A x \in (p + 1) .. q : a[x] \in Int
  BY <1>1
<1>3. /\ s \in Seq(Int)
      /\ Len(s) = IF p + 1 <= q THEN q - (p + 1) + 1 ELSE 0
      /\ \A x \in 1 .. (q - (p + 1) + 1) : s[x] = a[(p + 1) + x - 1]
  BY <1>1, <1>2, SubSeqProperties
<1> HIDE DEF s
<1>4. Len(s) = q - p
  BY <1>1, <1>3
<1>5. \A x \in 1 .. (q - p) : s[x] = a[p + x]
  <2> SUFFICES ASSUME NEW x \in 1 .. (q - p) PROVE s[x] = a[p + x]
    OBVIOUS
  <2>1. x \in 1 .. (q - (p + 1) + 1) /\ (p + 1) + x - 1 = p + x
    BY <1>1
  <2>2. QED
    BY <1>3, <2>1
<1>6. ASSUME NEW v PROVE Count(s, v) = Occ(a, p + 1, q, v)
  <2>1. Shifted(s, a, 1, q - p, p)
    <3>1. ASSUME NEW x \in 1 .. (q - p) PROVE s[x] = a[x + p]
      <4>1. p + x = x + p
        BY <1>1
      <4>2. QED
        BY <1>5, <4>1
    <3>2. QED
      BY <3>1 DEF Shifted
  <2>2. Occ(s, 1, q - p, v) = Occ(a, 1 + p, (q - p) + p, v)
    BY <1>1, <2>1, OccShift
  <2>3. 1 + p = p + 1 /\ (q - p) + p = q
    BY <1>1
  <2>4. QED
    BY <1>4, <2>2, <2>3 DEF Count
<1>7. QED
  BY <1>3, <1>4, <1>5, <1>6 DEF Slice, s

\* Arrays are rearrangements of each other if every value occurs as often.
LEMMA SameCounts ==
  ASSUME NEW a \in Seq(Int), NEW b \in Seq(Int), \A v : Count(a, v) = Count(b, v)
  PROVE  SameValues(a, b)
<1>1. /\ DOMAIN a = 1 .. Len(a) /\ Len(a) \in Int
      /\ DOMAIN b = 1 .. Len(b) /\ Len(b) \in Int
  BY LenProperties
<1>2. ASSUME NEW c, NEW n \in Int, DOMAIN c = 1 .. n, NEW v
      PROVE  v \in Range(c) <=> Occ(c, 1, n, v) # 0
  <2>1. v \in Range(c) <=> Where(c, 1, n, v) # {}
    BY <1>2 DEF Range, Where
  <2>2. IsFiniteSet(Where(c, 1, n, v))
    BY OccType
  <2>3. QED
    BY <2>1, <2>2, FS_EmptySet DEF Occ
<1>3. \A v : v \in Range(a) <=> v \in Range(b)
  <2> SUFFICES ASSUME NEW v PROVE v \in Range(a) <=> v \in Range(b)
    OBVIOUS
  <2>1. v \in Range(a) <=> Count(a, v) # 0
    BY <1>1, <1>2 DEF Count
  <2>2. v \in Range(b) <=> Count(b, v) # 0
    BY <1>1, <1>2 DEF Count
  <2>3. Count(a, v) = Count(b, v)
    OBVIOUS
  <2>4. QED
    BY <2>1, <2>2, <2>3
<1>4. Range(a) = Range(b)
  BY <1>3
<1>5. ToBag(a) = [v \in Range(a) |-> Count(a, v)] /\ ToBag(b) = [v \in Range(b) |-> Count(b, v)]
  BY <1>1 DEF ToBag, Count, Occ, Where
<1>6. [v \in Range(a) |-> Count(a, v)] = [v \in Range(b) |-> Count(b, v)]
  BY <1>4
<1>7. QED
  BY <1>5, <1>6 DEF SameValues
-------------------------------------------------------------------------------
(***************************************************************************)
(* Sorting. Of merge sort the list of calls to come has to be described:   *)
(* whatever they still do, each merge will find its two halves in order,   *)
(* because the last call before it that touches a half is the one that     *)
(* puts exactly this half in order. Of a merge that has begun, and of a    *)
(* pass of bubble sort, what has been done so far.                         *)
(***************************************************************************)

OrderedOn(a, p, q) == \A x, y \in p .. q : x < y => a[x] <= a[y]

Calls == {Divide(s, e) : s \in Int, e \in Int} \cup {Merging(s, m, e) : s \in Int, m \in Int, e \in Int}

\* The ranges of calls lie in an array of n.
Within(t, n) ==
  /\ 0 <= t.start /\ t.end <= n - 1
  /\ t.call = "merge" => t.start <= t.mid /\ t.mid < t.end

Apart(t, s, e) == t.end < s \/ e < t.start

\* When the calls before the p-th of q have been made, the range from s to e is in
\* order: it is already and they leave it alone, or the last of them that touches
\* it is for exactly this range.
Ready(q, a, p, s, e) ==
  \/ /\ OrderedOn(a, s + 1, e + 1)
     /\ \A x \in 1 .. (p - 1) : Apart(q[x], s, e)
  \/ \E x \in 1 .. (p - 1) :
       /\ q[x].start = s /\ q[x].end = e
       /\ \A y \in (x + 1) .. (p - 1) : Apart(q[y], s, e)

\* Every merge from the first on will find its halves in order, and in the end the
\* whole array is.
Prepared(q, a, n, first) ==
  /\ \A p \in first .. Len(q) : q[p].call = "merge" =>
       /\ Ready(q, a, p, q[p].start, q[p].mid)
       /\ Ready(q, a, p, q[p].mid + 1, q[p].end)
  /\ Ready(q, a, Len(q) + 1, 0, n - 1)

\* In the middle of a merge into the range from s to e of a: d is the next place,
\* p and q what has been taken of the runs x and y. What has been placed is in
\* order and not greater than what is still in the runs, and with that and the rest
\* of the array makes up the input.
Halfway(a, s, e, d, x, p, y, q) ==
  /\ x \in Seq(Int) /\ y \in Seq(Int) /\ Len(x) + Len(y) = e - s + 1
  /\ OrderedOn(x, 1, Len(x)) /\ OrderedOn(y, 1, Len(y))
  /\ p \in 0 .. Len(x) /\ q \in 0 .. Len(y) /\ d = s + p + q
  /\ OrderedOn(a, s + 1, d)
  /\ \A z \in (s + 1) .. d :
       /\ \A u \in (p + 1) .. Len(x) : a[z] <= x[u]
       /\ \A u \in (q + 1) .. Len(y) : a[z] <= y[u]
  /\ \A v : Occ(a, 1, s, v) + Occ(a, s + 1, d, v)
              + Occ(x, p + 1, Len(x), v) + Occ(y, q + 1, Len(y), v)
              + Occ(a, e + 2, Len(a), v) = Count(values, v)

MergeHalfway(m) ==
  m.call = "merge" /\ Halfway(arr, m.start, m.end, k, left, i, right, j)

\* Where bubble sort is: the first j are not greater than the one after them, and
\* the last i are where they belong.
BubbleHalfway ==
  /\ i \in Nat /\ j \in Nat
  /\ i = 0 \/ i < Len(arr)
  /\ i < Len(arr) - 1 => j < Len(arr) - i - 1
  /\ \A x \in 1 .. j : arr[x] <= arr[j + 1]
  /\ \A x \in 1 .. Len(arr), y \in (Len(arr) - i + 1) .. Len(arr) :
       x < y => arr[x] <= arr[y]

SortInv ==
  /\ values \in Seq(Int) /\ arr \in Seq(Int)
  /\ pc \in {"start", "bubble", "divide", "merge", "done"}
  /\ algo \in {"bubbleSort", "mergeSort"}
  /\ pc = "start" => SortingIdle
  /\ pc # "start" => Len(arr) = Len(values)
  /\ pc \in {"bubble", "divide", "done"} => \A v : Count(arr, v) = Count(values, v)
  /\ pc = "bubble" => BubbleHalfway
  /\ pc \in {"divide", "merge"} =>
       /\ todo \in Seq(Calls)
       /\ \A p \in 1 .. Len(todo) : Within(todo[p], Len(arr))
  /\ pc = "divide" => Prepared(todo, arr, Len(arr), 1)
  /\ pc = "merge" => /\ todo # <<>>
                     /\ Prepared(todo, arr, Len(arr), 2)
                     /\ MergeHalfway(Head(todo))
  /\ pc = "done" => OrderedOn(arr, 1, Len(arr))

\* One of the two is started on an array.
SortInit ==
  /\ pc = "start" /\ steps = 0
  /\ algo \in {"bubbleSort", "mergeSort"}
  /\ values \in Seq(Int)
  /\ SortingIdle

-------------------------------------------------------------------------------
(* The start, and bubble sort *)

LEMMA SortInvInit == SortInit => SortInv
<1> SUFFICES ASSUME SortInit PROVE SortInv
  OBVIOUS
<1>1. arr = <<>> /\ arr \in Seq(Int)
  BY EmptySeq DEF SortInit, SortingIdle
<1>2. QED
  BY <1>1 DEF SortInit, SortInv

LEMMA StartKeeps ==
  ASSUME SortInv, StartSort
  PROVE  SortInv'
<1> DEFINE n == Len(values)
<1>1. /\ pc = "start" /\ arr' = values /\ UNCHANGED <<algo, values, i, j, k, left, right>>
      /\ n \in Nat /\ i' = 0 /\ j' = 0
  BY LenProperties DEF StartSort, SortInv, SortingIdle
<1>2. CASE algo = "mergeSort"
  <2>1. todo' = <<Divide(0, n - 1)>> /\ pc' = "divide"
    BY <1>2 DEF StartSort
  <2>2. todo' \in Seq(Calls) /\ Len(todo') = 1 /\ todo'[1] = Divide(0, n - 1)
    <3>1. Divide(0, n - 1) \in Calls
      BY <1>1 DEF Calls
    <3>2. QED
      BY <2>1, <3>1
  <2>3. Within(Divide(0, n - 1), n)
    BY <1>1 DEF Within, Divide
  <2>4. Prepared(todo', arr', n, 1)
    <3>1. \A p \in 1 .. Len(todo') : todo'[p].call # "merge"
      BY <2>2 DEF Divide
    <3>2. Ready(todo', arr', 2, 0, n - 1)
      <4>1. 1 \in 1 .. (2 - 1) /\ todo'[1].start = 0 /\ todo'[1].end = n - 1
        BY <2>2 DEF Divide
      <4>2. \A y \in (1 + 1) .. (2 - 1) : Apart(todo'[y], 0, n - 1)
        OBVIOUS
      <4>3. QED
        BY <4>1, <4>2 DEF Ready
    <3>3. QED
      BY <2>2, <3>1, <3>2 DEF Prepared
  <2>5. QED
    BY <1>1, <2>1, <2>2, <2>3, <2>4 DEF SortInv
<1>3. CASE algo = "bubbleSort"
  <2>1. pc' = "bubble"
    BY <1>3 DEF StartSort
  <2>2. BubbleHalfway'
    BY <1>1 DEF BubbleHalfway
  <2>3. QED
    BY <1>1, <1>3, <2>1, <2>2 DEF SortInv
<1>4. QED
  BY <1>2, <1>3 DEF SortInv

\* b is a with two neighbours exchanged.
Exchanged(a, b, p) ==
  \A x \in 1 .. Len(a) :
    b[x] = IF x = p + 1 THEN a[p + 2] ELSE IF x = p + 2 THEN a[p + 1] ELSE a[x]

\* Exchanging two neighbours keeps how often a value occurs.
LEMMA SwapCounts ==
  ASSUME NEW a \in Seq(Int), NEW p \in Nat, p + 2 <= Len(a)
  PROVE  /\ Swapped(a, p, p + 1) \in Seq(Int)
         /\ Len(Swapped(a, p, p + 1)) = Len(a)
         /\ Exchanged(a, Swapped(a, p, p + 1), p)
         /\ \A v : Count(Swapped(a, p, p + 1), v) = Count(a, v)
<1> DEFINE n == Len(a)
           b == Swapped(a, p, p + 1)
<1>1. n \in Nat /\ p + 1 \in 1 .. n /\ p + 2 \in 1 .. n /\ (p + 1) + 1 = p + 2
  BY LenProperties
<1>2. b = [a EXCEPT ![p + 1] = a[p + 2], ![p + 2] = a[p + 1]]
  BY <1>1 DEF Swapped
<1>3. /\ b \in Seq(Int) /\ Len(b) = n
      /\ \A x \in 1 .. n :
           b[x] = IF x = p + 1 THEN a[p + 2] ELSE IF x = p + 2 THEN a[p + 1] ELSE a[x]
  <2> DEFINE c == [a EXCEPT ![p + 1] = a[p + 2]]
  <2>1. a[p + 1] \in Int /\ a[p + 2] \in Int
    BY <1>1
  <2>2. /\ c \in Seq(Int) /\ Len(c) = n
        /\ \A x \in 1 .. n : c[x] = IF x = p + 1 THEN a[p + 2] ELSE a[x]
    BY <1>1, <2>1, ExceptSeq
  <2>3. b = [c EXCEPT ![p + 2] = a[p + 1]]
    BY <1>2
  <2> HIDE DEF b, c, n
  <2>4. /\ b \in Seq(Int) /\ Len(b) = n
        /\ \A x \in 1 .. n : b[x] = IF x = p + 2 THEN a[p + 1] ELSE c[x]
    BY <1>1, <2>1, <2>2, <2>3, ExceptSeq
  <2>5. QED
    BY <1>1, <2>2, <2>4
<1> HIDE DEF b
<1>4. ASSUME NEW v PROVE Occ(b, 1, n, v) = Occ(a, 1, n, v)
  <2>1. ASSUME NEW c \in {a, b}
        PROVE  Occ(c, 1, n, v) = Occ(c, 1, p, v) + (Occ(c, p + 1, p + 1, v) + (Occ(c, p + 2, p + 2, v)
                                   + Occ(c, p + 3, n, v)))
    <3> DEFINE p1 == p + 1
               p2 == p + 2
               p3 == p + 3
    <3>1. Occ(c, 1, n, v) = Occ(c, 1, p, v) + Occ(c, p1, n, v)
      BY <1>1, OccSplit
    <3>2. /\ p1 \in Int /\ p2 \in Int /\ p3 \in Int /\ n \in Int
          /\ p2 = p1 + 1 /\ p3 = p2 + 1 /\ p1 <= n /\ p2 <= n
      BY <1>1
    <3> HIDE DEF p1, p2, p3, n
    <3>3. Occ(c, p1, n, v) = Occ(c, p1, p1, v) + Occ(c, p2, n, v)
      BY <3>2, OccFirst
    <3>4. Occ(c, p2, n, v) = Occ(c, p2, p2, v) + Occ(c, p3, n, v)
      <4>1. p2 \in Int /\ n \in Int /\ p3 \in Int
        BY <3>2
      <4>2. p2 <= n
        BY <3>2
      <4>3. p3 = p2 + 1
        BY <3>2
      <4>4. QED
        BY <4>1, <4>2, <4>3, OccFirst
    <3>5. /\ Occ(c, 1, p, v) \in Nat /\ Occ(c, p1, p1, v) \in Nat
          /\ Occ(c, p2, p2, v) \in Nat /\ Occ(c, p3, n, v) \in Nat
      BY <3>2, OccType
    <3>6. Occ(c, 1, n, v) = Occ(c, 1, p, v) + (Occ(c, p1, p1, v) + (Occ(c, p2, p2, v)
                              + Occ(c, p3, n, v)))
      BY <3>1, <3>3, <3>4, <3>5
    <3>7. QED
      BY <3>6 DEF p1, p2, p3, n
  <2>2. Occ(b, 1, p, v) = Occ(a, 1, p, v) /\ Occ(b, p + 3, n, v) = Occ(a, p + 3, n, v)
    <3>1. /\ \A x \in 1 .. p : b[x] = a[x]
          /\ \A x \in (p + 3) .. n : b[x] = a[x]
      BY <1>1, <1>3
    <3>2. QED
      BY <1>1, <3>1, OccSame
  <2>3. /\ Occ(b, p + 1, p + 1, v) = Occ(a, p + 2, p + 2, v)
        /\ Occ(b, p + 2, p + 2, v) = Occ(a, p + 1, p + 1, v)
    <3>1. b[p + 1] = a[p + 2] /\ b[p + 2] = a[p + 1]
      BY <1>1, <1>3
    <3>2. QED
      BY <1>1, <3>1, OccOne
  <2>4. /\ Occ(a, p + 1, p + 1, v) \in Nat /\ Occ(a, p + 2, p + 2, v) \in Nat
        /\ Occ(a, 1, p, v) \in Nat /\ Occ(a, p + 3, n, v) \in Nat
    BY <1>1, OccType
  <2>5. QED
    BY <2>1, <2>2, <2>3, <2>4
<1>5. QED
  BY <1>3, <1>4 DEF b, Count, Exchanged

\* A comparison leaves the larger of the two behind, and so the largest so far.
LEMMA CompareMoves ==
  ASSUME SortInv, BubbleCompare
  PROVE  /\ arr' \in Seq(Int) /\ Len(arr') = Len(arr)
         /\ \A v : Count(arr', v) = Count(arr, v)
         /\ \A x \in 1 .. (j + 1) : arr'[x] <= arr'[j + 2]
         /\ \A x \in 1 .. Len(arr), y \in (Len(arr) - i + 1) .. Len(arr) :
              x < y => arr'[x] <= arr'[y]
<1> DEFINE n == Len(arr)
<1>1. /\ arr \in Seq(Int) /\ n \in Nat /\ i \in Nat /\ j \in Nat
      /\ i < n - 1 /\ j < n - i - 1
      /\ \A x \in 1 .. j : arr[x] <= arr[j + 1]
      /\ \A x \in 1 .. n, y \in (n - i + 1) .. n : x < y => arr[x] <= arr[y]
  BY LenProperties DEF SortInv, BubbleCompare, BubbleHalfway
<1>2. /\ j + 1 \in 1 .. n /\ j + 2 \in 1 .. n /\ j + 2 <= n - i
      /\ (j + 1) + 1 = j + 2
      /\ \A x \in 1 .. n : arr[x] \in Int
  BY <1>1
<1>3. CASE arr[j + 1] > arr[j + 2]
  <2>1. arr' = Swapped(arr, j, j + 1)
    BY <1>2, <1>3 DEF BubbleCompare, At
  <2>2. /\ arr' \in Seq(Int) /\ Len(arr') = n
        /\ \A x \in 1 .. n : arr'[x] =
             IF x = j + 1 THEN arr[j + 2] ELSE IF x = j + 2 THEN arr[j + 1] ELSE arr[x]
        /\ \A v : Count(arr', v) = Count(arr, v)
    <3>1. /\ arr' \in Seq(Int) /\ Len(arr') = Len(arr) /\ Exchanged(arr, arr', j)
          /\ \A v : Count(arr', v) = Count(arr, v)
      BY <1>1, <1>2, <2>1, SwapCounts
    <3>2. QED
      BY <3>1 DEF Exchanged
  <2> HIDE DEF n
  <2>3. ASSUME NEW x \in 1 .. (j + 1) PROVE arr'[x] <= arr'[j + 2]
    <3>1. arr'[j + 2] = arr[j + 1] /\ arr'[j + 1] = arr[j + 2]
      BY <1>1, <1>2, <2>2
    <3>2. CASE x = j + 1
      BY <1>2, <1>3, <3>1, <3>2
    <3>3. CASE x # j + 1
      <4>1. x \in 1 .. j /\ x \in 1 .. n
        BY <1>1, <1>2, <3>3
      <4>2. arr'[x] = arr[x]
        BY <1>1, <2>2, <4>1
      <4>3. QED
        BY <1>1, <3>1, <4>1, <4>2
    <3>4. QED
      BY <3>2, <3>3
  <2>4. ASSUME NEW x \in 1 .. n, NEW y \in (n - i + 1) .. n, x < y
        PROVE  arr'[x] <= arr'[y]
    <3>1. y \in 1 .. n /\ arr'[y] = arr[y] /\ j + 1 < y /\ j + 2 < y
      BY <1>1, <1>2, <2>2
    <3>2. QED
      BY <1>1, <1>2, <2>2, <2>4, <3>1
  <2>5. QED
    BY <2>2, <2>3, <2>4 DEF n
<1>4. CASE ~(arr[j + 1] > arr[j + 2])
  <2>1. arr' = arr
    BY <1>2, <1>4 DEF BubbleCompare, At
  <2>2. ASSUME NEW x \in 1 .. (j + 1) PROVE arr[x] <= arr[j + 2]
    <3>1. (x \in 1 .. j \/ x = j + 1) /\ x \in 1 .. n
      BY <1>1
    <3>2. arr[x] \in Int /\ arr[j + 1] \in Int /\ arr[j + 2] \in Int
      BY <1>2, <3>1
    <3>3. arr[x] <= arr[j + 1]
      <4>1. CASE x \in 1 .. j
        BY <1>1, <4>1
      <4>2. CASE x = j + 1
        BY <3>2, <4>2
      <4>3. QED
        BY <3>1, <4>1, <4>2
    <3>4. QED
      BY <1>4, <3>2, <3>3
  <2>3. QED
    BY <1>1, <2>1, <2>2
<1>5. QED
  BY <1>3, <1>4

LEMMA BubbleKeeps ==
  ASSUME SortInv, BubbleCompare
  PROVE  SortInv'
<1> DEFINE n == Len(arr)
<1>1. /\ pc = "bubble" /\ UNCHANGED <<algo, values, pc, k, left, right, todo>>
      /\ n \in Nat /\ i \in Nat /\ j \in Nat /\ i < n - 1 /\ j < n - i - 1
      /\ n = Len(values) /\ \A v : Count(arr, v) = Count(values, v)
  BY LenProperties DEF SortInv, BubbleCompare, BubbleHalfway
<1>2. /\ arr' \in Seq(Int) /\ Len(arr') = n
      /\ \A v : Count(arr', v) = Count(arr, v)
      /\ \A x \in 1 .. (j + 1) : arr'[x] <= arr'[j + 2]
      /\ \A x \in 1 .. n, y \in (n - i + 1) .. n : x < y => arr'[x] <= arr'[y]
  BY CompareMoves
<1> HIDE DEF n
<1>3. BubbleHalfway'
  <2>1. CASE j + 1 < n - i - 1
    <3>1. j' = j + 1 /\ i' = i /\ j' + 1 = j + 2
      BY <1>1, <2>1 DEF BubbleCompare, n
    <3>2. QED
      BY <1>1, <1>2, <2>1, <3>1 DEF BubbleHalfway
  <2>2. CASE ~(j + 1 < n - i - 1)
    <3>1. j' = 0 /\ i' = i + 1 /\ j + 2 = n - i
      BY <1>1, <2>2 DEF BubbleCompare, n
    <3>2. ASSUME NEW x \in 1 .. n, NEW y \in (n - i' + 1) .. n, x < y
          PROVE  arr'[x] <= arr'[y]
      <4>1. CASE y = j + 2
        BY <1>1, <1>2, <3>1, <3>2, <4>1
      <4>2. CASE y # j + 2
        <5>1. y \in (n - i + 1) .. n
          BY <1>1, <3>1, <4>2
        <5>2. QED
          BY <1>2, <3>2, <5>1
      <4>3. QED
        BY <4>1, <4>2
    <3>3. /\ i' \in Nat /\ j' \in Nat /\ i' < n
          /\ i' < n - 1 => j' < n - i' - 1
          /\ \A x \in 1 .. j' : arr'[x] <= arr'[j' + 1]
      BY <1>1, <3>1
    <3>4. QED
      BY <1>2, <3>2, <3>3 DEF BubbleHalfway
  <2>3. QED
    BY <2>1, <2>2
<1>4. QED
  BY <1>1, <1>2, <1>3 DEF SortInv

-------------------------------------------------------------------------------
(* The calls to come: the first is done, writes, or is divided *)

LEMMA CallTypes ==
  ASSUME NEW t \in Calls
  PROVE  /\ t.start \in Int /\ t.end \in Int
         /\ t.call \in {"divide", "merge"}
         /\ t.call = "merge" => t.mid \in Int
BY DEF Calls, Divide, Merging

LEMMA FirstCall ==
  ASSUME NEW q \in Seq(Calls), q # <<>>
  PROVE  /\ Len(q) \in Nat /\ 1 <= Len(q)
         /\ Head(q) = q[1]
         /\ Tail(q) \in Seq(Calls) /\ Len(Tail(q)) = Len(q) - 1
         /\ \A x \in 1 .. (Len(q) - 1) : Tail(q)[x] = q[x + 1]
         /\ \A x \in 1 .. Len(q) : q[x] \in Calls
         /\ \A x \in 1 .. Len(q) : q[x].start \in Int /\ q[x].end \in Int
<1>1. Len(q) \in Nat /\ 1 <= Len(q)
  BY EmptySeq, LenProperties
<1>2. /\ Tail(q) \in Seq(Calls) /\ Len(Tail(q)) = Len(q) - 1
      /\ \A x \in 1 .. Len(Tail(q)) : Tail(q)[x] = q[x + 1]
  BY HeadTailProperties
<1>3. \A x \in 1 .. Len(q) : q[x] \in Calls
  OBVIOUS
<1>4. \A x \in 1 .. Len(q) : q[x].start \in Int /\ q[x].end \in Int
  BY <1>3, CallTypes
<1>5. QED
  BY <1>1, <1>2, <1>3, <1>4

\* The first call is done: its range is in order.
LEMMA PopReady ==
  ASSUME NEW q \in Seq(Calls), q # <<>>, NEW r, r = Tail(q), NEW a,
         OrderedOn(a, q[1].start + 1, q[1].end + 1),
         NEW p \in 1 .. Len(q), NEW s \in Int, NEW e \in Int,
         Ready(q, a, p + 1, s, e)
  PROVE  Ready(r, a, p, s, e)
<1>1. /\ Len(q) \in Nat /\ 1 <= Len(q) /\ p \in Int
      /\ \A x \in 1 .. (Len(q) - 1) : r[x] = q[x + 1]
  BY FirstCall
<1>2. (p + 1) - 1 = p
  BY <1>1
<1>3. \A x \in 1 .. (p - 1) : r[x] = q[x + 1] /\ x + 1 \in 1 .. p
  BY <1>1
<1>4. CASE /\ OrderedOn(a, s + 1, e + 1)
           /\ \A x \in 1 .. p : Apart(q[x], s, e)
  <2>1. \A x \in 1 .. (p - 1) : Apart(r[x], s, e)
    BY <1>3, <1>4
  <2>2. QED
    BY <1>4, <2>1 DEF Ready
<1>5. ASSUME NEW x \in 1 .. p, q[x].start = s, q[x].end = e,
             \A y \in (x + 1) .. p : Apart(q[y], s, e)
      PROVE  Ready(r, a, p, s, e)
  <2>1. CASE x = 1
    <3>1. OrderedOn(a, s + 1, e + 1)
      BY <1>5, <2>1
    <3>2. ASSUME NEW y \in 1 .. (p - 1) PROVE Apart(r[y], s, e)
      <4>1. y + 1 \in (x + 1) .. p
        BY <1>1, <2>1
      <4>2. QED
        BY <1>3, <1>5, <4>1
    <3>3. QED
      BY <3>1, <3>2 DEF Ready
  <2>2. CASE x # 1
    <3>1. x - 1 \in 1 .. (p - 1) /\ (x - 1) + 1 = x
      BY <1>1, <2>2
    <3>2. r[x - 1].start = s /\ r[x - 1].end = e
      BY <1>3, <1>5, <3>1
    <3>3. ASSUME NEW y \in ((x - 1) + 1) .. (p - 1) PROVE Apart(r[y], s, e)
      <4>1. y \in 1 .. (p - 1) /\ y + 1 \in (x + 1) .. p
        BY <1>1, <3>1
      <4>2. QED
        BY <1>3, <1>5, <4>1
    <3>4. QED
      BY <3>1, <3>2, <3>3 DEF Ready
  <2>3. QED
    BY <2>1, <2>2
<1>6. QED
  BY <1>2, <1>4, <1>5 DEF Ready

LEMMA PopPrepared ==
  ASSUME NEW q \in Seq(Calls), q # <<>>, NEW r, r = Tail(q), NEW a, NEW n \in Nat,
         OrderedOn(a, q[1].start + 1, q[1].end + 1), Prepared(q, a, n, 2)
  PROVE  Prepared(r, a, n, 1)
<1>1. /\ Len(q) \in Nat /\ 1 <= Len(q) /\ Len(r) = Len(q) - 1
      /\ \A x \in 1 .. Len(r) : r[x] = q[x + 1] /\ q[x + 1] \in Calls
  <2>1. /\ Len(q) \in Nat /\ 1 <= Len(q) /\ Len(r) = Len(q) - 1
        /\ \A x \in 1 .. (Len(q) - 1) : r[x] = q[x + 1]
        /\ \A x \in 1 .. Len(q) : q[x] \in Calls
    BY FirstCall
  <2>2. \A x \in 1 .. Len(r) : x + 1 \in 1 .. Len(q) /\ x \in 1 .. (Len(q) - 1)
    BY <2>1
  <2>3. QED
    BY <2>1, <2>2
<1>2. ASSUME NEW p \in 1 .. Len(r), r[p].call = "merge"
      PROVE  /\ Ready(r, a, p, r[p].start, r[p].mid)
             /\ Ready(r, a, p, r[p].mid + 1, r[p].end)
  <2>1. p + 1 \in 2 .. Len(q) /\ p \in 1 .. Len(q) /\ r[p] = q[p + 1]
    BY <1>1
  <2>2. /\ Ready(q, a, p + 1, r[p].start, r[p].mid)
        /\ Ready(q, a, p + 1, r[p].mid + 1, r[p].end)
    BY <1>2, <2>1 DEF Prepared
  <2>3. r[p].start \in Int /\ r[p].mid \in Int /\ r[p].end \in Int /\ r[p].mid + 1 \in Int
    BY <1>1, <1>2, CallTypes
  <2>4. Ready(r, a, p, r[p].start, r[p].mid)
    BY <2>1, <2>2, <2>3, PopReady
  <2> DEFINE next == r[p].mid + 1
  <2>5. next \in Int /\ Ready(q, a, p + 1, next, r[p].end)
    BY <2>2, <2>3
  <2> HIDE DEF next
  <2>6. Ready(r, a, p, next, r[p].end)
    BY <2>1, <2>3, <2>5, PopReady
  <2>7. QED
    BY <2>4, <2>6 DEF next
<1>3. Ready(r, a, Len(r) + 1, 0, n - 1)
  <2> DEFINE last == n - 1
  <2>1. Ready(q, a, Len(q) + 1, 0, last) /\ last \in Int /\ 0 \in Int
    BY DEF Prepared
  <2>2. Len(q) \in 1 .. Len(q) /\ Len(r) + 1 = Len(q)
    BY <1>1
  <2> HIDE DEF last
  <2>3. Ready(r, a, Len(q), 0, last)
    BY <2>1, <2>2, PopReady
  <2>4. QED
    BY <2>2, <2>3 DEF last
<1>4. QED
  BY <1>2, <1>3 DEF Prepared

\* The first call writes in its range.
LEMMA WriteReady ==
  ASSUME NEW q, q[1].start \in Int, q[1].end \in Int,
         NEW a, NEW b, NEW n \in Nat,
         NEW z \in (q[1].start + 1) .. (q[1].end + 1),
         \A x \in 1 .. n : x # z => b[x] = a[x],
         NEW p \in Nat, 2 <= p, NEW s \in Int, NEW e \in Int, 0 <= s, e <= n - 1,
         Ready(q, a, p, s, e)
  PROVE  Ready(q, b, p, s, e)
<1>1. CASE /\ OrderedOn(a, s + 1, e + 1)
           /\ \A x \in 1 .. (p - 1) : Apart(q[x], s, e)
  <2>1. Apart(q[1], s, e)
    <3>1. 1 \in 1 .. (p - 1)
      OBVIOUS
    <3>2. QED
      BY <1>1, <3>1
  <2>2. \A x \in (s + 1) .. (e + 1) : x \in 1 .. n /\ x # z
    BY <2>1 DEF Apart
  <2>3. OrderedOn(b, s + 1, e + 1)
    BY <1>1, <2>2 DEF OrderedOn
  <2>4. QED
    BY <1>1, <2>3 DEF Ready
<1>2. CASE \E x \in 1 .. (p - 1) :
             /\ q[x].start = s /\ q[x].end = e
             /\ \A y \in (x + 1) .. (p - 1) : Apart(q[y], s, e)
  BY <1>2 DEF Ready
<1>3. QED
  BY <1>1, <1>2 DEF Ready

LEMMA WritePrepared ==
  ASSUME NEW q \in Seq(Calls), q # <<>>, NEW a, NEW b, NEW n \in Nat,
         \A p \in 1 .. Len(q) : Within(q[p], n),
         NEW z \in (q[1].start + 1) .. (q[1].end + 1),
         \A x \in 1 .. n : x # z => b[x] = a[x],
         Prepared(q, a, n, 2)
  PROVE  Prepared(q, b, n, 2)
<1>1. /\ Len(q) \in Nat /\ 1 <= Len(q)
      /\ \A x \in 1 .. Len(q) : q[x] \in Calls
      /\ \A x \in 1 .. Len(q) : q[x].start \in Int /\ q[x].end \in Int
  BY FirstCall
<1>2. q[1].start \in Int /\ q[1].end \in Int
  <2>1. 1 \in 1 .. Len(q)
    BY <1>1
  <2>2. QED
    BY <1>1, <2>1
<1>3. ASSUME NEW p \in 2 .. Len(q), q[p].call = "merge"
      PROVE  /\ Ready(q, b, p, q[p].start, q[p].mid)
             /\ Ready(q, b, p, q[p].mid + 1, q[p].end)
  <2>1. p \in 1 .. Len(q) /\ p \in Nat /\ 2 <= p
    BY <1>1
  <2>2. q[p].start \in Int /\ q[p].mid \in Int /\ q[p].end \in Int
    BY <1>1, <1>3, <2>1, CallTypes
  <2>3. /\ 0 <= q[p].start /\ q[p].mid <= n - 1
        /\ q[p].mid + 1 \in Int /\ 0 <= q[p].mid + 1 /\ q[p].end <= n - 1
    BY <1>3, <2>1, <2>2 DEF Within
  <2>4. /\ Ready(q, a, p, q[p].start, q[p].mid)
        /\ Ready(q, a, p, q[p].mid + 1, q[p].end)
    BY <1>3 DEF Prepared
  <2> DEFINE first == q[p].start
             middle == q[p].mid
  <2>5. Ready(q, b, p, first, middle)
    <3>1. first \in Int /\ middle \in Int /\ 0 <= first /\ middle <= n - 1
          /\ Ready(q, a, p, first, middle)
      BY <2>2, <2>3, <2>4
    <3> HIDE DEF first, middle
    <3>2. QED
      BY <1>2, <2>1, <3>1, WriteReady
  <2> DEFINE next == q[p].mid + 1
  <2>6. next \in Int /\ 0 <= next /\ Ready(q, a, p, next, q[p].end)
    BY <2>3, <2>4
  <2> HIDE DEF next
  <2>7. Ready(q, b, p, next, q[p].end)
    BY <1>2, <2>1, <2>2, <2>3, <2>6, WriteReady
  <2>8. QED
    BY <2>5, <2>7 DEF next
<1>4. Ready(q, b, Len(q) + 1, 0, n - 1)
  <2>1. Ready(q, a, Len(q) + 1, 0, n - 1)
    BY DEF Prepared
  <2>2. Len(q) + 1 \in Nat /\ 2 <= Len(q) + 1 /\ 0 \in Int /\ n - 1 \in Int
        /\ 0 <= 0 /\ n - 1 <= n - 1
    BY <1>1
  <2>3. QED
    BY <1>2, <2>1, <2>2, WriteReady
<1>5. QED
  BY <1>3, <1>4 DEF Prepared

\* r is q with its first call divided at m.
DividedAt(q, r, m) ==
  /\ q[1].start <= m /\ m < q[1].end
  /\ Len(r) = Len(q) + 2
  /\ r[1] = Divide(q[1].start, m)
  /\ r[2] = Divide(m + 1, q[1].end)
  /\ r[3] = Merging(q[1].start, m, q[1].end)
  /\ \A x \in 2 .. Len(q) : r[x + 2] = q[x]

LEMMA DivideReady ==
  ASSUME NEW q \in Seq(Calls), q # <<>>, NEW r, NEW m \in Int, DividedAt(q, r, m), NEW a,
         NEW p \in 2 .. (Len(q) + 1), NEW s \in Int, NEW e \in Int,
         Ready(q, a, p, s, e)
  PROVE  Ready(r, a, p + 2, s, e)
<1>1. /\ Len(q) \in Nat /\ 1 <= Len(q) /\ p \in Int
      /\ q[1].start \in Int /\ q[1].end \in Int
  <2>1. /\ Len(q) \in Nat /\ 1 <= Len(q)
        /\ \A x \in 1 .. Len(q) : q[x].start \in Int /\ q[x].end \in Int
    BY FirstCall
  <2>2. 1 \in 1 .. Len(q)
    BY <2>1
  <2>3. QED
    BY <2>1, <2>2
<1>2. (p + 2) - 1 = p + 1
  BY <1>1
<1>3. \A x \in 4 .. (p + 1) : x - 2 \in 2 .. (p - 1) /\ r[x] = q[x - 2]
  <2> SUFFICES ASSUME NEW x \in 4 .. (p + 1)
               PROVE  x - 2 \in 2 .. (p - 1) /\ r[x] = q[x - 2]
    OBVIOUS
  <2>1. x - 2 \in 2 .. (p - 1) /\ x - 2 \in 2 .. Len(q) /\ (x - 2) + 2 = x
    BY <1>1
  <2>2. r[(x - 2) + 2] = q[x - 2]
    BY <2>1 DEF DividedAt
  <2>3. QED
    BY <2>1, <2>2
<1>4. /\ q[1].start <= m /\ m < q[1].end
      /\ r[1].start = q[1].start /\ r[1].end = m
      /\ r[2].start = m + 1 /\ r[2].end = q[1].end
      /\ r[3].start = q[1].start /\ r[3].end = q[1].end
  BY DEF DividedAt, Divide, Merging
<1>5. CASE /\ OrderedOn(a, s + 1, e + 1)
           /\ \A x \in 1 .. (p - 1) : Apart(q[x], s, e)
  <2>1. Apart(q[1], s, e)
    <3>1. 1 \in 1 .. (p - 1)
      BY <1>1
    <3>2. QED
      BY <1>5, <3>1
  <2>2. Apart(r[1], s, e) /\ Apart(r[2], s, e) /\ Apart(r[3], s, e)
    BY <1>1, <1>4, <2>1 DEF Apart
  <2>3. ASSUME NEW x \in 1 .. (p + 1) PROVE Apart(r[x], s, e)
    <3>1. CASE x \in 1 .. 3
      BY <2>2, <3>1
    <3>2. CASE x \notin 1 .. 3
      <4>1. x \in 4 .. (p + 1)
        BY <3>2
      <4>2. x - 2 \in 1 .. (p - 1) /\ r[x] = q[x - 2]
        BY <1>1, <1>3, <4>1
      <4>3. QED
        BY <1>5, <4>2
    <3>3. QED
      BY <3>1, <3>2
  <2>4. QED
    BY <1>2, <1>5, <2>3 DEF Ready
<1>6. ASSUME NEW x \in 1 .. (p - 1), q[x].start = s, q[x].end = e,
             \A y \in (x + 1) .. (p - 1) : Apart(q[y], s, e)
      PROVE  Ready(r, a, p + 2, s, e)
  <2>1. PICK z \in 3 .. (p + 1) : z = x + 2
    BY <1>1
  <2>2. r[z].start = s /\ r[z].end = e
    <3>1. CASE x = 1
      BY <1>4, <1>6, <2>1, <3>1
    <3>2. CASE x # 1
      <4>1. z \in 4 .. (p + 1) /\ z - 2 = x
        BY <2>1, <3>2
      <4>2. QED
        BY <1>3, <1>6, <4>1
    <3>3. QED
      BY <3>1, <3>2
  <2>3. ASSUME NEW y \in (z + 1) .. (p + 1) PROVE Apart(r[y], s, e)
    <3>1. y \in 4 .. (p + 1) /\ y - 2 \in (x + 1) .. (p - 1)
      BY <1>1, <2>1
    <3>2. QED
      BY <1>3, <1>6, <3>1
  <2>4. z \in 1 .. (p + 1)
    BY <1>1
  <2>5. QED
    BY <1>2, <2>2, <2>3, <2>4 DEF Ready
<1>7. QED
  BY <1>5, <1>6 DEF Ready

LEMMA DividePrepared ==
  ASSUME NEW q \in Seq(Calls), q # <<>>, NEW r, NEW m \in Int, DividedAt(q, r, m), NEW a,
         NEW n \in Nat, Prepared(q, a, n, 1)
  PROVE  Prepared(r, a, n, 1)
<1>1. /\ Len(q) \in Nat /\ 1 <= Len(q)
      /\ \A x \in 1 .. Len(q) : q[x] \in Calls
      /\ \A x \in 1 .. Len(q) : q[x].start \in Int /\ q[x].end \in Int
  BY FirstCall
<1>2. q[1].start \in Int /\ q[1].end \in Int
  <2>1. 1 \in 1 .. Len(q)
    BY <1>1
  <2>2. QED
    BY <1>1, <2>1
<1>3. /\ q[1].start <= m /\ m < q[1].end
      /\ Len(r) = Len(q) + 2
      /\ r[1].start = q[1].start /\ r[1].end = m /\ r[1].call = "divide"
      /\ r[2].start = m + 1 /\ r[2].end = q[1].end /\ r[2].call = "divide"
      /\ r[3].start = q[1].start /\ r[3].mid = m /\ r[3].end = q[1].end
  BY DEF DividedAt, Divide, Merging
<1>4. Ready(r, a, 3, q[1].start, m)
  <2>1. Apart(r[2], q[1].start, m)
    BY <1>2, <1>3 DEF Apart
  <2>2. \A y \in (1 + 1) .. (3 - 1) : y = 2
    OBVIOUS
  <2>3. 1 \in 1 .. (3 - 1)
    OBVIOUS
  <2>4. QED
    BY <1>3, <2>1, <2>2, <2>3 DEF Ready
<1>5. Ready(r, a, 3, m + 1, q[1].end)
  <2>1. 2 \in 1 .. (3 - 1) /\ \A y \in (2 + 1) .. (3 - 1) : FALSE
    OBVIOUS
  <2>2. QED
    BY <1>3, <2>1 DEF Ready
<1>6. ASSUME NEW p \in 1 .. Len(r), r[p].call = "merge"
      PROVE  /\ Ready(r, a, p, r[p].start, r[p].mid)
             /\ Ready(r, a, p, r[p].mid + 1, r[p].end)
  <2>1. p # 1 /\ p # 2
    BY <1>3, <1>6
  <2>2. CASE p = 3
    BY <1>3, <1>4, <1>5, <2>2
  <2>3. CASE p # 3
    <3>1. PICK x \in 2 .. Len(q) : p = x + 2
      <4>1. p - 2 \in 2 .. Len(q) /\ p = (p - 2) + 2
        BY <1>1, <1>3, <2>1, <2>3
      <4>2. QED
        BY <4>1
    <3>2. r[p] = q[x] /\ x \in 1 .. Len(q) /\ x \in 2 .. (Len(q) + 1)
      BY <1>1, <3>1 DEF DividedAt
    <3> DEFINE next == q[x].mid + 1
    <3>3. /\ Ready(q, a, x, q[x].start, q[x].mid)
          /\ Ready(q, a, x, next, q[x].end)
      BY <1>6, <3>2 DEF Prepared
    <3>4. q[x].start \in Int /\ q[x].mid \in Int /\ q[x].end \in Int /\ next \in Int
      BY <1>1, <1>6, <3>2, CallTypes
    <3> HIDE DEF next
    <3>5. Ready(r, a, x + 2, q[x].start, q[x].mid)
      BY <3>2, <3>3, <3>4, DivideReady
    <3>6. Ready(r, a, x + 2, next, q[x].end)
      BY <3>2, <3>3, <3>4, DivideReady
    <3>7. QED
      BY <3>1, <3>2, <3>5, <3>6 DEF next
  <2>4. QED
    BY <2>2, <2>3
<1>7. Ready(r, a, Len(r) + 1, 0, n - 1)
  <2> DEFINE last == n - 1
             top == Len(q) + 1
  <2>1. Ready(q, a, top, 0, last) /\ last \in Int /\ 0 \in Int
    BY DEF Prepared
  <2>2. top \in 2 .. (Len(q) + 1) /\ Len(r) + 1 = top + 2
    BY <1>1, <1>3
  <2> HIDE DEF last, top
  <2>3. Ready(r, a, top + 2, 0, last)
    BY <2>1, <2>2, DivideReady
  <2>4. QED
    BY <2>2, <2>3 DEF last
<1>8. QED
  BY <1>6, <1>7 DEF Prepared

-------------------------------------------------------------------------------
(* divideAndMerge and merge *)

LEMMA SomeCalls ==
  ASSUME NEW s \in Int, NEW m \in Int, NEW e \in Int
  PROVE  Divide(s, e) \in Calls /\ Merging(s, m, e) \in Calls
BY DEF Calls

LEMMA DivideKeeps ==
  ASSUME SortInv, DivideAndMerge
  PROVE  SortInv'
<1> DEFINE n == Len(arr)
           s == todo[1].start
           e == todo[1].end
           m == (s + e) \div 2
<1>1. /\ pc = "divide" /\ todo # <<>> /\ todo \in Seq(Calls) /\ arr \in Seq(Int)
      /\ UNCHANGED <<algo, values, pc, arr, i, j, k, left, right>>
      /\ \A p \in 1 .. Len(todo) : Within(todo[p], n)
      /\ Prepared(todo, arr, n, 1)
  BY DEF SortInv, DivideAndMerge
<1>2. /\ n \in Nat /\ Len(todo) \in Nat /\ 1 <= Len(todo) /\ Head(todo) = todo[1]
      /\ Tail(todo) \in Seq(Calls) /\ Len(Tail(todo)) = Len(todo) - 1
      /\ \A x \in 1 .. (Len(todo) - 1) : Tail(todo)[x] = todo[x + 1]
      /\ s \in Int /\ e \in Int
  <2>1. 1 \in 1 .. Len(todo)
    BY <1>1, FirstCall
  <2>2. QED
    BY <1>1, <2>1, FirstCall, LenProperties
<1>3. todo[1].call = "divide" /\ 0 <= s /\ e <= n - 1
  <2>1. 1 \in 1 .. Len(todo)
    BY <1>2
  <2>2. QED
    BY <1>1, <1>2, <2>1 DEF DivideAndMerge, Within
<1>4. CASE s >= e
  <2>1. todo' = Tail(todo)
    BY <1>2, <1>4 DEF DivideAndMerge
  <2>2. OrderedOn(arr, s + 1, e + 1)
    BY <1>2, <1>4 DEF OrderedOn
  <2>3. Prepared(todo, arr, n, 2)
    BY <1>1 DEF Prepared
  <2>4. Prepared(Tail(todo), arr, n, 1)
    BY <1>1, <1>2, <2>2, <2>3, PopPrepared
  <2>5. \A p \in 1 .. Len(Tail(todo)) : Within(Tail(todo)[p], n)
    BY <1>1, <1>2
  <2>6. QED
    BY <1>1, <1>2, <2>1, <2>4, <2>5 DEF SortInv
<1>5. CASE ~(s >= e)
  <2> DEFINE first == <<Divide(s, m), Divide(m + 1, e), Merging(s, m, e)>>
             r == first \o Tail(todo)
  <2>1. todo' = r
    BY <1>2, <1>5 DEF DivideAndMerge
  <2>2. m \in Int /\ s <= m /\ m < e
    BY <1>2, <1>5
  <2> HIDE DEF m
  <2>3. /\ first \in Seq(Calls) /\ Len(first) = 3
        /\ first[1] = Divide(s, m) /\ first[2] = Divide(m + 1, e) /\ first[3] = Merging(s, m, e)
    <3>1. Divide(s, m) \in Calls /\ Divide(m + 1, e) \in Calls /\ Merging(s, m, e) \in Calls
      <4>1. m + 1 \in Int
        BY <2>2
      <4>2. QED
        BY <1>2, <2>2, <4>1, SomeCalls
    <3> DEFINE c1 == Divide(s, m)
               c2 == Divide(m + 1, e)
               c3 == Merging(s, m, e)
    <3>2. c1 \in Calls /\ c2 \in Calls /\ c3 \in Calls
      BY <3>1
    <3>3. first = <<c1, c2, c3>>
      OBVIOUS
    <3> HIDE DEF c1, c2, c3, first
    <3>4. first \in Seq(Calls) /\ Len(first) = 3 /\ first[1] = c1 /\ first[2] = c2 /\ first[3] = c3
      BY <3>2, <3>3
    <3>5. QED
      BY <3>4 DEF c1, c2, c3
  <2> HIDE DEF first
  <2>4. /\ r \in Seq(Calls) /\ Len(r) = Len(todo) + 2
        /\ \A x \in 1 .. Len(r) : r[x] = IF x <= 3 THEN first[x] ELSE Tail(todo)[x - 3]
    <3> DEFINE rest == Tail(todo)
    <3>1. rest \in Seq(Calls) /\ Len(rest) = Len(todo) - 1
      BY <1>2
    <3>2. r = first \o rest
      OBVIOUS
    <3> HIDE DEF rest, r
    <3>3. /\ r \in Seq(Calls) /\ Len(r) = Len(first) + Len(rest)
          /\ \A x \in 1 .. (Len(first) + Len(rest)) :
               r[x] = IF x <= Len(first) THEN first[x] ELSE rest[x - Len(first)]
      BY <2>3, <3>1, <3>2, ConcatProperties
    <3>4. QED
      BY <1>2, <2>3, <3>1, <3>3 DEF rest
  <2> HIDE DEF r
  <2>5. \A x \in 2 .. Len(todo) : r[x + 2] = todo[x]
    <3> SUFFICES ASSUME NEW x \in 2 .. Len(todo) PROVE r[x + 2] = todo[x]
      OBVIOUS
    <3>1. /\ x + 2 \in 1 .. Len(r) /\ ~(x + 2 <= 3) /\ (x + 2) - 3 = x - 1
          /\ x - 1 \in 1 .. (Len(todo) - 1) /\ (x - 1) + 1 = x
      BY <1>2, <2>4
    <3>2. r[x + 2] = Tail(todo)[x - 1]
      BY <2>4, <3>1
    <3>3. Tail(todo)[x - 1] = todo[x]
      BY <1>2, <3>1
    <3>4. QED
      BY <3>2, <3>3
  <2>6. r[1] = Divide(s, m) /\ r[2] = Divide(m + 1, e) /\ r[3] = Merging(s, m, e)
    BY <1>2, <2>3, <2>4
  <2>7. DividedAt(todo, r, m)
    BY <2>2, <2>4, <2>5, <2>6 DEF DividedAt
  <2>8. Prepared(r, arr, n, 1)
    BY <1>1, <1>2, <2>2, <2>7, DividePrepared
  <2>9. ASSUME NEW p \in 1 .. Len(r) PROVE Within(r[p], n)
    <3>1. CASE p \in 1 .. 3
      <4>1. Within(r[1], n) /\ Within(r[2], n) /\ Within(r[3], n)
        BY <1>2, <1>3, <2>2, <2>6 DEF Within, Divide, Merging
      <4>2. QED
        BY <3>1, <4>1
    <3>2. CASE p \notin 1 .. 3
      <4>1. p - 2 \in 2 .. Len(todo) /\ (p - 2) + 2 = p /\ p - 2 \in 1 .. Len(todo)
        BY <1>2, <2>4, <3>2
      <4>2. r[(p - 2) + 2] = todo[p - 2]
        BY <2>5, <4>1
      <4>3. QED
        BY <1>1, <4>1, <4>2
    <3>3. QED
      BY <3>1, <3>2
  <2>10. QED
    BY <1>1, <2>1, <2>4, <2>8, <2>9 DEF SortInv
<1>6. QED
  BY <1>4, <1>5

\* A range of a larger array, cut in two.
LEMMA OccThirds ==
  ASSUME NEW a, NEW n \in Int, NEW s \in Nat, NEW m \in Int, NEW e \in Int,
         s <= m, m < e, e <= n - 1, NEW v
  PROVE  Occ(a, 1, n, v) = Occ(a, 1, s, v) + Occ(a, s + 1, m + 1, v)
                             + Occ(a, (m + 1) + 1, e + 1, v) + Occ(a, e + 2, n, v)
<1> DEFINE s1 == s + 1
           m1 == m + 1
           m2 == m1 + 1
           e1 == e + 1
           e2 == e1 + 1
<1>1. /\ s1 \in Int /\ m1 \in Int /\ m2 \in Int /\ e1 \in Int /\ e2 \in Int
      /\ m2 = m1 + 1 /\ e2 = e1 + 1 /\ s1 = s + 1 /\ e2 = e + 2
      /\ s <= n /\ s1 <= m1 + 1 /\ m1 <= n /\ m2 <= e1 + 1 /\ e1 <= n
  OBVIOUS
<1> HIDE DEF s1, m1, m2, e1, e2
<1>2. Occ(a, 1, n, v) = Occ(a, 1, s, v) + Occ(a, s1, n, v)
  <2>1. 1 <= s + 1 /\ 1 \in Int /\ s \in Int /\ s <= n
    BY <1>1
  <2>2. QED
    BY <1>1, <2>1, OccSplit
<1>3. Occ(a, s1, n, v) = Occ(a, s1, m1, v) + Occ(a, m2, n, v)
  <2>1. Occ(a, s1, n, v) = Occ(a, s1, m1, v) + Occ(a, m1 + 1, n, v)
    BY <1>1, OccSplit
  <2>2. QED
    BY <1>1, <2>1
<1>4. Occ(a, m2, n, v) = Occ(a, m2, e1, v) + Occ(a, e2, n, v)
  <2>1. Occ(a, m2, n, v) = Occ(a, m2, e1, v) + Occ(a, e1 + 1, n, v)
    BY <1>1, OccSplit
  <2>2. QED
    BY <1>1, <2>1
<1>5. /\ Occ(a, 1, s, v) \in Nat /\ Occ(a, s1, m1, v) \in Nat
      /\ Occ(a, m2, e1, v) \in Nat /\ Occ(a, e2, n, v) \in Nat
  BY <1>1, OccType
<1>6. Occ(a, 1, n, v) = Occ(a, 1, s, v) + Occ(a, s1, m1, v) + Occ(a, m2, e1, v) + Occ(a, e2, n, v)
  BY <1>2, <1>3, <1>4, <1>5
<1>7. e2 = e + 2
  BY <1>1
<1>8. QED
  BY <1>6, <1>7 DEF s1, m1, m2, e1

\* The call to come and the part of the array it is for.
LEMMA TheCall ==
  ASSUME SortInv, pc \in {"divide", "merge"}, todo # <<>>
  PROVE  /\ todo \in Seq(Calls) /\ arr \in Seq(Int) /\ Len(arr) \in Nat
         /\ Len(todo) \in Nat /\ 1 <= Len(todo) /\ Head(todo) = todo[1]
         /\ todo[1].start \in Int /\ todo[1].end \in Int
         /\ todo[1].call = "merge" =>
              /\ todo[1].mid \in Int
              /\ 0 <= todo[1].start /\ todo[1].start <= todo[1].mid
              /\ todo[1].mid < todo[1].end /\ todo[1].end <= Len(arr) - 1
         /\ \A p \in 1 .. Len(todo) : Within(todo[p], Len(arr))
<1>1. /\ todo \in Seq(Calls) /\ arr \in Seq(Int)
      /\ \A p \in 1 .. Len(todo) : Within(todo[p], Len(arr))
  BY DEF SortInv
<1>2. /\ Len(todo) \in Nat /\ 1 <= Len(todo) /\ Head(todo) = todo[1]
      /\ \A x \in 1 .. Len(todo) : todo[x] \in Calls
  BY <1>1, FirstCall
<1>3. 1 \in 1 .. Len(todo)
  BY <1>2
<1>4. todo[1] \in Calls /\ Within(todo[1], Len(arr))
  BY <1>1, <1>2, <1>3
<1>5. /\ todo[1].start \in Int /\ todo[1].end \in Int
      /\ todo[1].call = "merge" => todo[1].mid \in Int
  BY <1>4, CallTypes
<1>6. Len(arr) \in Nat
  BY <1>1, LenProperties
<1>7. QED
  BY <1>1, <1>2, <1>4, <1>5, <1>6 DEF Within

LEMMA BeginMergeKeeps ==
  ASSUME SortInv, BeginMerge
  PROVE  SortInv'
<1> DEFINE n == Len(arr)
           s == todo[1].start
           m == todo[1].mid
           e == todo[1].end
           m1 == m + 1
           e1 == e + 1
<1>1. /\ pc = "divide" /\ todo # <<>> /\ pc' = "merge"
      /\ UNCHANGED <<algo, values, arr, todo>>
      /\ values \in Seq(Int) /\ n = Len(values)
      /\ \A v : Count(arr, v) = Count(values, v)
      /\ Prepared(todo, arr, n, 1)
  BY DEF SortInv, BeginMerge
<1>2. /\ todo \in Seq(Calls) /\ arr \in Seq(Int) /\ n \in Nat
      /\ Len(todo) \in Nat /\ 1 <= Len(todo) /\ Head(todo) = todo[1]
      /\ \A p \in 1 .. Len(todo) : Within(todo[p], n)
  BY <1>1, TheCall
<1>3. /\ todo[1].call = "merge" /\ s \in Nat /\ m \in Int /\ e \in Int
      /\ s <= m /\ m < e /\ e <= n - 1 /\ m1 \in Int /\ e1 \in Int
      /\ s \in 0 .. n /\ m1 \in s .. n /\ m1 \in 0 .. n /\ e1 \in m1 .. n
      /\ m1 = m + 1 /\ e1 = e + 1
  <2>1. todo[1].call = "merge"
    BY <1>2 DEF BeginMerge
  <2>2. /\ s \in Int /\ m \in Int /\ e \in Int /\ 0 <= s
        /\ s <= m /\ m < e /\ e <= n - 1
    BY <1>1, <2>1, TheCall
  <2> HIDE DEF s, m, e, n
  <2>3. QED
    BY <1>2, <2>1, <2>2
<1>4. /\ left' = Slice(arr, s, m1) /\ right' = Slice(arr, m1, e1)
      /\ i' = 0 /\ j' = 0 /\ k' = s
  BY <1>2 DEF BeginMerge
<1>5. OrderedOn(arr, s + 1, m + 1) /\ OrderedOn(arr, m1 + 1, e + 1)
  <2>1. 1 \in 1 .. Len(todo)
    BY <1>2
  <2>2. Ready(todo, arr, 1, s, m) /\ Ready(todo, arr, 1, m1, e)
    BY <1>1, <1>3, <2>1 DEF Prepared
  <2>3. \A x \in 1 .. (1 - 1) : FALSE
    OBVIOUS
  <2>4. QED
    BY <2>2, <2>3 DEF Ready
<1>6. Prepared(todo, arr, n, 2)
  BY <1>1 DEF Prepared
<1> HIDE DEF m1, e1, s, m, e, n
<1>7. /\ left' \in Seq(Int) /\ Len(left') = m1 - s
      /\ \A x \in 1 .. (m1 - s) : left'[x] = arr[s + x]
      /\ \A v : Count(left', v) = Occ(arr, s + 1, m1, v)
  BY <1>2, <1>3, <1>4, SliceType DEF n
<1>8. /\ right' \in Seq(Int) /\ Len(right') = e1 - m1
      /\ \A x \in 1 .. (e1 - m1) : right'[x] = arr[m1 + x]
      /\ \A v : Count(right', v) = Occ(arr, m1 + 1, e1, v)
  BY <1>2, <1>3, <1>4, SliceType DEF n
<1>9. OrderedOn(left', 1, Len(left')) /\ OrderedOn(right', 1, Len(right'))
  <2>1. ASSUME NEW x \in 1 .. Len(left'), NEW y \in 1 .. Len(left'), x < y
        PROVE  left'[x] <= left'[y]
    <3>1. s + x \in (s + 1) .. (m + 1) /\ s + y \in (s + 1) .. (m + 1) /\ s + x < s + y
      <4>1. x \in 1 .. (m + 1 - s) /\ y \in 1 .. (m + 1 - s)
        BY <1>3, <1>7
      <4>2. QED
        BY <1>3, <2>1, <4>1
    <3>2. arr[s + x] <= arr[s + y]
      BY <1>5, <3>1 DEF OrderedOn
    <3>3. QED
      BY <1>7, <3>2
  <2>2. ASSUME NEW x \in 1 .. Len(right'), NEW y \in 1 .. Len(right'), x < y
        PROVE  right'[x] <= right'[y]
    <3>1. m1 + x \in (m1 + 1) .. (e + 1) /\ m1 + y \in (m1 + 1) .. (e + 1) /\ m1 + x < m1 + y
      BY <1>3, <1>8, <2>2
    <3>2. arr[m1 + x] <= arr[m1 + y]
      BY <1>5, <3>1 DEF OrderedOn
    <3>3. QED
      BY <1>8, <3>2
  <2>3. QED
    BY <2>1, <2>2 DEF OrderedOn
<1>10. ASSUME NEW v
       PROVE Occ(arr', 1, s, v) + Occ(arr', s + 1, k', v)
              + Occ(left', i' + 1, Len(left'), v) + Occ(right', j' + 1, Len(right'), v)
              + Occ(arr', e + 2, Len(arr'), v) = Count(values, v)
  <2>1. Occ(arr, 1, n, v) = Occ(arr, 1, s, v) + Occ(arr, s + 1, m1, v)
                             + Occ(arr, m1 + 1, e1, v) + Occ(arr, e + 2, n, v)
    BY <1>2, <1>3, OccThirds DEF m1, e1
  <2>2. Occ(arr, s + 1, s, v) = 0
    <3>1. s + 1 \in Int /\ s \in Int /\ s < s + 1
      BY <1>3
    <3>2. QED
      BY <3>1, OccNone
  <2>3. /\ Occ(left', 1, Len(left'), v) = Occ(arr, s + 1, m1, v)
        /\ Occ(right', 1, Len(right'), v) = Occ(arr, m1 + 1, e1, v)
    BY <1>7, <1>8 DEF Count
  <2>4. Occ(arr, 1, n, v) = Count(values, v)
    BY <1>1 DEF Count, n
  <2>5. /\ Occ(arr, 1, s, v) \in Nat /\ Occ(arr, s + 1, m1, v) \in Nat
        /\ Occ(arr, m1 + 1, e1, v) \in Nat /\ Occ(arr, e + 2, n, v) \in Nat
    BY <1>2, <1>3, OccType
  <2>6. i' + 1 = 1 /\ j' + 1 = 1 /\ k' = s /\ arr' = arr /\ Len(arr') = n
    BY <1>1, <1>4 DEF n
  <2>7. QED
    BY <2>1, <2>2, <2>3, <2>4, <2>5, <2>6
<1>11. MergeHalfway(Head(todo))'
  <2>1. Head(todo)' = todo[1] /\ todo' = todo /\ todo[1].call = "merge"
        /\ todo[1].start = s /\ todo[1].mid = m /\ todo[1].end = e
    BY <1>1, <1>2, <1>3 DEF s, m, e
  <2>2. /\ Len(left') + Len(right') = e - s + 1
        /\ Len(left') \in Nat /\ Len(right') \in Nat
    BY <1>3, <1>7, <1>8
  <2>3. i' \in 0 .. Len(left') /\ j' \in 0 .. Len(right') /\ k' = s + i' + j'
    BY <1>3, <1>4, <2>2
  <2>4. \A x \in (s + 1) .. k' : FALSE
    BY <1>3, <1>4
  <2>5. OrderedOn(arr', s + 1, k')
    BY <2>4 DEF OrderedOn
  <2> DEFINE c == Head(todo)'
  <2>6. c.call = "merge" /\ c.start = s /\ c.mid = m /\ c.end = e
    BY <2>1
  <2> HIDE DEF c
  <2>7. values' = values
    BY <1>1
  <2>8. \A v : Occ(arr', 1, c.start, v) + Occ(arr', c.start + 1, k', v)
              + Occ(left', i' + 1, Len(left'), v) + Occ(right', j' + 1, Len(right'), v)
              + Occ(arr', c.end + 2, Len(arr'), v) = Count(values', v)
    BY <1>10, <2>6, <2>7
  <2>9. QED
    BY <1>7, <1>8, <1>9, <2>2, <2>3, <2>4, <2>5, <2>6, <2>8 DEF MergeHalfway, Halfway, c
<1>12. QED
  BY <1>1, <1>2, <1>6, <1>11 DEF SortInv, n

LEMMA HalfwayEitherWay ==
  ASSUME NEW a, NEW s \in Int, NEW e \in Int, NEW d \in Int, NEW x, NEW p, NEW y, NEW q,
         a \in Seq(Int), Halfway(a, s, e, d, x, p, y, q)
  PROVE  Halfway(a, s, e, d, y, q, x, p)
<1>1. /\ x \in Seq(Int) /\ y \in Seq(Int) /\ Len(x) \in Nat /\ Len(y) \in Nat /\ Len(a) \in Nat
      /\ p \in 0 .. Len(x) /\ q \in 0 .. Len(y)
  BY LenProperties DEF Halfway
<1>2. ASSUME NEW v
      PROVE  Occ(a, 1, s, v) + Occ(a, s + 1, d, v)
              + Occ(y, q + 1, Len(y), v) + Occ(x, p + 1, Len(x), v)
              + Occ(a, e + 2, Len(a), v) = Count(values, v)
  <2>1. /\ Occ(a, 1, s, v) \in Nat /\ Occ(a, s + 1, d, v) \in Nat
        /\ Occ(y, q + 1, Len(y), v) \in Nat /\ Occ(x, p + 1, Len(x), v) \in Nat
        /\ Occ(a, e + 2, Len(a), v) \in Nat
    BY <1>1, OccType
  <2>2. Occ(a, 1, s, v) + Occ(a, s + 1, d, v)
              + Occ(x, p + 1, Len(x), v) + Occ(y, q + 1, Len(y), v)
              + Occ(a, e + 2, Len(a), v) = Count(values, v)
    BY DEF Halfway
  <2>3. QED
    BY <2>1, <2>2
<1>3. Len(y) + Len(x) = e - s + 1 /\ d = s + q + p
  BY <1>1 DEF Halfway
<1>4. QED
  BY <1>1, <1>2, <1>3 DEF Halfway

\* a and b agree from p to q.
Agree(a, b, p, q) == \A x \in p .. q : a[x] = b[x]

LEMMA OccAgree ==
  ASSUME NEW a, NEW b, NEW p \in Int, NEW q \in Int, NEW v, Agree(a, b, p, q)
  PROVE  Occ(a, p, q, v) = Occ(b, p, q, v)
BY OccSame DEF Agree

\* b is a with w in place z.
Written(a, b, z, w) ==
  /\ b \in Seq(Int) /\ Len(b) = Len(a)
  /\ \A u \in 1 .. Len(a) : b[u] = IF u = z THEN w ELSE a[u]

LEMMA WriteOne ==
  ASSUME NEW a \in Seq(Int), NEW z \in 1 .. Len(a), NEW w \in Int
  PROVE  Written(a, [a EXCEPT ![z] = w], z, w)
BY ExceptSeq DEF Written

LEMMA NextPlace ==
  ASSUME NEW a \in Seq(Int), NEW s \in Nat, NEW e \in Int, e <= Len(a) - 1,
         NEW d \in Int, NEW x \in Seq(Int), NEW p \in Nat, NEW y \in Seq(Int), NEW q \in Nat,
         Halfway(a, s, e, d, x, p, y, q), p < Len(x)
  PROVE  /\ d + 1 \in 1 .. Len(a) /\ d + 1 \in (s + 1) .. (e + 1)
         /\ x[p + 1] \in Int
<1>1. Len(a) \in Nat /\ Len(x) \in Nat /\ Len(y) \in Nat
  BY LenProperties
<1>2. p \in 0 .. Len(x) /\ q \in 0 .. Len(y) /\ Len(x) + Len(y) = e - s + 1 /\ d = s + p + q
  BY DEF Halfway
<1>3. p + 1 \in 1 .. Len(x)
  BY <1>1
<1>4. d + 1 \in 1 .. Len(a) /\ d + 1 \in (s + 1) .. (e + 1)
  BY <1>1, <1>2
<1>5. QED
  BY <1>3, <1>4

\* The first of run x that is left, not greater than the first of y, is placed.
LEMMA PlaceFrom ==
  ASSUME NEW a \in Seq(Int), NEW s \in Nat, NEW e \in Int, e <= Len(a) - 1,
         NEW d \in Int, NEW x \in Seq(Int), NEW p \in Nat, NEW y \in Seq(Int), NEW q \in Nat,
         Halfway(a, s, e, d, x, p, y, q),
         p < Len(x), q < Len(y) => x[p + 1] <= y[q + 1],
         NEW b, Written(a, b, d + 1, x[p + 1])
  PROVE  Halfway(b, s, e, d + 1, x, p + 1, y, q)
<1> DEFINE n == Len(a)
           nx == Len(x)
           ny == Len(y)
           p1 == p + 1
           d1 == d + 1
<1>1. /\ x \in Seq(Int) /\ y \in Seq(Int) /\ n \in Nat /\ nx \in Nat /\ ny \in Nat
      /\ p \in 0 .. nx /\ q \in 0 .. ny /\ p < nx /\ nx + ny = e - s + 1
      /\ d = s + p + q /\ p1 \in 1 .. nx /\ p1 = p + 1
      /\ d1 = d + 1 /\ d1 \in (s + 1) .. (e + 1) /\ d1 \in 1 .. n
  <2>1. n \in Nat /\ nx \in Nat /\ ny \in Nat
    BY LenProperties
  <2>2. p \in 0 .. nx /\ q \in 0 .. ny /\ nx + ny = e - s + 1 /\ d = s + p + q
    BY DEF Halfway
  <2> HIDE DEF n, nx, ny
  <2>3. p < nx /\ e <= n - 1
    BY DEF n, nx
  <2>4. QED
    BY <2>1, <2>2, <2>3
<1>2. x[p1] \in Int
  <2>1. p1 \in 1 .. Len(x)
    BY <1>1
  <2> HIDE DEF p1
  <2>2. QED
    BY <2>1
<1>3. /\ OrderedOn(x, 1, nx) /\ OrderedOn(y, 1, ny) /\ OrderedOn(a, s + 1, d)
      /\ \A z \in (s + 1) .. d :
            /\ \A u \in p1 .. nx : a[z] <= x[u]
            /\ \A u \in (q + 1) .. ny : a[z] <= y[u]
  BY DEF Halfway
<1>4. q < ny => x[p1] <= y[q + 1]
  OBVIOUS
<1>6. /\ b \in Seq(Int) /\ Len(b) = n
      /\ \A z \in 1 .. n : b[z] = IF z = d1 THEN x[p1] ELSE a[z]
  BY DEF Written
<1>5. ASSUME NEW v
      PROVE  Occ(a, 1, s, v) + Occ(a, s + 1, d, v)
              + Occ(x, p1, nx, v) + Occ(y, q + 1, ny, v)
              + Occ(a, e + 2, n, v) = Count(values, v)
  BY DEF Halfway
<1> HIDE DEF n, nx, ny, p1, d1
<1>7. ASSUME NEW v
      PROVE  Occ(b, 1, s, v) + Occ(b, s + 1, d1, v)
              + Occ(x, p1 + 1, nx, v) + Occ(y, q + 1, ny, v)
              + Occ(b, e + 2, n, v) = Count(values, v)
  <2> DEFINE p2 == p1 + 1
             s1 == s + 1
  <2>1. Occ(a, 1, s, v) + Occ(a, s1, d, v)
              + Occ(x, p1, nx, v) + Occ(y, q + 1, ny, v)
              + Occ(a, e + 2, n, v) = Count(values, v)
    BY <1>5
  <2>2. p2 \in Int /\ s1 \in Int /\ p2 = p1 + 1 /\ s1 = s + 1 /\ p1 \in Int /\ d1 \in Int
        /\ s1 <= d1 /\ p1 <= nx /\ q + 1 \in Int /\ e + 2 \in Int
    BY <1>1
  <2> HIDE DEF p2, s1
  <2>3. Occ(b, 1, s, v) = Occ(a, 1, s, v)
    <3>1. Agree(b, a, 1, s)
      <4>1. ASSUME NEW z \in 1 .. s PROVE b[z] = a[z]
        <5>1. z \in 1 .. n /\ z # d1
          BY <1>1, <2>2
        <5>2. QED
          BY <1>6, <5>1
      <4>2. QED
        BY <4>1 DEF Agree
    <3>2. 1 \in Int /\ s \in Int
      OBVIOUS
    <3>3. QED
      BY <3>1, <3>2, OccAgree
  <2>4. Occ(b, e + 2, n, v) = Occ(a, e + 2, n, v)
    <3>1. Agree(b, a, e + 2, n)
      <4>1. ASSUME NEW z \in (e + 2) .. n PROVE b[z] = a[z]
        <5>1. z \in 1 .. n /\ z # d1
          BY <1>1, <2>2
        <5>2. QED
          BY <1>6, <5>1
      <4>2. QED
        BY <4>1 DEF Agree
    <3>2. e + 2 \in Int /\ n \in Int
      BY <1>1
    <3>3. QED
      BY <3>1, <3>2, OccAgree
  <2>5. Occ(b, s1, d, v) = Occ(a, s1, d, v)
    <3>1. Agree(b, a, s1, d)
      <4>1. ASSUME NEW z \in s1 .. d PROVE b[z] = a[z]
        <5>1. z \in 1 .. n /\ z # d1
          BY <1>1, <2>2
        <5>2. QED
          BY <1>6, <5>1
      <4>2. QED
        BY <4>1 DEF Agree
    <3>2. QED
      BY <2>2, <3>1, OccAgree
  <2>6. Occ(x, p1, nx, v) = Occ(x, p1, p1, v) + Occ(x, p2, nx, v)
    <3>1. p1 \in Int /\ nx \in Int /\ p2 \in Int
      BY <1>1, <2>2
    <3>2. p1 <= nx
      BY <2>2
    <3>3. p2 = p1 + 1
      BY <2>2
    <3>4. QED
      BY <3>1, <3>2, <3>3, OccFirst
  <2>7. Occ(b, s1, d1, v) = Occ(b, s1, d, v) + Occ(b, d1, d1, v)
    <3>1. s1 <= d + 1 /\ d <= d1
      BY <1>1, <2>2
    <3>2. Occ(b, s1, d1, v) = Occ(b, s1, d, v) + Occ(b, d + 1, d1, v)
      BY <2>2, <3>1, OccSplit
    <3>3. QED
      BY <1>1, <3>2
  <2>8. Occ(b, d1, d1, v) = Occ(x, p1, p1, v)
    <3>1. b[d1] = x[p1]
      BY <1>1, <1>6
    <3>2. Occ(b, d1, d1, v) = IF b[d1] = v THEN 1 ELSE 0
      BY <2>2, OccOne
    <3>3. Occ(x, p1, p1, v) = IF x[p1] = v THEN 1 ELSE 0
      BY <2>2, OccOne
    <3>4. QED
      BY <3>1, <3>2, <3>3
  <2>9. /\ Occ(a, 1, s, v) \in Nat /\ Occ(a, s1, d, v) \in Nat /\ Occ(x, p1, p1, v) \in Nat
        /\ Occ(x, p2, nx, v) \in Nat /\ Occ(y, q + 1, ny, v) \in Nat
        /\ Occ(a, e + 2, n, v) \in Nat
    <3>1. 1 \in Int /\ s \in Int /\ d \in Int /\ n \in Int /\ nx \in Int /\ ny \in Int
      BY <1>1
    <3>2. Occ(a, 1, s, v) \in Nat /\ Occ(a, s1, d, v) \in Nat /\ Occ(x, p1, p1, v) \in Nat
      BY <2>2, <3>1, OccType
    <3>3. Occ(x, p2, nx, v) \in Nat
      BY <2>2, <3>1, OccType
    <3>4. Occ(y, q + 1, ny, v) \in Nat
      BY <2>2, <3>1, OccType
    <3>5. Occ(a, e + 2, n, v) \in Nat
      BY <2>2, <3>1, OccType
    <3>6. QED
      BY <3>2, <3>3, <3>4, <3>5
  <2>10. Occ(b, 1, s, v) + Occ(b, s1, d1, v) + Occ(x, p2, nx, v) + Occ(y, q + 1, ny, v)
              + Occ(b, e + 2, n, v) = Count(values, v)
    <3> DEFINE o1 == Occ(a, 1, s, v)
               o2 == Occ(a, s1, d, v)
               o3 == Occ(x, p1, p1, v)
               o4 == Occ(x, p2, nx, v)
               o5 == Occ(y, q + 1, ny, v)
               o6 == Occ(a, e + 2, n, v)
    <3>1. o1 + o2 + (o3 + o4) + o5 + o6 = Count(values, v)
      BY <2>1, <2>6
    <3>2. /\ Occ(b, 1, s, v) = o1 /\ Occ(b, s1, d1, v) = o2 + o3
          /\ Occ(b, e + 2, n, v) = o6
      BY <2>3, <2>4, <2>5, <2>7, <2>8
    <3>3. o1 \in Nat /\ o2 \in Nat /\ o3 \in Nat /\ o4 \in Nat /\ o5 \in Nat /\ o6 \in Nat
      BY <2>9
    <3> HIDE DEF o1, o2, o3, o4, o5, o6
    <3>4. o1 + (o2 + o3) + o4 + o5 + o6 = Count(values, v)
      BY <3>1, <3>3
    <3>5. QED
      BY <3>2, <3>4 DEF o4, o5
  <2>11. QED
    BY <2>2, <2>10
<1>8. ASSUME NEW z \in (s + 1) .. d1
      PROVE  /\ \A u \in (p1 + 1) .. nx : b[z] <= x[u]
             /\ \A u \in (q + 1) .. ny : b[z] <= y[u]
  <2>1. CASE z = d1
    <3>1. b[z] = x[p1]
      BY <1>1, <1>6, <2>1
    <3>2. ASSUME NEW u \in (p1 + 1) .. nx PROVE x[p1] <= x[u]
      <4>1. p1 \in 1 .. nx /\ u \in 1 .. nx /\ p1 < u
        BY <1>1
      <4>2. QED
        BY <1>3, <4>1 DEF OrderedOn
    <3>3. ASSUME NEW u \in (q + 1) .. ny PROVE x[p1] <= y[u]
      <4>1. q < ny /\ q + 1 \in 1 .. ny /\ u \in 1 .. ny
        BY <1>1
      <4>2. x[p1] <= y[q + 1] /\ y[q + 1] \in Int /\ y[u] \in Int
        <5>1. \A o \in 1 .. ny : y[o] \in Int
          BY DEF ny
        <5>2. y[q + 1] \in Int /\ y[u] \in Int
          BY <4>1, <5>1
        <5>3. QED
          BY <1>4, <4>1, <5>2
      <4>3. y[q + 1] <= y[u]
        <5>1. CASE u = q + 1
          BY <4>2, <5>1
        <5>2. CASE u # q + 1
          <6>1. q + 1 < u
            BY <1>1, <5>2
          <6>2. QED
            BY <1>3, <4>1, <6>1 DEF OrderedOn
        <5>3. QED
          BY <5>1, <5>2
      <4> DEFINE first == x[p1]
                 next == y[q + 1]
                 later == y[u]
      <4>4. /\ first \in Int /\ next \in Int /\ later \in Int
            /\ first <= next /\ next <= later
        BY <1>2, <4>2, <4>3
      <4> HIDE DEF first, next, later
      <4>5. first <= later
        BY <4>4
      <4>6. QED
        BY <4>5 DEF first, later
    <3>4. QED
      BY <3>1, <3>2, <3>3
  <2>2. CASE z # d1
    <3>1. z \in (s + 1) .. d /\ z \in 1 .. n
      BY <1>1, <2>2
    <3>2. b[z] = a[z]
      BY <1>6, <2>2, <3>1
    <3>3. \A u \in (p1 + 1) .. nx : u \in p1 .. nx
      BY <1>1
    <3>4. QED
      BY <1>3, <3>1, <3>2, <3>3
  <2>3. QED
    BY <2>1, <2>2
<1>9. OrderedOn(b, s + 1, d1)
  <2> SUFFICES ASSUME NEW z \in (s + 1) .. d1, NEW u \in (s + 1) .. d1, z < u
               PROVE  b[z] <= b[u]
    BY DEF OrderedOn
  <2>1. z \in (s + 1) .. d /\ z \in 1 .. n /\ z # d1 /\ u \in 1 .. n
    BY <1>1
  <2>2. b[z] = a[z]
    BY <1>6, <2>1
  <2>3. CASE u = d1
    <3>1. b[u] = x[p1] /\ p1 \in p1 .. nx
      <4>1. p1 \in p1 .. nx
        BY <1>1
      <4>2. b[d1] = x[p1]
        BY <1>1, <1>6
      <4>3. QED
        BY <2>3, <4>1, <4>2
    <3>2. QED
      BY <1>3, <2>1, <2>2, <3>1
  <2>4. CASE u # d1
    <3>1. u \in (s + 1) .. d /\ b[u] = a[u]
      BY <1>1, <1>6, <2>1, <2>4
    <3>2. QED
      BY <1>3, <2>1, <2>2, <3>1 DEF OrderedOn
  <2>5. QED
    BY <2>3, <2>4
<1>10. p1 \in 0 .. nx /\ d1 = s + p1 + q
  BY <1>1
<1>11. Halfway(b, s, e, d1, x, p1, y, q)
  BY <1>1, <1>3, <1>6, <1>7, <1>8, <1>9, <1>10 DEF Halfway, nx, ny, n
<1>12. QED
  BY <1>11 DEF p1, d1

\* What merge works with.
LEMMA InMerge ==
  ASSUME SortInv, pc = "merge"
  PROVE  /\ todo \in Seq(Calls) /\ todo # <<>> /\ Head(todo) = todo[1]
         /\ todo[1].call = "merge" /\ todo[1].start \in Nat /\ todo[1].end \in Int
         /\ todo[1].end <= Len(arr) - 1
         /\ \A p \in 1 .. Len(todo) : Within(todo[p], Len(arr))
         /\ arr \in Seq(Int) /\ Len(arr) \in Nat /\ Len(arr) = Len(values)
         /\ Prepared(todo, arr, Len(arr), 2)
         /\ Halfway(arr, todo[1].start, todo[1].end, k, left, i, right, j)
<1>1. todo # <<>> /\ Prepared(todo, arr, Len(arr), 2) /\ MergeHalfway(Head(todo))
      /\ Len(arr) = Len(values)
  BY DEF SortInv
<1>2. todo \in Seq(Calls) /\ Head(todo) = todo[1]
  BY <1>1, TheCall
<1>3. todo[1].call = "merge" /\ Halfway(arr, todo[1].start, todo[1].end, k, left, i, right, j)
  BY <1>1, <1>2 DEF MergeHalfway
<1>4. QED
  BY <1>1, <1>2, <1>3, TheCall

LEMMA HalfwayTypes ==
  ASSUME NEW a, NEW s \in Int, NEW e \in Int, NEW d, NEW x, NEW p, NEW y, NEW q,
         Halfway(a, s, e, d, x, p, y, q)
  PROVE  /\ d \in Int /\ x \in Seq(Int) /\ y \in Seq(Int) /\ p \in Nat /\ q \in Nat
         /\ Len(x) \in Nat /\ Len(y) \in Nat /\ p <= Len(x) /\ q <= Len(y)
         /\ Len(x) + Len(y) = e - s + 1 /\ d = s + p + q
<1>1. x \in Seq(Int) /\ y \in Seq(Int) /\ p \in 0 .. Len(x) /\ q \in 0 .. Len(y)
      /\ Len(x) + Len(y) = e - s + 1 /\ d = s + p + q
  BY DEF Halfway
<1>2. Len(x) \in Nat /\ Len(y) \in Nat
  BY <1>1, LenProperties
<1>3. QED
  BY <1>1, <1>2

\* A place of the range is written and merge goes on.
LEMMA PlacedKeeps ==
  ASSUME SortInv, pc = "merge",
         UNCHANGED <<algo, values, pc, left, right, todo>>,
         NEW w, Written(arr, arr', k + 1, w),
         k + 1 \in (todo[1].start + 1) .. (todo[1].end + 1),
         Halfway(arr', todo[1].start, todo[1].end, k', left, i', right, j')
  PROVE  SortInv'
<1> DEFINE n == Len(arr)
           z == k + 1
           c == Head(todo)
<1>1. /\ todo \in Seq(Calls) /\ todo # <<>> /\ c = todo[1] /\ todo[1].call = "merge"
      /\ \A p \in 1 .. Len(todo) : Within(todo[p], n)
      /\ arr \in Seq(Int) /\ n \in Nat /\ n = Len(values)
      /\ Prepared(todo, arr, n, 2)
  BY InMerge
<1>2. arr' \in Seq(Int) /\ Len(arr') = n
  BY DEF Written
<1>3. \A x \in 1 .. n : x # z => arr'[x] = arr[x]
  BY DEF Written
<1>4. z \in (todo[1].start + 1) .. (todo[1].end + 1)
  OBVIOUS
<1> HIDE DEF z, n
<1>5. Prepared(todo, arr', n, 2)
  BY <1>1, <1>3, <1>4, WritePrepared
<1>6. MergeHalfway(Head(todo))'
  <2>1. Head(todo)' = todo[1] /\ todo[1].call = "merge"
    BY <1>1
  <2> DEFINE t == Head(todo)'
  <2>2. t.call = "merge" /\ t.start = todo[1].start /\ t.end = todo[1].end
    BY <2>1
  <2> HIDE DEF t
  <2>3. Halfway(arr', t.start, t.end, k', left', i', right', j')
    BY <2>2
  <2>4. QED
    BY <2>2, <2>3 DEF MergeHalfway, t, Halfway
<1>7. QED
  BY <1>1, <1>2, <1>5, <1>6 DEF SortInv, n

LEMMA FromLeft ==
  ASSUME SortInv, pc = "merge",
         UNCHANGED <<algo, values, pc, left, right, todo>>,
         i < Len(left), j < Len(right) => left[i + 1] <= right[j + 1],
         Place(left[i + 1]), i' = i + 1, j' = j
  PROVE  SortInv'
<1> DEFINE s == todo[1].start
           e == todo[1].end
           w == left[i + 1]
<1>1. /\ s \in Nat /\ e \in Int /\ e <= Len(arr) - 1 /\ arr \in Seq(Int)
      /\ Halfway(arr, s, e, k, left, i, right, j)
  BY InMerge
<1>2. k \in Int /\ left \in Seq(Int) /\ right \in Seq(Int) /\ i \in Nat /\ j \in Nat
  <2>1. s \in Int
    BY <1>1
  <2> HIDE DEF s, e
  <2>2. QED
    BY <1>1, <2>1, HalfwayTypes
<1>3. k + 1 \in 1 .. Len(arr) /\ k + 1 \in (s + 1) .. (e + 1) /\ w \in Int
  <2> HIDE DEF s, e
  <2>1. QED
    BY <1>1, <1>2, NextPlace
<1>4. arr' = [arr EXCEPT ![k + 1] = w] /\ k' = k + 1
  BY DEF Place
<1>5. Written(arr, arr', k + 1, w)
  <2> DEFINE z == k + 1
  <2>1. z \in 1 .. Len(arr) /\ w \in Int /\ arr' = [arr EXCEPT ![z] = w] /\ arr \in Seq(Int)
    BY <1>1, <1>3, <1>4
  <2> HIDE DEF z, w
  <2>2. Written(arr, arr', z, w)
    BY <2>1, WriteOne
  <2>3. QED
    BY <2>2 DEF z
<1>6. Halfway(arr', s, e, k + 1, left, i + 1, right, j)
  <2> HIDE DEF s, e
  <2>1. j < Len(right) => left[i + 1] <= right[j + 1]
    OBVIOUS
  <2>2. Written(arr, arr', k + 1, left[i + 1])
    BY <1>5
  <2>3. QED
    BY <1>1, <1>2, <2>1, <2>2, PlaceFrom
<1>7. Halfway(arr', s, e, k', left, i', right, j')
  BY <1>4, <1>6
<1> HIDE DEF w
<1>8. QED
  BY <1>3, <1>5, <1>7, PlacedKeeps

LEMMA FromRight ==
  ASSUME SortInv, pc = "merge",
         UNCHANGED <<algo, values, pc, left, right, todo>>,
         j < Len(right), i < Len(left) => right[j + 1] <= left[i + 1],
         Place(right[j + 1]), j' = j + 1, i' = i
  PROVE  SortInv'
<1> DEFINE s == todo[1].start
           e == todo[1].end
           w == right[j + 1]
<1>1. /\ s \in Nat /\ e \in Int /\ e <= Len(arr) - 1 /\ arr \in Seq(Int)
      /\ Halfway(arr, s, e, k, left, i, right, j)
  BY InMerge
<1>2. k \in Int /\ left \in Seq(Int) /\ right \in Seq(Int) /\ i \in Nat /\ j \in Nat /\ s \in Int
  <2>1. s \in Int
    BY <1>1
  <2> HIDE DEF s, e
  <2>2. QED
    BY <1>1, <2>1, HalfwayTypes
<1>3. Halfway(arr, s, e, k, right, j, left, i)
  <2> HIDE DEF s, e
  <2>1. QED
    BY <1>1, <1>2, HalfwayEitherWay
<1>4. k + 1 \in 1 .. Len(arr) /\ k + 1 \in (s + 1) .. (e + 1) /\ w \in Int
  <2> HIDE DEF s, e
  <2>1. QED
    BY <1>1, <1>2, <1>3, NextPlace
<1>5. arr' = [arr EXCEPT ![k + 1] = w] /\ k' = k + 1
  BY DEF Place
<1>6. Written(arr, arr', k + 1, w)
  <2> DEFINE z == k + 1
  <2>1. z \in 1 .. Len(arr) /\ w \in Int /\ arr' = [arr EXCEPT ![z] = w] /\ arr \in Seq(Int)
    BY <1>1, <1>4, <1>5
  <2> HIDE DEF z, w
  <2>2. Written(arr, arr', z, w)
    BY <2>1, WriteOne
  <2>3. QED
    BY <2>2 DEF z
<1>7. Halfway(arr', s, e, k + 1, right, j + 1, left, i)
  <2> HIDE DEF s, e
  <2>1. i < Len(left) => right[j + 1] <= left[i + 1]
    OBVIOUS
  <2>2. Written(arr, arr', k + 1, right[j + 1])
    BY <1>6
  <2>3. QED
    BY <1>1, <1>2, <1>3, <2>1, <2>2, PlaceFrom
<1>8. Halfway(arr', s, e, k', left, i', right, j')
  <2> DEFINE z == k + 1
             q == j + 1
  <2>1. z \in Int /\ arr' \in Seq(Int) /\ Halfway(arr', s, e, z, right, q, left, i)
    BY <1>2, <1>6, <1>7 DEF Written
  <2> HIDE DEF s, e, z, q
  <2>2. Halfway(arr', s, e, z, left, i, right, q)
    BY <1>1, <1>2, <2>1, HalfwayEitherWay
  <2>3. QED
    BY <1>5, <2>2 DEF z, q
<1> HIDE DEF w
<1>9. QED
  BY <1>4, <1>6, <1>8, PlacedKeeps

LEMMA TakeSmallerKeeps ==
  ASSUME SortInv, TakeSmaller
  PROVE  SortInv'
<1>1. /\ pc = "merge" /\ UNCHANGED <<algo, values, pc, left, right, todo>>
      /\ i < Len(left) /\ j < Len(right)
  BY DEF TakeSmaller
<1>2. CASE left[i + 1] <= right[j + 1]
  <2>1. Place(left[i + 1]) /\ i' = i + 1 /\ j' = j
    BY <1>2 DEF TakeSmaller, At
  <2>2. QED
    BY <1>1, <1>2, <2>1, FromLeft
<1>3. CASE ~(left[i + 1] <= right[j + 1])
  <2>1. Place(right[j + 1]) /\ j' = j + 1 /\ i' = i
    BY <1>3 DEF TakeSmaller, At
  <2>2. right[j + 1] <= left[i + 1]
    <3>1. /\ left \in Seq(Int) /\ right \in Seq(Int) /\ i \in Nat /\ j \in Nat
          /\ Len(left) \in Nat /\ Len(right) \in Nat
      <4>1. todo[1].start \in Int /\ todo[1].end \in Int
            /\ Halfway(arr, todo[1].start, todo[1].end, k, left, i, right, j)
        BY <1>1, InMerge
      <4>2. QED
        BY <4>1, HalfwayTypes
    <3>2. i + 1 \in 1 .. Len(left) /\ j + 1 \in 1 .. Len(right)
      BY <1>1, <3>1
    <3>3. left[i + 1] \in Int /\ right[j + 1] \in Int
      BY <3>1, <3>2
    <3> DEFINE v == left[i + 1]
               w == right[j + 1]
    <3>4. v \in Int /\ w \in Int /\ ~(v <= w)
      BY <1>3, <3>3
    <3> HIDE DEF v, w
    <3>5. w <= v
      BY <3>4
    <3>6. QED
      BY <3>5 DEF v, w
  <2>3. QED
    BY <1>1, <2>1, <2>2, FromRight
<1>4. QED
  BY <1>2, <1>3

LEMMA TakeRemainingKeeps ==
  ASSUME SortInv, TakeRemaining
  PROVE  SortInv'
<1>1. pc = "merge" /\ UNCHANGED <<algo, values, pc, left, right, todo>>
  BY DEF TakeRemaining
<1>2. Len(left) \in Nat /\ Len(right) \in Nat /\ i \in Nat /\ j \in Nat
  <2>1. todo[1].start \in Int /\ todo[1].end \in Int
        /\ Halfway(arr, todo[1].start, todo[1].end, k, left, i, right, j)
    BY <1>1, InMerge
  <2>2. QED
    BY <2>1, HalfwayTypes
<1>3. CASE /\ i < Len(left) /\ j = Len(right)
           /\ Place(At(left, i)) /\ i' = i + 1 /\ UNCHANGED j
  <2>1. Place(left[i + 1]) /\ j' = j /\ ~(j < Len(right))
    BY <1>2, <1>3 DEF At
  <2>2. QED
    BY <1>1, <1>3, <2>1, FromLeft
<1>4. CASE /\ i = Len(left) /\ j < Len(right)
           /\ Place(At(right, j)) /\ j' = j + 1 /\ UNCHANGED i
  <2>1. Place(right[j + 1]) /\ i' = i /\ ~(i < Len(left))
    BY <1>2, <1>4 DEF At
  <2>2. QED
    BY <1>1, <1>4, <2>1, FromRight
<1>5. QED
  BY <1>3, <1>4 DEF TakeRemaining

LEMMA EndMergeKeeps ==
  ASSUME SortInv, EndMerge
  PROVE  SortInv'
<1> DEFINE n == Len(arr)
           s == todo[1].start
           e == todo[1].end
           e1 == e + 1
<1>1. /\ pc = "merge" /\ pc' = "divide" /\ todo' = Tail(todo)
      /\ i = Len(left) /\ j = Len(right)
      /\ UNCHANGED <<algo, values, arr, i, j, k, left, right>>
  BY DEF EndMerge
<1>2. /\ todo \in Seq(Calls) /\ todo # <<>>
      /\ s \in Nat /\ e \in Int /\ e <= n - 1
      /\ \A p \in 1 .. Len(todo) : Within(todo[p], n)
      /\ arr \in Seq(Int) /\ n \in Nat /\ n = Len(values)
      /\ Prepared(todo, arr, n, 2)
      /\ Halfway(arr, s, e, k, left, i, right, j)
  BY <1>1, InMerge
<1> HIDE DEF s, e, n
<1>3. /\ left \in Seq(Int) /\ right \in Seq(Int) /\ k \in Int
      /\ Len(left) \in Nat /\ Len(right) \in Nat
      /\ Len(left) + Len(right) = e - s + 1 /\ k = s + i + j
  <2>1. s \in Int
    BY <1>2
  <2>2. QED
    BY <1>2, <2>1, HalfwayTypes
<1>4. k = e1 /\ e1 \in Int /\ e1 <= n /\ s <= e1
  BY <1>1, <1>2, <1>3
<1>5. OrderedOn(arr, s + 1, e1)
  BY <1>2, <1>4 DEF Halfway
<1>6. ASSUME NEW v PROVE Count(arr, v) = Count(values, v)
  <2> DEFINE s1 == s + 1
             e2 == e1 + 1
             p1 == Len(left) + 1
             q1 == Len(right) + 1
  <2>1. Occ(arr, 1, s, v) + Occ(arr, s1, e1, v) + Occ(left, p1, Len(left), v)
          + Occ(right, q1, Len(right), v) + Occ(arr, e + 2, n, v) = Count(values, v)
    BY <1>1, <1>2, <1>4 DEF Halfway, n
  <2>2. /\ s1 \in Int /\ e2 \in Int /\ p1 \in Int /\ q1 \in Int /\ s \in Int
        /\ s1 <= e1 + 1 /\ e2 = e1 + 1 /\ e + 2 = e2
        /\ Len(left) < p1 /\ Len(right) < q1 /\ s1 = s + 1 /\ s <= n /\ 1 <= s + 1
    BY <1>2, <1>3, <1>4
  <2> HIDE DEF s1, e1, e2, p1, q1
  <2>3. Occ(left, p1, Len(left), v) = 0
    BY <1>3, <2>2, OccNone
  <2>4. Occ(right, q1, Len(right), v) = 0
    BY <1>3, <2>2, OccNone
  <2>5. Occ(arr, 1, n, v) = Occ(arr, 1, s, v) + Occ(arr, s1, n, v)
    <3>1. 1 \in Int /\ n \in Int
      BY <1>2
    <3>2. Occ(arr, 1, n, v) = Occ(arr, 1, s, v) + Occ(arr, s + 1, n, v)
      BY <2>2, <3>1, OccSplit
    <3>3. QED
      BY <2>2, <3>2
  <2>6. Occ(arr, s1, n, v) = Occ(arr, s1, e1, v) + Occ(arr, e2, n, v)
    <3>1. Occ(arr, s1, n, v) = Occ(arr, s1, e1, v) + Occ(arr, e1 + 1, n, v)
      BY <1>2, <1>4, <2>2, OccSplit
    <3>2. QED
      BY <2>2, <3>1
  <2>7. Occ(arr, 1, s, v) \in Nat /\ Occ(arr, s1, e1, v) \in Nat /\ Occ(arr, e2, n, v) \in Nat
    BY <1>2, <1>4, <2>2, OccType
  <2>8. Occ(arr, 1, n, v) = Count(values, v)
    BY <2>1, <2>2, <2>3, <2>4, <2>5, <2>6, <2>7
  <2>9. QED
    BY <2>8 DEF Count, n
<1>7. Prepared(Tail(todo), arr, n, 1)
  BY <1>2, <1>5, PopPrepared DEF s, e
<1>8. /\ Tail(todo) \in Seq(Calls)
      /\ \A p \in 1 .. Len(Tail(todo)) : Within(Tail(todo)[p], n)
  <2>1. /\ Tail(todo) \in Seq(Calls) /\ Len(Tail(todo)) = Len(todo) - 1 /\ Len(todo) \in Nat
        /\ \A x \in 1 .. (Len(todo) - 1) : Tail(todo)[x] = todo[x + 1]
    BY <1>2, FirstCall
  <2>2. \A x \in 1 .. (Len(todo) - 1) : x + 1 \in 1 .. Len(todo)
    BY <2>1
  <2>3. QED
    BY <1>2, <2>1, <2>2
<1>9. QED
  BY <1>1, <1>2, <1>6, <1>7, <1>8 DEF SortInv, n

-------------------------------------------------------------------------------
(* The end, and what the invariant says of the snapshots *)

LEMMA DoneKeeps ==
  ASSUME SortInv, SortDone
  PROVE  SortInv'
<1> DEFINE n == Len(arr)
<1>1. /\ pc' = "done" /\ UNCHANGED <<algo, values, sorting>>
      /\ pc \in {"bubble", "divide"} /\ arr \in Seq(Int) /\ n \in Nat
      /\ n = Len(values) /\ \A v : Count(arr, v) = Count(values, v)
  BY LenProperties DEF SortInv, SortDone
<1>2. OrderedOn(arr, 1, n)
  <2>1. CASE pc = "bubble"
    <3>1. /\ i >= n - 1 /\ i \in Nat
          /\ i = 0 \/ i < n
          /\ \A x \in 1 .. n, y \in (n - i + 1) .. n : x < y => arr[x] <= arr[y]
      BY <2>1 DEF SortDone, SortInv, BubbleHalfway
    <3> HIDE DEF n
    <3>2. ASSUME NEW x \in 1 .. n, NEW y \in 1 .. n, x < y PROVE arr[x] <= arr[y]
      <4>1. y \in (n - i + 1) .. n
        <5>1. n \in Nat /\ i \in Nat /\ i >= n - 1 /\ x < y
          BY <1>1, <3>1, <3>2
        <5>2. QED
          BY <5>1
      <4>2. QED
        BY <3>1, <3>2, <4>1
    <3>3. QED
      BY <3>2 DEF OrderedOn
  <2>2. CASE pc = "divide"
    <3>1. todo = <<>> /\ Prepared(todo, arr, n, 1)
      BY <2>2 DEF SortDone, SortInv
    <3>2. Ready(todo, arr, Len(todo) + 1, 0, n - 1) /\ Len(todo) = 0
      BY <3>1 DEF Prepared
    <3>3. \A x \in 1 .. ((Len(todo) + 1) - 1) : FALSE
      BY <3>2
    <3>4. OrderedOn(arr, 0 + 1, (n - 1) + 1)
      BY <3>2, <3>3 DEF Ready
    <3>5. 0 + 1 = 1 /\ (n - 1) + 1 = n
      BY <1>1
    <3>6. QED
      BY <3>4, <3>5
  <2>3. QED
    BY <1>1, <2>1, <2>2
<1>3. QED
  BY <1>1, <1>2 DEF SortInv, sorting

\* Two places of a slice, in the array it was cut from.
LEMMA FurtherOn ==
  ASSUME NEW p \in Int, NEW q \in Int, NEW x \in 1 .. (q - p), NEW y \in 1 .. (q - p), x < y
  PROVE  p + x \in (p + 1) .. q /\ p + y \in (p + 1) .. q /\ p + x < p + y
OBVIOUS

LEMMA SliceOrdered ==
  ASSUME NEW a \in Seq(Int), NEW p \in 0 .. Len(a), NEW q \in p .. Len(a),
         OrderedOn(a, p + 1, q)
  PROVE  IsOrdered(Slice(a, p, q))
<1> DEFINE c == Slice(a, p, q)
<1>1. /\ c \in Seq(Int) /\ Len(c) = q - p
      /\ \A x \in 1 .. (q - p) : c[x] = a[p + x]
  BY SliceType
<1> HIDE DEF c
<1>2. DOMAIN c = 1 .. (q - p)
  BY <1>1, LenProperties
<1>3. p \in Int /\ q \in Int
  BY LenProperties
<1>4. ASSUME NEW x \in DOMAIN c, NEW y \in DOMAIN c, x < y
      PROVE  c[x] <= c[y]
  <2>1. x \in 1 .. (q - p) /\ y \in 1 .. (q - p)
    BY <1>2
  <2>2. p + x \in (p + 1) .. q /\ p + y \in (p + 1) .. q /\ p + x < p + y
    <3>1. x < y
      BY <1>4
    <3>2. QED
      BY <1>3, <2>1, <3>1, FurtherOn
  <2>3. a[p + x] <= a[p + y]
    BY <2>2 DEF OrderedOn
  <2>4. QED
    BY <1>1, <2>1, <2>3
<1>5. QED
  BY <1>4 DEF IsOrdered, c

LEMMA WhileBubbling ==
  ASSUME SortInv, pc = "bubble"
  PROVE  /\ SameValues(arr, values)
         /\ IsOrdered(Slice(arr, Len(arr) - i, Len(arr)))
         /\ \A x \in 0 .. Len(arr) - i - 1, y \in Len(arr) - i .. Len(arr) - 1 :
              At(arr, x) <= At(arr, y)
<1> DEFINE n == Len(arr)
<1>1. /\ arr \in Seq(Int) /\ values \in Seq(Int) /\ n \in Nat
      /\ \A v : Count(arr, v) = Count(values, v)
  BY LenProperties DEF SortInv
<1>2. /\ i \in Nat
      /\ i = 0 \/ i < n
  BY DEF SortInv, BubbleHalfway
<1>3. \A x \in 1 .. n, y \in (n - i + 1) .. n : x < y => arr[x] <= arr[y]
  BY DEF SortInv, BubbleHalfway
<1>4. SameValues(arr, values)
  BY <1>1, SameCounts
<1> HIDE DEF n
<1>5. n - i \in 0 .. n /\ n \in (n - i) .. n
  BY <1>1, <1>2
<1>6. IsOrdered(Slice(arr, n - i, n))
  <2>1. \A x \in (n - i + 1) .. n : x \in 1 .. n
    BY <1>5
  <2>2. OrderedOn(arr, (n - i) + 1, n)
    BY <1>3, <2>1 DEF OrderedOn
  <2>3. QED
    BY <1>1, <1>5, <2>2, SliceOrdered DEF n
<1>7. ASSUME NEW x \in 0 .. n - i - 1, NEW y \in n - i .. n - 1
      PROVE  At(arr, x) <= At(arr, y)
  <2>1. x + 1 \in 1 .. n /\ y + 1 \in (n - i + 1) .. n /\ x + 1 < y + 1
    BY <1>1, <1>2, <1>5
  <2>2. QED
    BY <1>3, <2>1 DEF At
<1>8. QED
  BY <1>4, <1>6, <1>7 DEF n

LEMMA WhileMerging ==
  ASSUME SortInv, pc = "merge"
  PROVE  LET m == Head(todo)
             placed == Slice(arr, m.start, k)
         IN /\ SameValues(Slice(arr, 0, m.start) \o placed
                            \o Slice(left, i, Len(left)) \o Slice(right, j, Len(right))
                            \o Slice(arr, m.end + 1, Len(arr)), values)
            /\ IsOrdered(placed)
<1> DEFINE n == Len(arr)
           s == todo[1].start
           e == todo[1].end
           e1 == e + 1
           nl == Len(left)
           nr == Len(right)
           a1 == Slice(arr, 0, s)
           a2 == Slice(arr, s, k)
           a3 == Slice(left, i, nl)
           a4 == Slice(right, j, nr)
           a5 == Slice(arr, e1, n)
           whole == a1 \o a2 \o a3 \o a4 \o a5
<1>1. /\ Head(todo) = todo[1] /\ s \in Nat /\ e \in Int /\ e <= n - 1
      /\ arr \in Seq(Int) /\ n \in Nat
      /\ Halfway(arr, s, e, k, left, i, right, j)
  BY InMerge
<1>2. values \in Seq(Int)
  BY DEF SortInv
<1> HIDE DEF s, e, n
<1>3. /\ left \in Seq(Int) /\ right \in Seq(Int) /\ k \in Int /\ i \in Nat /\ j \in Nat
      /\ nl \in Nat /\ nr \in Nat /\ i <= nl /\ j <= nr
      /\ nl + nr = e - s + 1 /\ k = s + i + j
  <2>1. s \in Int
    BY <1>1
  <2>2. QED
    BY <1>1, <2>1, HalfwayTypes
<1>4. /\ OrderedOn(arr, s + 1, k)
      /\ \A v : Occ(arr, 1, s, v) + Occ(arr, s + 1, k, v)
                  + Occ(left, i + 1, nl, v) + Occ(right, j + 1, nr, v)
                  + Occ(arr, e + 2, n, v) = Count(values, v)
  BY <1>1 DEF Halfway, n
<1> HIDE DEF nl, nr
<1>5. /\ 0 \in 0 .. n /\ s \in 0 .. n /\ k \in s .. n /\ e1 \in 0 .. n /\ n \in e1 .. n
      /\ i \in 0 .. nl /\ nl \in i .. nl /\ j \in 0 .. nr /\ nr \in j .. nr
      /\ e1 + 1 = e + 2 /\ 0 + 1 = 1
  BY <1>1, <1>3
<1> HIDE DEF e1
<1>6. a1 \in Seq(Int) /\ \A v : Count(a1, v) = Occ(arr, 0 + 1, s, v)
  BY <1>1, <1>5, SliceType DEF n
<1>7. a2 \in Seq(Int) /\ \A v : Count(a2, v) = Occ(arr, s + 1, k, v)
  BY <1>1, <1>5, SliceType DEF n
<1>8. a3 \in Seq(Int) /\ \A v : Count(a3, v) = Occ(left, i + 1, nl, v)
  BY <1>3, <1>5, SliceType DEF nl
<1>9. a4 \in Seq(Int) /\ \A v : Count(a4, v) = Occ(right, j + 1, nr, v)
  BY <1>3, <1>5, SliceType DEF nr
<1>10. a5 \in Seq(Int) /\ \A v : Count(a5, v) = Occ(arr, e1 + 1, n, v)
  BY <1>1, <1>5, SliceType DEF n
<1>11. IsOrdered(a2)
  BY <1>1, <1>4, <1>5, SliceOrdered DEF n
<1> HIDE DEF a1, a2, a3, a4, a5
<1>12. whole \in Seq(Int) /\ \A v : Count(whole, v) = Count(values, v)
  <2> DEFINE b2 == a1 \o a2
             b3 == b2 \o a3
             b4 == b3 \o a4
  <2>1. b2 \in Seq(Int) /\ \A v : Count(b2, v) = Count(a1, v) + Count(a2, v)
    BY <1>6, <1>7, CountConcat, ConcatProperties
  <2>2. b3 \in Seq(Int) /\ \A v : Count(b3, v) = Count(b2, v) + Count(a3, v)
    <3> HIDE DEF b2
    <3>1. QED
      BY <1>8, <2>1, CountConcat, ConcatProperties
  <2>3. b4 \in Seq(Int) /\ \A v : Count(b4, v) = Count(b3, v) + Count(a4, v)
    <3> HIDE DEF b3
    <3>1. QED
      BY <1>9, <2>2, CountConcat, ConcatProperties
  <2>4. whole = b4 \o a5
    OBVIOUS
  <2> HIDE DEF whole
  <2>5. whole \in Seq(Int) /\ \A v : Count(whole, v) = Count(b4, v) + Count(a5, v)
    <3> HIDE DEF b4
    <3>1. QED
      BY <1>10, <2>3, <2>4, CountConcat, ConcatProperties
  <2>6. ASSUME NEW v PROVE Count(whole, v) = Count(values, v)
    <3>1. Count(whole, v) = Count(a1, v) + Count(a2, v) + Count(a3, v) + Count(a4, v) + Count(a5, v)
      BY <2>1, <2>2, <2>3, <2>5
    <3>2. /\ Count(a1, v) = Occ(arr, 1, s, v) /\ Count(a2, v) = Occ(arr, s + 1, k, v)
          /\ Count(a3, v) = Occ(left, i + 1, nl, v) /\ Count(a4, v) = Occ(right, j + 1, nr, v)
          /\ Count(a5, v) = Occ(arr, e + 2, n, v)
      BY <1>5, <1>6, <1>7, <1>8, <1>9, <1>10
    <3>3. QED
      BY <1>4, <3>1, <3>2
  <2>7. QED
    BY <2>5, <2>6
<1> HIDE DEF whole
<1>13. SameValues(whole, values)
  BY <1>2, <1>12, SameCounts
<1>14. QED
  BY <1>1, <1>11, <1>13 DEF whole, a1, a2, a3, a4, a5, s, e, e1, n, nl, nr

LEMMA SortedInTheEnd ==
  ASSUME SortInv, pc = "done"
  PROVE  IsOrdered(arr) /\ SameValues(arr, values)
<1>1. /\ arr \in Seq(Int) /\ values \in Seq(Int) /\ DOMAIN arr = 1 .. Len(arr)
      /\ \A v : Count(arr, v) = Count(values, v)
      /\ OrderedOn(arr, 1, Len(arr))
  BY LenProperties DEF SortInv
<1>2. IsOrdered(arr)
  BY <1>1 DEF OrderedOn, IsOrdered
<1>3. SameValues(arr, values)
  BY <1>1, SameCounts
<1>4. QED
  BY <1>2, <1>3

\* SortsItsInput: bubbleSortSteps and mergeSortSteps lose and double no value of an
\* array of any length, show rearrangements of it on the way, and end with it in
\* order.
THEOREM SortingSortsItsInput ==
  SortInit /\ [][SortingNext]_<<generator, sorting>> => []SortsItsInput
<1>1. SortInv => SortsItsInput
  BY WhileBubbling, WhileMerging, SortedInTheEnd DEF SortsItsInput
<1>2. SortInv /\ [SortingNext]_<<generator, sorting>> => SortInv'
  <2> SUFFICES ASSUME SortInv, [SortingNext]_<<generator, sorting>> PROVE SortInv'
    OBVIOUS
  <2>1. CASE StartSort
    BY <2>1, StartKeeps
  <2>2. CASE BubbleCompare
    BY <2>2, BubbleKeeps
  <2>3. CASE SortDone
    BY <2>3, DoneKeeps
  <2>4. CASE DivideAndMerge
    BY <2>4, DivideKeeps
  <2>5. CASE BeginMerge
    BY <2>5, BeginMergeKeeps
  <2>6. CASE TakeSmaller
    BY <2>6, TakeSmallerKeeps
  <2>7. CASE TakeRemaining
    BY <2>7, TakeRemainingKeeps
  <2>8. CASE EndMerge
    BY <2>8, EndMergeKeeps
  <2>9. CASE UNCHANGED <<generator, sorting>>
    BY <2>9 DEF SortInv, SortingIdle, BubbleHalfway, MergeHalfway, Halfway, Prepared, generator, sorting
  <2>10. QED
    BY <2>1, <2>2, <2>3, <2>4, <2>5, <2>6, <2>7, <2>8, <2>9 DEF SortingNext
<1>3. QED
  BY <1>1, <1>2, SortInvInit, PTL

\* A set of numbers has a least one.
LEMMA LeastNumber ==
  ASSUME NEW S \in SUBSET Nat, S # {}
  PROVE  \E m \in S : \A n \in S : m <= n
<1>1. PICK m \in S : \A n \in Nat : <<n, m>> \in OpToRel(<, Nat) => n \notin S
  BY NatLessThanWellFounded, WFMin
<1>2. ASSUME NEW n \in S PROVE m <= n
  <2>1. ~(n < m)
    BY <1>1, <1>2 DEF OpToRel
  <2>2. QED
    BY <2>1
<1>3. QED
  BY <1>2

(***************************************************************************)
(* Walks, on graphs of any size with any edges.                            *)
(***************************************************************************)

Graph(es, n) ==
  n \in Nat \ {0} /\ es \in Seq([from : 1 .. n, to : 1 .. n, weight : Nat])

Origin == [at |-> 1, length |-> 0]
WalkSet(n) == [at : 1 .. n, length : Nat]

\* The definition of walks, for walks of up to n edges.
WalkTable(f, es, weighted, n) ==
  f = [m \in 0 .. n |-> IF m = 0 THEN {Origin} ELSE Extended(f[m - 1], es, weighted)]

LEMMA LongerTable ==
  ASSUME NEW es, NEW weighted, NEW n \in Nat, n # 0,
         NEW f, WalkTable(f, es, weighted, n - 1)
  PROVE  \E g : WalkTable(g, es, weighted, n)
<1> DEFINE g == [m \in 0 .. n |-> IF m = n THEN Extended(f[n - 1], es, weighted) ELSE f[m]]
           h == [m \in 0 .. n |-> IF m = 0 THEN {Origin} ELSE Extended(g[m - 1], es, weighted)]
<1>1. \A m \in 0 .. (n - 1) :
        f[m] = IF m = 0 THEN {Origin} ELSE Extended(f[m - 1], es, weighted)
  BY DEF WalkTable
<1>2. ASSUME NEW m \in 0 .. n PROVE g[m] = h[m]
  <2>1. CASE m = n
    <3>1. n - 1 \in 0 .. n /\ n - 1 # n
      BY <2>1
    <3>2. g[n - 1] = f[n - 1]
      BY <3>1
    <3>3. QED
      BY <2>1, <3>2
  <2>2. CASE m # n /\ m = 0
    <3>1. m \in 0 .. (n - 1)
      BY <2>2
    <3>2. QED
      BY <1>1, <2>2, <3>1
  <2>3. CASE m # n /\ m # 0
    <3>1. m \in 0 .. (n - 1) /\ m - 1 \in 0 .. n /\ m - 1 # n
      BY <2>3
    <3>2. g[m - 1] = f[m - 1] /\ g[m] = f[m]
      BY <2>3, <3>1
    <3>3. f[m] = Extended(f[m - 1], es, weighted)
      BY <1>1, <2>3, <3>1
    <3>4. QED
      BY <2>3, <3>2, <3>3
  <2>4. QED
    BY <2>1, <2>2, <2>3
<1>3. g = h
  BY <1>2
<1>4. QED
  BY <1>3 DEF WalkTable

LEMMA WalksAreDefined ==
  ASSUME NEW es, NEW weighted, NEW n \in Nat
  PROVE  /\ WalksOf(es, weighted, n)[0] = {Origin}
         /\ \A m \in 1 .. n :
              WalksOf(es, weighted, n)[m] = Extended(WalksOf(es, weighted, n)[m - 1], es, weighted)
<1> DEFINE S == {m \in Nat : ~\E f : WalkTable(f, es, weighted, m)}
<1>1. \E f : WalkTable(f, es, weighted, n)
  <2>1. SUFFICES ASSUME S # {} PROVE FALSE
    OBVIOUS
  <2>2. PICK m \in S : \A h \in S : m <= h
    BY <2>1, LeastNumber
  <2>3. CASE m = 0
    <3> DEFINE f == [h \in 0 .. 0 |-> {Origin}]
    <3>1. f = [h \in 0 .. 0 |-> IF h = 0 THEN {Origin} ELSE Extended(f[h - 1], es, weighted)]
      OBVIOUS
    <3>2. WalkTable(f, es, weighted, 0)
      BY <3>1 DEF WalkTable
    <3>3. QED
      BY <2>2, <2>3, <3>2
  <2>4. CASE m # 0
    <3>1. m \in Nat /\ m - 1 \in Nat /\ m - 1 \notin S
      BY <2>2, <2>4
    <3>2. PICK f : WalkTable(f, es, weighted, m - 1)
      BY <3>1
    <3>3. QED
      BY <2>2, <2>4, <3>1, <3>2, LongerTable
  <2>5. QED
    BY <2>3, <2>4
<1>2. WalksOf(es, weighted, n) = CHOOSE f : WalkTable(f, es, weighted, n)
  BY DEF WalksOf, WalkTable, Origin
<1>3. WalkTable(WalksOf(es, weighted, n), es, weighted, n)
  BY <1>1, <1>2
<1> DEFINE W == WalksOf(es, weighted, n)
<1> HIDE DEF W
<1>4. \A m \in 0 .. n : W[m] = IF m = 0 THEN {Origin} ELSE Extended(W[m - 1], es, weighted)
  BY <1>3 DEF WalkTable, W
<1>5. 0 \in 0 .. n /\ \A m \in 1 .. n : m \in 0 .. n /\ m # 0
  OBVIOUS
<1>6. QED
  BY <1>4, <1>5 DEF W

\* A walk can be extended by an edge.
LEMMA WalkOn ==
  ASSUME NEW es, NEW weighted, NEW n \in Nat, NEW m \in 0 .. (n - 1),
         NEW w \in WalksOf(es, weighted, n)[m], NEW x \in DOMAIN es, es[x].from = w.at
  PROVE  Longer(w, es[x], weighted) \in WalksOf(es, weighted, n)[m + 1]
<1> DEFINE W == WalksOf(es, weighted, n)
           p == <<w, x>>
<1>1. m + 1 \in 1 .. n /\ (m + 1) - 1 = m
  OBVIOUS
<1>2. W[m + 1] = Extended(W[m], es, weighted)
  BY <1>1, WalksAreDefined
<1> HIDE DEF W
<1>3. w \in W[m]
  BY DEF W
<1>4. p \in {q \in W[m] \X DOMAIN es : q[1].at = es[q[2]].from} /\ p[1] = w /\ p[2] = x
  BY <1>3
<1>5. Longer(w, es[x], weighted) \in Extended(W[m], es, weighted)
  BY <1>4 DEF Extended
<1>6. QED
  BY <1>2, <1>5 DEF W

\* What holds of the walk of no edges, and of a walk made longer by an edge if it
\* holds of the walk, holds of all.
Kept(good, es, weighted) ==
  \A w \in good : \A x \in DOMAIN es : es[x].from = w.at => Longer(w, es[x], weighted) \in good

LEMMA ExtendedKept ==
  ASSUME NEW es, NEW weighted, NEW good, Kept(good, es, weighted), NEW ws, ws \subseteq good
  PROVE  Extended(ws, es, weighted) \subseteq good
<1>1. SUFFICES ASSUME NEW v \in Extended(ws, es, weighted) PROVE v \in good
  OBVIOUS
<1>2. CASE v \in ws
  BY <1>2
<1>3. CASE v \notin ws
  <2>1. PICK p \in {q \in ws \X DOMAIN es : q[1].at = es[q[2]].from} :
          v = Longer(p[1], es[p[2]], weighted)
    BY <1>1, <1>3 DEF Extended
  <2>2. p[1] \in good /\ p[2] \in DOMAIN es /\ es[p[2]].from = p[1].at
    BY <2>1
  <2>3. QED
    BY <2>1, <2>2 DEF Kept
<1>4. QED
  BY <1>2, <1>3

LEMMA WalkInduction ==
  ASSUME NEW es, NEW weighted, NEW n \in Nat, NEW good,
         Origin \in good, Kept(good, es, weighted)
  PROVE  \A m \in 0 .. n : WalksOf(es, weighted, n)[m] \subseteq good
<1> DEFINE W == WalksOf(es, weighted, n)
           S == {m \in 0 .. n : ~(W[m] \subseteq good)}
<1>1. W[0] = {Origin} /\ \A m \in 1 .. n : W[m] = Extended(W[m - 1], es, weighted)
  BY WalksAreDefined
<1> HIDE DEF W
<1>2. SUFFICES ASSUME S # {} PROVE FALSE
  BY DEF W
<1>3. PICK m \in S : \A h \in S : m <= h
  <2>1. S \in SUBSET Nat
    OBVIOUS
  <2>2. QED
    BY <1>2, <2>1, LeastNumber
<1>4. CASE m = 0
  BY <1>1, <1>3, <1>4
<1>5. CASE m # 0
  <2>1. m \in 1 .. n /\ m - 1 \in 0 .. n /\ m - 1 \notin S
    BY <1>3, <1>5
  <2>2. W[m - 1] \subseteq good /\ W[m] = Extended(W[m - 1], es, weighted)
    BY <1>1, <2>1
  <2>3. W[m] \subseteq good
    BY <2>2, ExtendedKept
  <2>4. QED
    BY <1>3, <2>3
<1>6. QED
  BY <1>4, <1>5

\* A walk of at most m edges has at most as many as one of at most h, if m <= h.
LEMMA WalksGrow ==
  ASSUME NEW es, NEW weighted, NEW n \in Nat, NEW m \in 0 .. n, NEW h \in m .. n
  PROVE  WalksOf(es, weighted, n)[m] \subseteq WalksOf(es, weighted, n)[h]
<1> DEFINE W == WalksOf(es, weighted, n)
           S == {x \in m .. n : ~(W[m] \subseteq W[x])}
<1>1. \A x \in 1 .. n : W[x] = Extended(W[x - 1], es, weighted)
  BY WalksAreDefined
<1> HIDE DEF W
<1>2. SUFFICES ASSUME S # {} PROVE FALSE
  BY DEF W
<1>3. PICK x \in S : \A y \in S : x <= y
  <2>1. S \in SUBSET Nat
    OBVIOUS
  <2>2. QED
    BY <1>2, <2>1, LeastNumber
<1>4. x # m /\ x \in m .. n
  BY <1>3
<1>5. x - 1 \in m .. n /\ x \in 1 .. n /\ x - 1 \notin S
  BY <1>3, <1>4
<1>6. W[m] \subseteq W[x - 1] /\ W[x] = Extended(W[x - 1], es, weighted)
  BY <1>1, <1>5
<1>7. W[m] \subseteq W[x]
  BY <1>6 DEF Extended
<1>8. QED
  BY <1>3, <1>7

-------------------------------------------------------------------------------
(* Sequences without repetition, which is how the nodes visited are kept. *)

Distinct(s) == \A x, y \in DOMAIN s : s[x] = s[y] => x = y

LEMMA AppendOne ==
  ASSUME NEW T, NEW s \in Seq(T), NEW v \in T
  PROVE  /\ Append(s, v) \in Seq(T) /\ Len(s) \in Nat /\ Len(Append(s, v)) = Len(s) + 1
         /\ DOMAIN s = 1 .. Len(s) /\ DOMAIN Append(s, v) = 1 .. (Len(s) + 1)
         /\ \A x \in 1 .. Len(s) : Append(s, v)[x] = s[x] /\ s[x] \in T
         /\ Append(s, v)[Len(s) + 1] = v
<1>1. Len(s) \in Nat /\ DOMAIN s = 1 .. Len(s) /\ \A x \in 1 .. Len(s) : s[x] \in T
  BY LenProperties, ElementOfSeq
<1>2. Append(s, v) \in Seq(T) /\ Len(Append(s, v)) = Len(s) + 1
  BY AppendProperties
<1>3. \A x \in 1 .. Len(s) : Append(s, v)[x] = s[x]
  BY <1>1, AppendProperties
<1>4. Append(s, v)[Len(s) + 1] = v
  BY <1>1, AppendProperties
<1>5. DOMAIN Append(s, v) = 1 .. (Len(s) + 1)
  BY <1>2, LenProperties
<1>6. QED
  BY <1>1, <1>2, <1>3, <1>4, <1>5

LEMMA ContainsIsIn ==
  ASSUME NEW T, NEW s \in Seq(T)
  PROVE  /\ ToSet(s) \subseteq T
         /\ ToSet(s) = {s[x] : x \in 1 .. Len(s)}
         /\ \A v : Contains(s, v) <=> v \in ToSet(s)
<1>1. DOMAIN s = 1 .. Len(s) /\ \A x \in 1 .. Len(s) : s[x] \in T
  BY LenProperties, ElementOfSeq
<1>2. ToSet(s) = {s[x] : x \in 1 .. Len(s)}
  BY <1>1 DEF ToSet
<1>3. QED
  BY <1>1, <1>2 DEF Contains

LEMMA AppendToSet ==
  ASSUME NEW T, NEW s \in Seq(T), NEW v \in T
  PROVE  ToSet(Append(s, v)) = ToSet(s) \cup {v}
<1> DEFINE u == Append(s, v)
           n == Len(s)
<1>1. n \in Nat /\ u \in Seq(T) /\ Len(u) = n + 1 /\ u[n + 1] = v
      /\ \A x \in 1 .. n : u[x] = s[x]
  BY AppendOne
<1>2. ToSet(s) = {s[x] : x \in 1 .. n}
  BY ContainsIsIn
<1>3. ToSet(u) = {u[x] : x \in 1 .. (n + 1)}
  BY <1>1, ContainsIsIn
<1> HIDE DEF u, n
<1>4. n + 1 \in 1 .. (n + 1) /\ \A x \in 1 .. (n + 1) : x \in 1 .. n \/ x = n + 1
  BY <1>1
<1>5. \A x \in 1 .. n : x \in 1 .. (n + 1)
  BY <1>1
<1>6. ToSet(u) = ToSet(s) \cup {v}
  BY <1>1, <1>2, <1>3, <1>4, <1>5
<1>7. QED
  BY <1>6 DEF u

LEMMA AppendDistinct ==
  ASSUME NEW T, NEW s \in Seq(T), NEW v \in T, Distinct(s), v \notin ToSet(s)
  PROVE  Distinct(Append(s, v))
<1> DEFINE u == Append(s, v)
           n == Len(s)
<1>1. n \in Nat /\ u[n + 1] = v /\ DOMAIN u = 1 .. (n + 1) /\ DOMAIN s = 1 .. n
      /\ \A x \in 1 .. n : u[x] = s[x]
  BY AppendOne
<1>2. \A x \in 1 .. n : s[x] # v
  BY ContainsIsIn
<1> HIDE DEF u, n
<1>3. \A x \in 1 .. (n + 1) : x \in 1 .. n \/ x = n + 1
  BY <1>1
<1>4. Distinct(u)
  BY <1>1, <1>2, <1>3 DEF Distinct
<1>5. QED
  BY <1>4 DEF u

LEMMA DistinctSize ==
  ASSUME NEW n \in Nat, NEW s \in Seq(1 .. n), Distinct(s)
  PROVE  Len(s) <= n /\ Cardinality(ToSet(s)) = Len(s)
<1> DEFINE D == 1 .. Len(s)
           N == 1 .. n
<1>1. Len(s) \in Nat /\ DOMAIN s = D /\ \A x \in D : s[x] \in N
  BY LenProperties, ElementOfSeq
<1>2. ToSet(s) = {s[x] : x \in D} /\ ToSet(s) \subseteq N
  BY ContainsIsIn
<1>3. s \in [D -> ToSet(s)] /\ s \in [D -> N]
  <2>1. s \in [1 .. Len(s) -> 1 .. n]
    BY LenProperties
  <2>2. QED
    BY <1>1, <1>2, <2>1
<1>4. IsFiniteSet(D) /\ Cardinality(D) = Len(s) /\ IsFiniteSet(N) /\ Cardinality(N) = n
  <2>1. \A m \in Nat : 1 \in Int /\ m \in Int /\ (1 > m <=> m = 0) /\ (m - 1) + 1 = m
    OBVIOUS
  <2>2. \A m \in Nat : IsFiniteSet(1 .. m) /\ Cardinality(1 .. m) = IF 1 > m THEN 0 ELSE m - 1 + 1
    BY FS_Interval
  <2>3. QED
    BY <1>1, <2>1, <2>2
<1> HIDE DEF D, N
<1>5. s \in Injection(D, N) /\ s \in Bijection(D, ToSet(s))
  BY <1>1, <1>2, <1>3 DEF Distinct, Injection, IsInjective, Bijection, Surjection
<1>6. Len(s) <= n
  BY <1>4, <1>5, FS_Injection
<1>7. Cardinality(ToSet(s)) = Cardinality(D)
  BY <1>4, <1>5, FS_Bijection DEF ExistsBijection
<1>8. QED
  BY <1>4, <1>6, <1>7

-------------------------------------------------------------------------------
(* What the three searches share. *)

\* One of the three is started on a graph.
SearchInit ==
  /\ pc = "start" /\ steps = 0
  /\ algo \in {"bfs", "dfs", "dijkstra"}
  /\ Graph(edges, nodes)
  /\ visited = <<>> /\ frontier = <<>> /\ distances = <<>>
  /\ current = 0 /\ edge = 0

SearchTypes ==
  /\ algo \in {"bfs", "dfs", "dijkstra"}
  /\ pc \in {"start", "search", "edges", "done"}
  /\ Graph(edges, nodes)
  /\ visited \in Seq(1 .. nodes) /\ Distinct(visited)
  /\ frontier \in Seq(1 .. nodes)
  /\ edge \in 0 .. Len(edges)
  /\ pc = "start" => visited = <<>> /\ edge = 0
  /\ pc = "edges" => current \in 1 .. nodes

LEMMA EdgeParts ==
  ASSUME NEW es, NEW n, Graph(es, n), NEW x \in DOMAIN es
  PROVE  es[x].from \in 1 .. n /\ es[x].to \in 1 .. n /\ es[x].weight \in Nat
<1>1. es[x] \in [from : 1 .. n, to : 1 .. n, weight : Nat]
  BY LenProperties, ElementOfSeq DEF Graph
<1>2. QED
  BY <1>1

LEMMA EdgeList ==
  ASSUME NEW es, NEW n, Graph(es, n)
  PROVE  Len(es) \in Nat /\ DOMAIN es = 1 .. Len(es) /\ n \in Nat /\ n # 0 /\ 1 \in 1 .. n
<1>1. Len(es) \in Nat /\ DOMAIN es = 1 .. Len(es)
  BY LenProperties DEF Graph
<1>2. QED
  BY <1>1 DEF Graph

LEMMA LongerParts ==
  ASSUME NEW es, NEW n, Graph(es, n), NEW weighted, NEW x \in DOMAIN es,
         NEW w \in WalkSet(n)
  PROVE  LET v == Longer(w, es[x], weighted)
         IN /\ v \in WalkSet(n) /\ v.at = es[x].to
            /\ v.length = w.length + IF weighted THEN es[x].weight ELSE 1
<1>1. es[x].to \in 1 .. n /\ es[x].weight \in Nat
  BY EdgeParts
<1>2. w.length + (IF weighted THEN es[x].weight ELSE 1) \in Nat
  BY <1>1 DEF WalkSet
<1>3. QED
  BY <1>1, <1>2 DEF Longer, WalkSet

LEMMA LongerByWeight ==
  ASSUME NEW es, NEW n, Graph(es, n), NEW x \in DOMAIN es,
         NEW w \in WalkSet(n)
  PROVE  /\ Longer(w, es[x], TRUE) \in WalkSet(n)
         /\ Longer(w, es[x], TRUE).at = es[x].to
         /\ Longer(w, es[x], TRUE).length = w.length + es[x].weight
<1>1. es[x].to \in 1 .. n /\ es[x].weight \in Nat
  BY EdgeParts
<1>2. QED
  BY <1>1 DEF Longer, WalkSet

LEMMA LongerByOne ==
  ASSUME NEW es, NEW n, Graph(es, n)
  PROVE  \A w \in WalkSet(n) : \A z \in DOMAIN es :
           /\ Longer(w, es[z], FALSE) \in WalkSet(n)
           /\ Longer(w, es[z], FALSE).at = es[z].to
           /\ Longer(w, es[z], FALSE).length = w.length + 1
<1>1. SUFFICES ASSUME NEW w \in WalkSet(n), NEW z \in DOMAIN es
               PROVE  /\ Longer(w, es[z], FALSE) \in WalkSet(n)
                      /\ Longer(w, es[z], FALSE).at = es[z].to
                      /\ Longer(w, es[z], FALSE).length = w.length + 1
  OBVIOUS
<1>2. es[z].to \in 1 .. n
  BY EdgeParts
<1>3. QED
  BY <1>2 DEF Longer, WalkSet

LEMMA OriginIsWalk ==
  ASSUME NEW es, NEW n, Graph(es, n)
  PROVE  Origin \in WalkSet(n) /\ Origin.at = 1 /\ Origin.length = 0
BY EdgeList DEF Origin, WalkSet

LEMMA WalkTypes ==
  ASSUME NEW es, NEW n, Graph(es, n), NEW weighted, NEW m \in 0 .. n
  PROVE  WalksOf(es, weighted, n)[m] \subseteq WalkSet(n)
<1> DEFINE good == WalkSet(n)
<1>1. Origin \in good
  BY OriginIsWalk
<1>2. Kept(good, es, weighted)
  BY LongerParts DEF Kept
<1>3. n \in Nat
  BY EdgeList
<1> HIDE DEF good
<1>4. WalksOf(es, weighted, n)[m] \subseteq good
  BY <1>1, <1>2, <1>3, WalkInduction
<1>5. QED
  BY <1>4 DEF good

\* Nodes that include the first and that no edge leaves are all a walk leads to.
LEMMA ClosedIsAll ==
  ASSUME NEW es, NEW n, Graph(es, n), NEW weighted, NEW seen, 1 \in seen,
         \A x \in DOMAIN es : es[x].from \in seen => es[x].to \in seen
  PROVE  \A w \in WalksOf(es, weighted, n)[n] : w.at \in seen
<1> DEFINE good == {w \in WalkSet(n) : w.at \in seen}
<1>1. Origin \in good
  BY OriginIsWalk
<1>2. Kept(good, es, weighted)
  <2> SUFFICES ASSUME NEW w \in good, NEW x \in DOMAIN es, es[x].from = w.at
               PROVE  Longer(w, es[x], weighted) \in good
    BY DEF Kept
  <2>1. w \in WalkSet(n) /\ w.at \in seen
    OBVIOUS
  <2>2. es[x].to \in seen
    BY <2>1
  <2>3. Longer(w, es[x], weighted) \in WalkSet(n)
        /\ Longer(w, es[x], weighted).at = es[x].to
    <3> HIDE DEF good
    <3>1. QED
      BY <2>1, LongerParts
  <2>4. QED
    BY <2>2, <2>3
<1>3. n \in Nat /\ n \in 0 .. n
  BY EdgeList
<1> HIDE DEF good
<1>4. WalksOf(es, weighted, n)[n] \subseteq good
  BY <1>1, <1>2, <1>3, WalkInduction
<1>5. QED
  BY <1>4 DEF good

(***************************************************************************)
(* Dijkstra's algorithm.                                                   *)
(***************************************************************************)

Tentative(ds, n) ==
  /\ DOMAIN ds \subseteq 1 .. n /\ ds \in [DOMAIN ds -> Nat]
  /\ 1 \in DOMAIN ds /\ ds[1] = 0

\* The edge cannot make a walk to where it leads shorter.
Relaxed(ds, e) == e.to \in DOMAIN ds /\ ds[e.to] <= ds[e.from] + e.weight

AllRelaxed(ds, es, seen) == \A x \in DOMAIN es : es[x].from \in seen => Relaxed(ds, es[x])

NoneShorter(ds, es, n, seen) ==
  \A v \in seen : \A w \in WalksOf(es, TRUE, n)[n] : w.at = v => ds[v] <= w.length

\* The next node is no nearer than those visited, and no further than the others.
NextBest(ds, seen, c) ==
  /\ c \in DOMAIN ds
  /\ \A u \in seen : ds[u] <= ds[c]
  /\ \A v \in DOMAIN ds \ seen : ds[c] <= ds[v]

\* A distance is final when its node is the nearest of those not visited, as every
\* walk there leaves the nodes visited by an edge that has been relaxed.
LEMMA NearestIsFinal ==
  ASSUME NEW es, NEW n, Graph(es, n), NEW ds, Tentative(ds, n),
         NEW seen, seen \subseteq DOMAIN ds, AllRelaxed(ds, es, seen),
         NEW c, NextBest(ds, seen, c), c \notin seen
  PROVE  NoneShorter(ds, es, n, seen \cup {c})
<1> DEFINE good == {w \in WalkSet(n) :
                      IF w.at \in seen THEN ds[w.at] <= w.length ELSE ds[c] <= w.length}
<1>1. Origin \in good
  <2>1. Origin \in WalkSet(n) /\ Origin.at = 1 /\ Origin.length = 0
    BY OriginIsWalk
  <2>2. 1 \in DOMAIN ds /\ ds[1] = 0
    BY DEF Tentative
  <2>3. 1 \notin seen => ds[c] <= 0
    BY <2>2 DEF NextBest
  <2>4. QED
    BY <2>1, <2>2, <2>3
<1>2. Kept(good, es, TRUE)
  <2> SUFFICES ASSUME NEW w \in good, NEW x \in DOMAIN es, es[x].from = w.at
               PROVE  Longer(w, es[x], TRUE) \in good
    BY DEF Kept
  <2> DEFINE v == Longer(w, es[x], TRUE)
  <2>1. w \in WalkSet(n) /\ w.length \in Nat
    BY DEF WalkSet
  <2>2. v \in WalkSet(n) /\ v.at = es[x].to /\ v.length = w.length + es[x].weight
    <3> HIDE DEF good
    <3>1. QED
      BY <2>1, LongerByWeight
  <2>3. es[x].weight \in Nat
    BY EdgeParts
  <2>4. ds[c] \in Nat /\ \A u \in DOMAIN ds : ds[u] \in Nat
    BY DEF Tentative, NextBest
  <2> HIDE DEF v
  <2>5. CASE w.at \in seen
    <3>1. es[x].to \in DOMAIN ds /\ ds[es[x].to] <= ds[w.at] + es[x].weight /\ ds[w.at] <= w.length
      BY <2>5 DEF AllRelaxed, Relaxed
    <3>2. ds[w.at] \in Nat /\ ds[es[x].to] \in Nat
      BY <2>4, <2>5, <3>1
    <3>3. ds[es[x].to] <= v.length
      BY <2>1, <2>2, <2>3, <3>1, <3>2
    <3>4. es[x].to \notin seen => ds[c] <= ds[es[x].to]
      BY <3>1 DEF NextBest
    <3>5. es[x].to \notin seen => ds[c] <= v.length
      BY <2>1, <2>2, <2>3, <2>4, <3>2, <3>3, <3>4
    <3>6. QED
      BY <2>2, <3>3, <3>5 DEF v
  <2>6. CASE w.at \notin seen
    <3>1. ds[c] <= w.length
      BY <2>6
    <3>2. ds[c] <= v.length
      BY <2>1, <2>2, <2>3, <2>4, <3>1
    <3>3. es[x].to \in seen => ds[es[x].to] <= ds[c] /\ ds[es[x].to] \in Nat
      BY <2>4 DEF NextBest
    <3>4. es[x].to \in seen => ds[es[x].to] <= v.length
      BY <2>1, <2>2, <2>3, <2>4, <3>2, <3>3
    <3>5. QED
      BY <2>2, <3>2, <3>4 DEF v
  <2>7. QED
    BY <2>5, <2>6
<1>3. n \in Nat /\ n \in 0 .. n
  BY EdgeList
<1>4. WalksOf(es, TRUE, n)[n] \subseteq good
  <2> HIDE DEF good
  <2>1. QED
    BY <1>1, <1>2, <1>3, WalkInduction
<1>5. QED
  BY <1>4 DEF NoneShorter

\* There is a nearest node, once one is reached.
LEMMA NearestIsReached ==
  ASSUME Tentative(distances, nodes), nodes \in Nat, Reached # {}
  PROVE  /\ Nearest \in Reached /\ Nearest \in 1 .. nodes
         /\ Nearest \in DOMAIN distances /\ Nearest \notin ToSet(visited)
         /\ \A m \in Reached : distances[Nearest] <= distances[m]
<1> DEFINE ds == distances
           D == {ds[m] : m \in Reached}
<1>1. Reached \subseteq 1 .. nodes /\ Reached \subseteq DOMAIN ds /\ Reached \cap ToSet(visited) = {}
  BY DEF Reached, Unvisited
<1>2. \A m \in Reached : ds[m] \in Nat
  BY <1>1 DEF Tentative
<1>3. PICK d \in D : \A e \in D : d <= e
  <2>1. D \in SUBSET Nat /\ D # {}
    BY <1>2
  <2>2. QED
    BY <2>1, LeastNumber
<1> DEFINE M == {m \in Reached : ds[m] = d}
<1>4. PICK n \in M : \A m \in M : n <= m
  <2>1. M # {}
    BY <1>3
  <2>2. Reached \subseteq Nat
    BY <1>1
  <2>3. M \in SUBSET Nat
    BY <2>2
  <2> HIDE DEF M
  <2>4. QED
    BY <2>1, <2>3, LeastNumber
<1>5. \A m \in Reached : ds[n] < ds[m] \/ (ds[n] = ds[m] /\ n <= m)
  <2> SUFFICES ASSUME NEW m \in Reached PROVE ds[n] < ds[m] \/ (ds[n] = ds[m] /\ n <= m)
    OBVIOUS
  <2>1. ds[n] = d /\ d <= ds[m] /\ ds[m] \in Nat /\ d \in Nat
    BY <1>2, <1>3, <1>4
  <2>2. ds[m] = d => n <= m
    BY <1>4
  <2>3. QED
    BY <2>1, <2>2
<1>6. n \in Reached
  BY <1>4
<1> HIDE DEF ds
<1>7. /\ Nearest \in Reached
      /\ \A m \in Reached : ds[Nearest] < ds[m] \/ (ds[Nearest] = ds[m] /\ Nearest <= m)
  BY <1>5, <1>6 DEF Nearest, ds
<1>8. \A m \in Reached : ds[Nearest] <= ds[m]
  <2> SUFFICES ASSUME NEW m \in Reached PROVE ds[Nearest] <= ds[m]
    OBVIOUS
  <2>1. ds[Nearest] \in Nat /\ ds[m] \in Nat
    BY <1>2, <1>7
  <2>2. ds[Nearest] < ds[m] \/ ds[Nearest] = ds[m]
    BY <1>7
  <2>3. QED
    BY <2>1, <2>2
<1>9. QED
  BY <1>1, <1>7, <1>8 DEF ds

\* The types hold at the start.
LEMMA SearchTypesInit == SearchInit => SearchTypes
<1> SUFFICES ASSUME SearchInit PROVE SearchTypes
  OBVIOUS
<1>1. Graph(edges, nodes) /\ Len(edges) \in Nat
  BY EdgeList DEF SearchInit
<1>2. visited = <<>> /\ frontier = <<>> /\ <<>> \in Seq(1 .. nodes)
  BY EmptySeq DEF SearchInit
<1>3. Distinct(visited)
  BY <1>2 DEF Distinct
<1>4. QED
  BY <1>1, <1>2, <1>3 DEF SearchInit, SearchTypes

LEMMA FrontParts ==
  ASSUME NEW T, NEW s \in Seq(T), s # <<>>
  PROVE  /\ Front(s) \in Seq(T) /\ Len(s) \in Nat \ {0} /\ Len(Front(s)) = Len(s) - 1
         /\ Last(s) = s[Len(s)] /\ Last(s) \in T
         /\ \A x \in 1 .. (Len(s) - 1) : Front(s)[x] = s[x]
<1> DEFINE m == Len(s) - 1
<1>1. Len(s) \in Nat /\ Len(s) # 0
  BY LenProperties, EmptySeq
<1>2. m \in Nat /\ 1 \in 1 .. (Len(s) + 1) /\ m \in 0 .. Len(s) /\ Len(s) \in 1 .. Len(s)
  BY <1>1
<1>3. \A x \in 1 .. Len(s) : s[x] \in T
  BY ElementOfSeq
<1>4. \A x \in 1 .. m : s[x] \in T
  BY <1>1, <1>3
<1>5. SubSeq(s, 1, m) \in Seq(T) /\ Len(SubSeq(s, 1, m)) = m
      /\ \A x \in 1 .. m : SubSeq(s, 1, m)[x] = s[x]
  <2>1. \A x \in 1 .. m : x \in 1 .. Len(s)
    BY <1>1
  <2>2. (IF 1 <= m THEN m - 1 + 1 ELSE 0) = m
    BY <1>2
  <2>3. \A x \in 1 .. m : 1 + x - 1 = x
    BY <1>2
  <2>4. QED
    BY <1>1, <1>2, <2>1, <2>2, <2>3, SubSeqProperties
<1>6. QED
  BY <1>1, <1>2, <1>3, <1>5 DEF Front, Last

LEMMA PushOne ==
  ASSUME SearchTypes, NEW v \in 1 .. nodes
  PROVE  Append(frontier, v) \in Seq(1 .. nodes)
<1> DEFINE T == 1 .. nodes
<1>1. frontier \in Seq(T) /\ v \in T
  BY DEF SearchTypes
<1> HIDE DEF T
<1>2. Append(frontier, v) \in Seq(T)
  BY <1>1, AppendOne
<1>3. QED
  BY <1>2 DEF T

\* BFS and DFS add a node only when it is not yet visited, Dijkstra a reached one.
LEMMA VisitOne ==
  ASSUME SearchTypes, NEW v \in 1 .. nodes, v \notin ToSet(visited),
         visited' = Append(visited, v)
  PROVE  /\ visited' \in Seq(1 .. nodes) /\ Distinct(visited')
         /\ ToSet(visited') = ToSet(visited) \cup {v}
         /\ Len(visited') = Len(visited) + 1 /\ Len(visited) \in Nat
<1> DEFINE T == 1 .. nodes
<1>1. visited \in Seq(T) /\ Distinct(visited) /\ v \in T
  BY DEF SearchTypes
<1> HIDE DEF T
<1>2. Append(visited, v) \in Seq(T) /\ Len(Append(visited, v)) = Len(visited) + 1 /\ Len(visited) \in Nat
  BY <1>1, AppendOne
<1>3. Distinct(Append(visited, v)) /\ ToSet(Append(visited, v)) = ToSet(visited) \cup {v}
  BY <1>1, AppendDistinct, AppendToSet
<1>4. QED
  BY <1>2, <1>3 DEF T

LEMMA SearchTypesKept ==
  ASSUME SearchTypes, GraphNext,
         algo = "dijkstra" /\ pc # "start" => Tentative(distances, nodes)
  PROVE  SearchTypes'
<1>1. /\ Graph(edges, nodes) /\ nodes \in Nat /\ 1 \in 1 .. nodes
      /\ Len(edges) \in Nat /\ DOMAIN edges = 1 .. Len(edges)
  BY EdgeList DEF SearchTypes
<1>2. /\ visited \in Seq(1 .. nodes) /\ Distinct(visited) /\ frontier \in Seq(1 .. nodes)
      /\ edge \in 0 .. Len(edges) /\ edge \in Nat
  BY <1>1 DEF SearchTypes
<1>3. UNCHANGED <<algo, nodes, edges>>
  BY DEF GraphNext, StartSearch, BfsVisit, BfsEdge, DfsVisit, DfsEdge, DijkstraVisit,
         DijkstraEdge, EdgesDone, SearchDone, search
<1>4. \A v : Contains(visited, v) <=> v \in ToSet(visited)
  BY <1>2, ContainsIsIn
<1>5. CASE StartSearch
  <2>1. visited' \in {<<1>>, <<>>} /\ frontier' \in {<<1>>, <<>>} /\ pc' = "search" /\ edge' = edge
    BY <1>5 DEF StartSearch
  <2>2. <<1>> \in Seq(1 .. nodes) /\ <<>> \in Seq(1 .. nodes)
    BY <1>1
  <2>3. Distinct(<<1>>) /\ Distinct(<<>>)
    BY DEF Distinct
  <2>4. Distinct(visited')
    BY <2>1, <2>3
  <2>5. QED
    BY <1>1, <1>2, <1>3, <2>1, <2>2, <2>4 DEF SearchTypes
<1>6. CASE BfsVisit
  <2>1. frontier' \in Seq(1 .. nodes)
    BY <1>2, <1>6, HeadTailProperties DEF BfsVisit
  <2>2. current' \in 1 .. nodes /\ edge' = 0 /\ pc' = "edges" /\ visited' = visited
    BY <1>2, <1>6, HeadTailProperties DEF BfsVisit
  <2>3. QED
    BY <1>1, <1>2, <1>3, <2>1, <2>2 DEF SearchTypes
<1>7. CASE BfsEdge
  <2> DEFINE v == edges[edge + 1].to
  <2>1. edge + 1 \in DOMAIN edges /\ edge + 1 \in 0 .. Len(edges)
    BY <1>1, <1>2, <1>7 DEF BfsEdge
  <2>2. v \in 1 .. nodes
    BY <1>1, <2>1, EdgeParts
  <2>3. \/ UNCHANGED <<visited, frontier>>
        \/ v \notin ToSet(visited) /\ visited' = Append(visited, v) /\ frontier' = Append(frontier, v)
    BY <1>4, <1>7 DEF BfsEdge, At
  <2> HIDE DEF v
  <2>4. visited' \in Seq(1 .. nodes) /\ Distinct(visited') /\ frontier' \in Seq(1 .. nodes)
    BY <1>2, <2>2, <2>3, VisitOne, PushOne
  <2>5. pc = "edges" /\ pc' = pc /\ edge' = edge + 1 /\ current' = current
    BY <1>7 DEF BfsEdge
  <2>6. QED
    BY <1>1, <1>3, <2>1, <2>4, <2>5 DEF SearchTypes
<1>8. CASE DfsVisit
  <2>1. frontier # <<>> /\ frontier' = Front(frontier) /\ pc = "search"
    BY <1>8 DEF DfsVisit
  <2>2. frontier' \in Seq(1 .. nodes) /\ Last(frontier) \in 1 .. nodes
    BY <1>2, <2>1, FrontParts
  <2>3. CASE Contains(visited, Last(frontier))
    <3>1. UNCHANGED <<pc, visited, current, edge>>
      BY <1>8, <2>3 DEF DfsVisit
    <3>2. QED
      BY <1>1, <1>2, <1>3, <2>1, <2>2, <3>1 DEF SearchTypes
  <2>4. CASE ~Contains(visited, Last(frontier))
    <3>1. visited' = Append(visited, Last(frontier)) /\ current' = Last(frontier)
          /\ edge' = Len(edges) /\ pc' = "edges"
      BY <1>8, <2>4 DEF DfsVisit
    <3>2. visited' \in Seq(1 .. nodes) /\ Distinct(visited')
      BY <1>4, <2>2, <2>4, <3>1, VisitOne
    <3>3. edge' \in 0 .. Len(edges)
      BY <1>1, <3>1
    <3>4. QED
      BY <1>1, <1>3, <2>2, <3>1, <3>2, <3>3 DEF SearchTypes
  <2>5. QED
    BY <2>3, <2>4
<1>9. CASE DfsEdge
  <2>1. edge \in DOMAIN edges /\ edge - 1 \in 0 .. Len(edges)
    BY <1>1, <1>2, <1>9 DEF DfsEdge
  <2>2. NextToPush.to \in 1 .. nodes
    BY <1>1, <2>1, EdgeParts DEF NextToPush
  <2>3. frontier' = frontier \/ frontier' = Append(frontier, NextToPush.to)
    BY <1>9 DEF DfsEdge
  <2>4. frontier' \in Seq(1 .. nodes)
    BY <1>2, <2>2, <2>3, PushOne
  <2>5. pc = "edges" /\ pc' = pc /\ edge' = edge - 1 /\ UNCHANGED <<visited, current>>
    BY <1>9 DEF DfsEdge
  <2>6. QED
    BY <1>1, <1>2, <1>3, <2>1, <2>4, <2>5 DEF SearchTypes
<1>10. CASE DijkstraVisit
  <2>1. /\ Reached # {} /\ current' = Nearest /\ visited' = Append(visited, Nearest)
        /\ edge' = 0 /\ pc' = "edges" /\ frontier' = frontier
    BY <1>10 DEF DijkstraVisit
  <2>2. Tentative(distances, nodes)
    BY <1>10 DEF DijkstraVisit
  <2>3. Nearest \in 1 .. nodes /\ Nearest \notin ToSet(visited)
    BY <1>1, <2>1, <2>2, NearestIsReached
  <2>4. visited' \in Seq(1 .. nodes) /\ Distinct(visited')
    BY <2>1, <2>3, VisitOne
  <2>5. QED
    BY <1>1, <1>2, <1>3, <2>1, <2>3, <2>4 DEF SearchTypes
<1>11. CASE DijkstraEdge
  <2>1. edge + 1 \in 0 .. Len(edges) /\ edge' = edge + 1
        /\ pc = "edges" /\ UNCHANGED <<pc, visited, frontier, current>>
    BY <1>1, <1>2, <1>11 DEF DijkstraEdge
  <2>2. QED
    BY <1>1, <1>2, <1>3, <2>1 DEF SearchTypes
<1>12. CASE EdgesDone
  <2>1. pc' = "search" /\ UNCHANGED <<visited, frontier, edge>>
    BY <1>12 DEF EdgesDone, search
  <2>2. QED
    BY <1>1, <1>2, <1>3, <2>1 DEF SearchTypes
<1>13. CASE SearchDone
  <2>1. pc' = "done" /\ UNCHANGED <<visited, frontier, edge>>
    BY <1>13 DEF SearchDone, search
  <2>2. QED
    BY <1>1, <1>2, <1>3, <2>1 DEF SearchTypes
<1>14. QED
  BY <1>5, <1>6, <1>7, <1>8, <1>9, <1>10, <1>11, <1>12, <1>13 DEF GraphNext
\* Each distance is the length of a walk of at most m edges.
Found(ds, es, n, m) ==
  \A v \in DOMAIN ds : [at |-> v, length |-> ds[v]] \in WalksOf(es, TRUE, n)[m]

\* The nodes visited are no further than the others, and the last of them is furthest.
Nearer(ds, seen) == \A u \in seen : \A v \in DOMAIN ds \ seen : ds[u] <= ds[v]
Furthest(ds, seen, c) == c \in seen /\ \A u \in seen : ds[u] <= ds[c]

\* The edges looked at are relaxed: of those from c, the first e.
RelaxedUpTo(ds, es, seen, c, e) ==
  \A x \in DOMAIN es :
    es[x].from \in seen /\ (es[x].from = c => x <= e) => Relaxed(ds, es[x])

\* An edge that makes the way to a node not visited shorter, and what it does.
Shorter(ds, n, seen, c, e) ==
  /\ e.from = c /\ e.to \in 1 .. n \ seen
  /\ e.to \in DOMAIN ds => ds[c] + e.weight < ds[e.to]
ShorterBy(ds, c, e) ==
  [v \in DOMAIN ds \cup {e.to} |-> IF v = e.to THEN ds[c] + e.weight ELSE ds[v]]

\* While the edges of c are looked at, which was reached by less than m edges.
Relaxing(ds, es, n, seen, c, m, e) ==
  /\ Tentative(ds, n) /\ seen \subseteq DOMAIN ds
  /\ Nearer(ds, seen) /\ Furthest(ds, seen, c)
  /\ NoneShorter(ds, es, n, seen) /\ Found(ds, es, n, m)
  /\ m \in 1 .. n /\ [at |-> c, length |-> ds[c]] \in WalksOf(es, TRUE, n)[m - 1]
  /\ RelaxedUpTo(ds, es, seen, c, e)

LEMMA RelaxNothing ==
  ASSUME NEW es, NEW n, Graph(es, n), NEW ds, NEW seen, NEW c, NEW m, NEW e \in Nat,
         e + 1 \in DOMAIN es, Relaxing(ds, es, n, seen, c, m, e),
         ~Shorter(ds, n, seen, c, es[e + 1])
  PROVE  Relaxing(ds, es, n, seen, c, m, e + 1)
<1>0. /\ Tentative(ds, n) /\ seen \subseteq DOMAIN ds /\ Furthest(ds, seen, c)
      /\ RelaxedUpTo(ds, es, seen, c, e)
  BY DEF Relaxing
<1> DEFINE z == es[e + 1]
<1>1. z.to \in 1 .. n /\ z.weight \in Nat
  BY EdgeParts
<1>2. \A v \in DOMAIN ds : ds[v] \in Nat
  BY <1>0 DEF Tentative
<1>3. c \in DOMAIN ds
  BY <1>0 DEF Furthest
<1>4. z.from = c => Relaxed(ds, z)
  <2> SUFFICES ASSUME z.from = c PROVE Relaxed(ds, z)
    OBVIOUS
  <2>1. CASE z.to \in seen
    <3>1. ds[z.to] <= ds[c] /\ z.to \in DOMAIN ds
      BY <1>0, <2>1 DEF Furthest
    <3>2. ds[z.to] \in Nat /\ ds[c] \in Nat
      BY <1>2, <1>3, <3>1
    <3>3. ds[z.to] <= ds[c] + z.weight
      BY <1>1, <3>1, <3>2
    <3>4. QED
      BY <3>1, <3>3 DEF Relaxed
  <2>2. CASE z.to \notin seen
    <3>1. z.to \in DOMAIN ds /\ ~(ds[c] + z.weight < ds[z.to])
      BY <1>1, <2>2 DEF Shorter
    <3>2. ds[z.to] \in Nat /\ ds[c] \in Nat
      BY <1>2, <1>3, <3>1
    <3>3. ds[z.to] <= ds[c] + z.weight
      BY <1>1, <3>1, <3>2
    <3>4. QED
      BY <3>1, <3>3 DEF Relaxed
  <2>3. QED
    BY <2>1, <2>2
<1>5. ASSUME NEW x \in DOMAIN es, es[x].from \in seen, es[x].from = c => x <= e + 1
      PROVE  Relaxed(ds, es[x])
  <2>1. x \in Nat
    BY EdgeList
  <2>2. CASE x = e + 1 /\ es[x].from = c
    BY <1>4, <2>2
  <2>3. CASE ~(x = e + 1 /\ es[x].from = c)
    <3>1. es[x].from = c => x <= e
      BY <1>5, <2>1, <2>3
    <3>2. QED
      BY <1>0, <1>5, <3>1 DEF RelaxedUpTo
  <2>4. QED
    BY <2>2, <2>3
<1>6. QED
  BY <1>5 DEF RelaxedUpTo, Relaxing

LEMMA RelaxOne ==
  ASSUME NEW es, NEW n, Graph(es, n), NEW ds, NEW seen, NEW c, NEW m, NEW e \in Nat,
         e + 1 \in DOMAIN es, Relaxing(ds, es, n, seen, c, m, e),
         Shorter(ds, n, seen, c, es[e + 1])
  PROVE  Relaxing(ShorterBy(ds, c, es[e + 1]), es, n, seen, c, m, e + 1)
<1> DEFINE dt == ShorterBy(ds, c, es[e + 1])
<1>0. /\ Tentative(ds, n) /\ seen \subseteq DOMAIN ds
      /\ Furthest(ds, seen, c) /\ Nearer(ds, seen)
      /\ m \in 1 .. n /\ Found(ds, es, n, m) /\ NoneShorter(ds, es, n, seen)
      /\ [at |-> c, length |-> ds[c]] \in WalksOf(es, TRUE, n)[m - 1]
      /\ RelaxedUpTo(ds, es, seen, c, e)
  BY DEF Relaxing
<1> DEFINE z == es[e + 1]
           new == ds[c] + z.weight
<1>1. /\ z.from = c /\ z.to \in 1 .. n /\ z.to \notin seen /\ z.weight \in Nat
      /\ z.to \in DOMAIN ds => new < ds[z.to]
  BY EdgeParts DEF Shorter
<1>2. \A v \in DOMAIN ds : ds[v] \in Nat
  BY <1>0 DEF Tentative
<1>3. c \in DOMAIN ds /\ c \in seen /\ new \in Nat /\ ds[c] <= new
  BY <1>0, <1>1, <1>2 DEF Furthest
<1>4. /\ DOMAIN dt = DOMAIN ds \cup {z.to} /\ dt[z.to] = new
      /\ \A v \in DOMAIN ds : v # z.to => dt[v] = ds[v]
  BY DEF ShorterBy
<1> HIDE DEF dt
<1>5. \A u \in seen : dt[u] = ds[u] /\ u \in DOMAIN dt
  BY <1>0, <1>1, <1>4
<1>6. \A v \in DOMAIN dt : dt[v] \in Nat
  BY <1>2, <1>3, <1>4
<1>7. dt \in [DOMAIN dt -> Nat]
  <2>1. dt = [v \in DOMAIN dt |-> dt[v]]
    BY <1>4 DEF ShorterBy, dt
  <2>2. QED
    BY <1>6, <2>1
<1>8. \A v \in DOMAIN ds : v \in DOMAIN dt /\ dt[v] <= ds[v]
  <2> SUFFICES ASSUME NEW v \in DOMAIN ds PROVE v \in DOMAIN dt /\ dt[v] <= ds[v]
    OBVIOUS
  <2>1. CASE v = z.to
    <3>1. new < ds[v] /\ dt[v] = new /\ ds[v] \in Nat
      BY <1>1, <1>2, <1>4, <2>1
    <3>2. QED
      BY <1>3, <1>4, <3>1
  <2>2. CASE v # z.to
    <3>1. dt[v] = ds[v] /\ ds[v] \in Nat
      BY <1>2, <1>4, <2>2
    <3>2. QED
      BY <1>4, <3>1
  <2>3. QED
    BY <2>1, <2>2
<1>9. Tentative(dt, n)
  <2>1. DOMAIN ds \subseteq 1 .. n /\ 1 \in DOMAIN ds /\ ds[1] = 0
    BY <1>0 DEF Tentative
  <2>2. 1 # z.to
    <3>1. 1 = z.to => new < 0
      BY <1>1, <2>1
    <3>2. QED
      BY <1>3, <3>1
  <2>3. DOMAIN dt \subseteq 1 .. n
    BY <1>1, <1>4, <2>1
  <2>4. 1 \in DOMAIN dt /\ dt[1] = 0
    BY <1>4, <2>1, <2>2
  <2>5. QED
    BY <1>7, <2>3, <2>4 DEF Tentative
<1>10. Furthest(dt, seen, c)
  BY <1>0, <1>3, <1>5 DEF Furthest
<1>11. Nearer(dt, seen)
  <2> SUFFICES ASSUME NEW u \in seen, NEW v \in DOMAIN dt \ seen PROVE dt[u] <= dt[v]
    BY DEF Nearer
  <2>1. dt[u] = ds[u] /\ ds[u] <= ds[c] /\ ds[u] \in Nat /\ ds[c] \in Nat
    BY <1>0, <1>2, <1>3, <1>5 DEF Furthest
  <2>2. CASE v = z.to
    BY <1>3, <1>4, <2>1, <2>2
  <2>3. CASE v # z.to
    <3>1. v \in DOMAIN ds \ seen /\ dt[v] = ds[v]
      BY <1>4, <2>3
    <3>2. QED
      BY <1>0, <2>1, <3>1 DEF Nearer
  <2>4. QED
    BY <2>2, <2>3
<1>12. Found(dt, es, n, m)
  <2> SUFFICES ASSUME NEW v \in DOMAIN dt
               PROVE  [at |-> v, length |-> dt[v]] \in WalksOf(es, TRUE, n)[m]
    BY DEF Found
  <2>1. CASE v = z.to
    <3> DEFINE w == [at |-> c, length |-> ds[c]]
    <3>1. m - 1 \in 0 .. (n - 1) /\ (m - 1) + 1 = m /\ n \in Nat
      BY <1>0, EdgeList
    <3>2. w.at = c /\ w.length = ds[c]
      OBVIOUS
    <3>3. Longer(w, z, TRUE) = [at |-> z.to, length |-> new]
      BY DEF Longer
    <3> HIDE DEF w
    <3>4. Longer(w, z, TRUE) \in WalksOf(es, TRUE, n)[(m - 1) + 1]
      <4>1. z.from = w.at /\ w \in WalksOf(es, TRUE, n)[m - 1] /\ e + 1 \in DOMAIN es
        BY <1>0, <1>1, <3>2 DEF w
      <4>2. QED
        BY <3>1, <4>1, WalkOn
    <3>5. QED
      BY <1>4, <2>1, <3>1, <3>3, <3>4
  <2>2. CASE v # z.to
    <3>1. v \in DOMAIN ds /\ dt[v] = ds[v]
      BY <1>4, <2>2
    <3>2. QED
      BY <1>0, <3>1 DEF Found
  <2>3. QED
    BY <2>1, <2>2
<1>13. NoneShorter(dt, es, n, seen)
  BY <1>0, <1>5 DEF NoneShorter
<1>14. RelaxedUpTo(dt, es, seen, c, e + 1)
  <2> SUFFICES ASSUME NEW x \in DOMAIN es, es[x].from \in seen, es[x].from = c => x <= e + 1
               PROVE  Relaxed(dt, es[x])
    BY DEF RelaxedUpTo
  <2>1. x \in Nat /\ es[x].weight \in Nat
    BY EdgeList, EdgeParts
  <2>2. dt[es[x].from] = ds[es[x].from] /\ ds[es[x].from] \in Nat
    BY <1>0, <1>2, <1>5
  <2>3. CASE x = e + 1
    <3>1. es[x].to \in DOMAIN dt /\ dt[es[x].to] = dt[es[x].from] + es[x].weight
      BY <1>1, <1>3, <1>4, <2>2, <2>3
    <3>2. QED
      BY <2>1, <2>2, <3>1 DEF Relaxed
  <2>4. CASE x # e + 1
    <3>1. es[x].from = c => x <= e
      BY <2>1, <2>4
    <3>2. es[x].to \in DOMAIN ds /\ ds[es[x].to] <= ds[es[x].from] + es[x].weight
      BY <1>0, <3>1 DEF RelaxedUpTo, Relaxed
    <3>3. es[x].to \in DOMAIN dt /\ dt[es[x].to] <= ds[es[x].to] /\ dt[es[x].to] \in Nat
          /\ ds[es[x].to] \in Nat
      BY <1>2, <1>6, <1>8, <3>2
    <3>4. dt[es[x].to] <= dt[es[x].from] + es[x].weight
      BY <2>1, <2>2, <3>2, <3>3
    <3>5. QED
      BY <3>3, <3>4 DEF Relaxed
  <2>5. QED
    BY <2>3, <2>4
<1>15. seen \subseteq DOMAIN dt /\ dt[c] = ds[c]
  BY <1>3, <1>5
<1>16. Relaxing(dt, es, n, seen, c, m, e + 1)
  BY <1>0, <1>9, <1>10, <1>11, <1>12, <1>13, <1>14, <1>15 DEF Relaxing
<1>17. QED
  BY <1>16 DEF dt

\* Whenever, with m nodes visited.
Settling(ds, es, n, seen, m) ==
  /\ Tentative(ds, n) /\ seen \subseteq DOMAIN ds
  /\ Nearer(ds, seen) /\ NoneShorter(ds, es, n, seen) /\ Found(ds, es, n, m)

\* The inductive invariant of Dijkstra's algorithm.
DijkstraInv ==
  algo = "dijkstra" /\ pc # "start" =>
    /\ Settling(distances, edges, nodes, ToSet(visited), Len(visited))
    /\ pc = "edges" =>
         Relaxing(distances, edges, nodes, ToSet(visited), current, Len(visited), edge)
    /\ pc # "edges" => AllRelaxed(distances, edges, ToSet(visited))
    /\ pc = "done" => DOMAIN distances \subseteq ToSet(visited)

LEMMA VisitedSize ==
  ASSUME SearchTypes
  PROVE  /\ Len(visited) \in 0 .. nodes /\ Cardinality(ToSet(visited)) = Len(visited)
         /\ ToSet(visited) \subseteq 1 .. nodes /\ (visited = <<>> => ToSet(visited) = {})
<1> DEFINE T == 1 .. nodes
<1>1. visited \in Seq(1 .. nodes) /\ Distinct(visited) /\ nodes \in Nat
  BY EdgeList DEF SearchTypes
<1>2. Len(visited) <= nodes /\ Cardinality(ToSet(visited)) = Len(visited)
  BY <1>1, DistinctSize
<1>3. visited \in Seq(T)
  BY <1>1
<1> HIDE DEF T
<1>4. Len(visited) \in Nat /\ ToSet(visited) \subseteq T
  BY <1>3, LenProperties, ContainsIsIn
<1>5. visited = <<>> => ToSet(visited) = {}
  BY DEF ToSet
<1>6. QED
  BY <1>1, <1>2, <1>4, <1>5 DEF T

LEMMA DijkstraStarts ==
  ASSUME SearchTypes, StartSearch
  PROVE  DijkstraInv'
<1> SUFFICES ASSUME algo' = "dijkstra" PROVE DijkstraInv'
  BY DEF DijkstraInv
<1> DEFINE ds == [v \in {1} |-> 0]
<1>1. /\ algo = "dijkstra" /\ pc' = "search" /\ visited' = <<>> /\ distances' = ds
      /\ UNCHANGED <<nodes, edges>>
  BY DEF StartSearch
<1>2. Graph(edges, nodes) /\ nodes \in Nat /\ 1 \in 1 .. nodes
  BY EdgeList DEF SearchTypes
<1>3. DOMAIN ds = {1} /\ ds[1] = 0
  OBVIOUS
<1>4. ToSet(<<>>) = {} /\ Len(<<>>) = 0
  BY EmptySeq DEF ToSet
<1>5. ds \in [{1} -> Nat]
  OBVIOUS
<1> HIDE DEF ds
<1>6. Tentative(ds, nodes)
  BY <1>2, <1>3, <1>5 DEF Tentative
<1>7. Found(ds, edges, nodes, 0)
  <2>1. WalksOf(edges, TRUE, nodes)[0] = {Origin}
    BY <1>2, WalksAreDefined
  <2>2. QED
    BY <1>3, <2>1 DEF Found, Origin
<1>8. Nearer(ds, {}) /\ NoneShorter(ds, edges, nodes, {}) /\ AllRelaxed(ds, edges, {})
  BY DEF Nearer, NoneShorter, AllRelaxed
<1>9. QED
  BY <1>1, <1>4, <1>6, <1>7, <1>8 DEF DijkstraInv, Settling

LEMMA DijkstraVisitKeeps ==
  ASSUME SearchTypes, DijkstraInv, DijkstraVisit
  PROVE  DijkstraInv'
<1> DEFINE ds == distances
           seen == ToSet(visited)
           c == Nearest
           m == Len(visited)
           W == WalksOf(edges, TRUE, nodes)
<1>1. /\ algo = "dijkstra" /\ pc = "search" /\ Reached # {} /\ current' = c
      /\ visited' = Append(visited, c) /\ edge' = 0 /\ pc' = "edges"
      /\ UNCHANGED <<algo, nodes, edges, distances>>
  BY DEF DijkstraVisit
<1>2. Graph(edges, nodes) /\ nodes \in Nat /\ DOMAIN edges = 1 .. Len(edges) /\ Len(edges) \in Nat
  BY EdgeList DEF SearchTypes
<1>3. /\ Tentative(ds, nodes) /\ seen \subseteq DOMAIN ds /\ Nearer(ds, seen)
      /\ Found(ds, edges, nodes, m) /\ AllRelaxed(ds, edges, seen)
  BY <1>1 DEF DijkstraInv, Settling
<1>4. c \in 1 .. nodes /\ c \in DOMAIN ds /\ c \notin seen /\ \A v \in Reached : ds[c] <= ds[v]
  BY <1>1, <1>2, <1>3, NearestIsReached
<1>5. ToSet(visited') = seen \cup {c} /\ Len(visited') = m + 1 /\ m \in Nat
  BY <1>1, <1>4, VisitOne
<1>6. m + 1 \in 1 .. nodes
  <2>1. visited' \in Seq(1 .. nodes) /\ Distinct(visited')
    BY <1>1, <1>4, VisitOne
  <2>2. Len(visited') <= nodes
    BY <1>2, <2>1, DistinctSize
  <2>3. QED
    BY <1>2, <1>5, <2>2
<1>7. \A v \in DOMAIN ds \ seen : v \in Reached
  BY <1>3 DEF Reached, Unvisited, Tentative
<1>8. NextBest(ds, seen, c)
  BY <1>3, <1>4, <1>7 DEF NextBest, Nearer
<1>9. NoneShorter(ds, edges, nodes, seen \cup {c})
  BY <1>2, <1>3, <1>4, <1>8, NearestIsFinal
<1>10. \A v \in DOMAIN ds : ds[v] \in Nat
  BY <1>3 DEF Tentative
<1>11. Nearer(ds, seen \cup {c})
  <2> HIDE DEF ds, seen, c
  <2>1. QED
    BY <1>3, <1>8 DEF NextBest, Nearer
<1>12. Furthest(ds, seen \cup {c}, c)
  BY <1>8, <1>10 DEF NextBest, Furthest
<1>13. RelaxedUpTo(ds, edges, seen \cup {c}, c, 0)
  <2>1. \A x \in DOMAIN edges : ~(x <= 0)
    BY <1>2
  <2>2. QED
    BY <1>3, <2>1 DEF RelaxedUpTo, AllRelaxed
<1>14. [at |-> c, length |-> ds[c]] \in W[m]
  BY <1>3, <1>4 DEF Found
<1>15. Found(ds, edges, nodes, m + 1)
  <2> HIDE DEF m
  <2>1. m \in 0 .. nodes /\ m + 1 \in m .. nodes
    BY <1>2, <1>5, <1>6
  <2>2. W[m] \subseteq W[m + 1]
    BY <1>2, <2>1, WalksGrow
  <2>3. QED
    BY <1>3, <2>2 DEF Found
<1>16. (m + 1) - 1 = m /\ m + 1 # 0
  BY <1>5
<1> HIDE DEF ds, seen, c, m, W
<1>17. Settling(ds, edges, nodes, seen \cup {c}, m + 1)
  BY <1>3, <1>4, <1>9, <1>11, <1>15 DEF Settling
<1>18. Relaxing(ds, edges, nodes, seen \cup {c}, c, m + 1, 0)
  BY <1>6, <1>12, <1>13, <1>14, <1>16, <1>17 DEF Relaxing, Settling, W
<1>19. QED
  BY <1>1, <1>5, <1>17, <1>18 DEF DijkstraInv, ds

LEMMA DijkstraEdgeKeeps ==
  ASSUME SearchTypes, DijkstraInv, DijkstraEdge
  PROVE  DijkstraInv'
<1> DEFINE ds == distances
           dt == distances'
           seen == ToSet(visited)
           m == Len(visited)
           c == current
           e == edge
<1>1. /\ algo = "dijkstra" /\ pc = "edges" /\ edge' = e + 1 /\ e < Len(edges)
      /\ UNCHANGED <<algo, pc, nodes, edges, visited, current>>
  BY DEF DijkstraEdge
<1>2. Graph(edges, nodes) /\ nodes \in Nat /\ DOMAIN edges = 1 .. Len(edges) /\ Len(edges) \in Nat
  BY EdgeList DEF SearchTypes
<1>3. e \in Nat /\ e + 1 \in DOMAIN edges
  BY <1>1, <1>2 DEF SearchTypes
<1>4. Relaxing(ds, edges, nodes, seen, c, m, e)
  BY <1>1 DEF DijkstraInv
<1>5. \/ Shorter(ds, nodes, seen, c, edges[e + 1]) /\ dt = ShorterBy(ds, c, edges[e + 1])
      \/ ~Shorter(ds, nodes, seen, c, edges[e + 1]) /\ dt = ds
  BY DEF DijkstraEdge, Shorter, ShorterBy, At, Unvisited
<1> HIDE DEF ds, dt, seen, m, c, e
<1>6. Relaxing(dt, edges, nodes, seen, c, m, e + 1)
  BY <1>2, <1>3, <1>4, <1>5, RelaxOne, RelaxNothing
<1>7. Settling(dt, edges, nodes, seen, m)
  BY <1>6 DEF Relaxing, Settling
<1>8. QED
  BY <1>1, <1>6, <1>7 DEF DijkstraInv, dt, seen, m, c, e

LEMMA DijkstraEndsKeep ==
  ASSUME SearchTypes, DijkstraInv, EdgesDone \/ SearchDone
  PROVE  DijkstraInv'
<1> SUFFICES ASSUME algo' = "dijkstra" PROVE DijkstraInv'
  BY DEF DijkstraInv
<1>1. algo = "dijkstra" /\ UNCHANGED search /\ pc \in {"edges", "search"} /\ pc' \in {"search", "done"}
  BY DEF EdgesDone, SearchDone
<1>2. UNCHANGED <<nodes, edges, visited, distances, current, edge>>
  BY <1>1 DEF search
<1>3. pc = "edges" => edge = Len(edges)
  BY <1>1 DEF EdgesDone, SearchDone
<1>4. Len(edges) \in Nat /\ DOMAIN edges = 1 .. Len(edges)
  BY EdgeList DEF SearchTypes
<1>5. AllRelaxed(distances, edges, ToSet(visited))
  <2>1. CASE pc = "edges"
    <3>1. \A x \in DOMAIN edges : x <= edge
      BY <1>3, <1>4, <2>1
    <3>2. RelaxedUpTo(distances, edges, ToSet(visited), current, edge)
      BY <1>1, <2>1 DEF DijkstraInv, Relaxing
    <3>3. QED
      BY <3>1, <3>2 DEF RelaxedUpTo, AllRelaxed
  <2>2. CASE pc = "search"
    BY <1>1, <2>2 DEF DijkstraInv
  <2>3. QED
    BY <1>1, <2>1, <2>2
<1>6. pc' = "done" => DOMAIN distances \subseteq ToSet(visited)
  <2> SUFFICES ASSUME pc' = "done" PROVE DOMAIN distances \subseteq ToSet(visited)
    OBVIOUS
  <2>1. Reached = {}
    BY <1>1 DEF EdgesDone, SearchDone
  <2>2. DOMAIN distances \subseteq 1 .. nodes
    BY <1>1 DEF DijkstraInv, Settling, Tentative
  <2>3. QED
    BY <2>1, <2>2 DEF Reached, Unvisited
<1>7. QED
  BY <1>1, <1>2, <1>5, <1>6 DEF DijkstraInv

LEMMA DijkstraProperty ==
  ASSUME SearchTypes, DijkstraInv
  PROVE  SettledDistancesAreFinal
<1> SUFFICES ASSUME algo = "dijkstra", pc # "start" PROVE SettledDistancesAreFinal
  BY DEF SettledDistancesAreFinal
<1> DEFINE ds == distances
           seen == ToSet(visited)
           m == Len(visited)
           W == WalksOf(edges, TRUE, nodes)
<1>1. Graph(edges, nodes) /\ nodes \in Nat /\ m \in 0 .. nodes /\ Cardinality(seen) = m
  BY EdgeList, VisitedSize DEF SearchTypes
<1>2. /\ Tentative(ds, nodes) /\ seen \subseteq DOMAIN ds
      /\ NoneShorter(ds, edges, nodes, seen) /\ Found(ds, edges, nodes, m)
      /\ pc = "done" => DOMAIN ds \subseteq seen /\ AllRelaxed(ds, edges, seen)
  BY DEF DijkstraInv, Settling
<1>3. Walks = W[nodes]
  <2>1. (algo = "dijkstra") = TRUE
    OBVIOUS
  <2>2. QED
    BY <2>1 DEF Walks
<1>4. W[m] \subseteq W[nodes]
  <2> HIDE DEF m
  <2>1. nodes \in m .. nodes
    BY <1>1
  <2>2. QED
    BY <1>1, <2>1, WalksGrow
<1>5. \A v \in DOMAIN ds : [at |-> v, length |-> ds[v]] \in Walks
  BY <1>2, <1>3, <1>4 DEF Found
<1>6. \A v \in seen : v \in DOMAIN ds /\ \A w \in Walks : w.at = v => ds[v] <= w.length
  BY <1>2, <1>3 DEF NoneShorter
<1>7. ASSUME pc = "done" PROVE seen = Reachable
  <2>1. 1 \in seen /\ \A x \in DOMAIN edges : edges[x].from \in seen => edges[x].to \in seen
    BY <1>2, <1>7 DEF Tentative, AllRelaxed, Relaxed
  <2>2. \A w \in W[nodes] : w.at \in seen
    <3> HIDE DEF seen
    <3>1. QED
      BY <1>1, <2>1, ClosedIsAll
  <2>3. Reachable \subseteq seen
    BY <1>3, <2>2 DEF Reachable
  <2>4. ASSUME NEW v \in seen PROVE v \in Reachable
    <3> DEFINE w == [at |-> v, length |-> ds[v]]
    <3>1. w \in Walks /\ w.at = v
      BY <1>5, <1>6
    <3>2. QED
      BY <3>1 DEF Reachable
  <2>5. QED
    BY <2>3, <2>4
<1>8. QED
  BY <1>1, <1>5, <1>6, <1>7 DEF SettledDistancesAreFinal

LEMMA GraphTypesKept ==
  ASSUME SearchTypes, DijkstraInv, [GraphNext]_<<generator, search>>
  PROVE  SearchTypes' /\ DijkstraInv'
<1>1. algo = "dijkstra" /\ pc # "start" => Tentative(distances, nodes)
  BY DEF DijkstraInv, Settling
<1>2. CASE GraphNext
  <2>1. SearchTypes'
    BY <1>1, <1>2, SearchTypesKept
  <2>2. CASE StartSearch
    BY <2>1, <2>2, DijkstraStarts
  <2>3. CASE BfsVisit \/ BfsEdge \/ DfsVisit \/ DfsEdge
    <3>1. algo' # "dijkstra"
      BY <2>3 DEF BfsVisit, BfsEdge, DfsVisit, DfsEdge
    <3>2. QED
      BY <2>1, <3>1 DEF DijkstraInv
  <2>4. CASE DijkstraVisit
    BY <2>1, <2>4, DijkstraVisitKeeps
  <2>5. CASE DijkstraEdge
    BY <2>1, <2>5, DijkstraEdgeKeeps
  <2>6. CASE EdgesDone \/ SearchDone
    BY <2>1, <2>6, DijkstraEndsKeep
  <2>7. QED
    BY <1>2, <2>2, <2>3, <2>4, <2>5, <2>6 DEF GraphNext
<1>3. CASE UNCHANGED <<generator, search>>
  BY <1>3 DEF SearchTypes, DijkstraInv, generator, search
<1>4. QED
  BY <1>2, <1>3

\* SettledDistancesAreFinal: on a graph of any size, with any edges of weights that
\* are not negative, dijkstraSteps confirms only shortest distances, shows no
\* distance that is not the length of a walk, and ends with all that can be reached.
THEOREM GraphDistancesAreFinal ==
  SearchInit /\ [][GraphNext]_<<generator, search>> => []SettledDistancesAreFinal
<1> DEFINE Inv == SearchTypes /\ DijkstraInv
<1>1. SearchInit => Inv
  BY SearchTypesInit DEF SearchInit, DijkstraInv
<1>2. Inv /\ [GraphNext]_<<generator, search>> => Inv'
  BY GraphTypesKept
<1>3. Inv => SettledDistancesAreFinal
  BY DijkstraProperty
<1>4. QED
  BY <1>1, <1>2, <1>3, PTL

(***************************************************************************)
(* Breadth-first search. The strengthening gives each node visited a       *)
(* level, the length of a walk to it, and says which edges were looked at. *)
(***************************************************************************)

\* The nodes s visited have levels lv, in order, and each is led to by that many edges.
Levelled(s, lv, es, n) ==
  /\ Distinct(s) /\ s \in Seq(1 .. n) /\ lv \in Seq(Nat) /\ Len(lv) = Len(s)
  /\ Len(s) \in 1 .. n /\ s[1] = 1 /\ lv[1] = 0
  /\ \A x, y \in 1 .. Len(s) : x <= y => lv[x] <= lv[y]
  /\ \A x \in 1 .. Len(s) :
       [at |-> s[x], length |-> lv[x]] \in WalksOf(es, FALSE, n)[x - 1]

\* Where the edge leads has been visited, one level further at most.
Discovered(s, lv, e, x) == \E y \in 1 .. Len(s) : s[y] = e.to /\ lv[y] <= lv[x] + 1

\* gone nodes have been taken off the queue, and e edges looked at for the last of them.
LookedAt(s, lv, es, gone, e) ==
  \A x \in 1 .. Len(s) : \A z \in DOMAIN es :
    es[z].from = s[x] /\ (x < gone \/ (x = gone /\ z <= e)) => Discovered(s, lv, es[z], x)

\* Those in the queue are one level further at most.
OneFurther(lv, gone) ==
  /\ gone = 0 => Len(lv) = 1
  /\ gone # 0 => \A x \in 1 .. Len(lv) : lv[x] <= lv[gone] + 1

Broad(s, lv, es, n, gone, e) ==
  /\ Levelled(s, lv, es, n) /\ gone \in 0 .. Len(s)
  /\ OneFurther(lv, gone) /\ LookedAt(s, lv, es, gone, e)

\* A level is how far a node is: no walk is shorter.
LEMMA LevelsAreShortest ==
  ASSUME NEW es, NEW n, Graph(es, n), NEW s, NEW lv, NEW gone, NEW e,
         Broad(s, lv, es, n, gone, e)
  PROVE  \A w \in WalksOf(es, FALSE, n)[n] : \A x \in 1 .. Len(s) : s[x] = w.at => lv[x] <= w.length
<1>0. \A w \in WalkSet(n) : \A z \in DOMAIN es :
        /\ Longer(w, es[z], FALSE) \in WalkSet(n)
        /\ Longer(w, es[z], FALSE).at = es[z].to
        /\ Longer(w, es[z], FALSE).length = w.length + 1
  BY LongerByOne
<1> DEFINE l == Len(s)
           m == (IF gone = 0 THEN 0 ELSE lv[gone]) + 1
           good == {w \in WalkSet(n) : /\ \A x \in 1 .. l : s[x] = w.at => lv[x] <= w.length
                                       /\ (\A x \in 1 .. l : s[x] # w.at) => m <= w.length}
<1>1. /\ Distinct(s) /\ s \in Seq(1 .. n) /\ lv \in Seq(Nat) /\ Len(lv) = l
      /\ l \in Nat /\ l # 0 /\ s[1] = 1 /\ lv[1] = 0 /\ gone \in 0 .. l
      /\ \A x, y \in 1 .. l : x <= y => lv[x] <= lv[y]
      /\ OneFurther(lv, gone) /\ LookedAt(s, lv, es, gone, e)
  BY DEF Broad, Levelled
<1>2. \A x \in 1 .. l : lv[x] \in Nat
  BY <1>1, ElementOfSeq
<1>3. DOMAIN s = 1 .. l
  BY <1>1, LenProperties
<1>4. m \in Nat /\ \A x \in 1 .. l : lv[x] <= m /\ (~(x < gone) => m <= lv[x] + 1)
  <2>1. CASE gone = 0
    <3>1. l = 1 /\ m = 1
      BY <1>1, <2>1 DEF OneFurther
    <3>2. \A x \in 1 .. l : lv[x] = 0
      BY <1>1, <3>1
    <3>3. QED
      BY <3>1, <3>2
  <2>2. CASE gone # 0
    <3>1. gone \in 1 .. l
      BY <1>1, <2>2
    <3>2. m = lv[gone] + 1 /\ lv[gone] \in Nat
      BY <1>2, <2>2, <3>1
    <3>3. \A x \in 1 .. l : lv[x] <= lv[gone] + 1
      BY <1>1, <2>2 DEF OneFurther
    <3>4. ASSUME NEW x \in 1 .. l, ~(x < gone) PROVE m <= lv[x] + 1
      <4>1. gone <= x
        BY <1>1, <3>1, <3>4
      <4>2. lv[gone] <= lv[x] /\ lv[x] \in Nat
        BY <1>1, <1>2, <3>1, <4>1
      <4>3. QED
        BY <3>2, <4>2
    <3>5. QED
      BY <3>2, <3>3, <3>4
  <2>3. QED
    BY <2>1, <2>2
<1> HIDE DEF m
<1>5. Origin \in good
  <2>1. Origin \in WalkSet(n) /\ Origin.at = 1 /\ Origin.length = 0
    BY OriginIsWalk
  <2>2. 1 \in 1 .. l /\ 1 \in DOMAIN s
    BY <1>1, <1>3
  <2>3. \A x \in 1 .. l : s[x] = 1 => x = 1
    BY <1>1, <1>3, <2>2 DEF Distinct
  <2>4. QED
    BY <1>1, <2>1, <2>2, <2>3
<1>6. Kept(good, es, FALSE)
  <2> SUFFICES ASSUME NEW w \in good, NEW z \in DOMAIN es, es[z].from = w.at
               PROVE  Longer(w, es[z], FALSE) \in good
    BY DEF Kept
  <2> DEFINE v == Longer(w, es[z], FALSE)
             t == es[z].to
  <2>1. w \in WalkSet(n)
    OBVIOUS
  <2>2. w.length \in Nat
    BY <2>1 DEF WalkSet
  <2>3. v \in WalkSet(n) /\ v.at = t /\ v.length = w.length + 1
    BY <1>0, <2>1
  <2> HIDE DEF v, t
  <2>4. CASE \A x \in 1 .. l : s[x] # w.at
    <3>1. m <= w.length
      BY <2>4
    <3>2. m <= v.length /\ \A x \in 1 .. l : lv[x] <= v.length
      BY <1>2, <1>4, <2>2, <2>3, <3>1
    <3>3. QED
      BY <2>3, <3>2 DEF v
  <2>5. ASSUME NEW x \in 1 .. l, s[x] = w.at, ~(x < gone) PROVE v \in good
    <3>1. m <= lv[x] + 1 /\ lv[x] <= w.length /\ lv[x] \in Nat
      BY <1>2, <1>4, <2>5
    <3>2. m <= v.length
      BY <1>4, <2>2, <2>3, <3>1
    <3>3. \A y \in 1 .. l : lv[y] <= v.length
      BY <1>2, <1>4, <2>2, <2>3, <3>2
    <3>4. QED
      BY <2>3, <3>2, <3>3
  <2>6. ASSUME NEW x \in 1 .. l, s[x] = w.at, x < gone PROVE v \in good
    <3>1. lv[x] <= w.length /\ lv[x] \in Nat
      BY <1>2, <2>6
    <3>2. PICK y \in 1 .. l : s[y] = t /\ lv[y] <= lv[x] + 1
      BY <1>1, <2>6 DEF LookedAt, Discovered, t
    <3>3. lv[y] <= v.length
      BY <1>2, <2>2, <2>3, <3>1, <3>2
    <3>4. \A u \in 1 .. l : s[u] = t => u = y
      BY <1>1, <1>3, <3>2 DEF Distinct
    <3>5. QED
      BY <2>3, <3>2, <3>3, <3>4
  <2>7. QED
    BY <2>4, <2>5, <2>6 DEF v
<1>7. n \in Nat /\ n \in 0 .. n
  BY EdgeList
<1>8. WalksOf(es, FALSE, n)[n] \subseteq good
  <2> HIDE DEF good
  <2>1. QED
    BY <1>5, <1>6, <1>7, WalkInduction
<1>9. QED
  BY <1>8

LEMMA TakeNext ==
  ASSUME NEW es, NEW n, Graph(es, n), NEW s, NEW lv, NEW gone, gone + 1 \in 1 .. Len(s),
         Broad(s, lv, es, n, gone, Len(es))
  PROVE  Broad(s, lv, es, n, gone + 1, 0)
<1>1. /\ Levelled(s, lv, es, n) /\ gone \in 0 .. Len(s) /\ OneFurther(lv, gone)
      /\ LookedAt(s, lv, es, gone, Len(es)) /\ lv \in Seq(Nat) /\ Len(lv) = Len(s)
      /\ lv[1] = 0 /\ Len(s) \in Nat
      /\ \A x, y \in 1 .. Len(s) : x <= y => lv[x] <= lv[y]
  <2>1. n \in Nat
    BY EdgeList
  <2>2. \A l : l \in 1 .. n => l \in Nat
    BY <2>1
  <2>3. QED
    BY <2>2 DEF Broad, Levelled
<1>2. Len(es) \in Nat /\ DOMAIN es = 1 .. Len(es) /\ gone \in Nat
  BY <1>1, EdgeList
<1>3. \A x \in 1 .. Len(s) : lv[x] \in Nat
  BY <1>1, ElementOfSeq
<1>4. LookedAt(s, lv, es, gone + 1, 0)
  <2> SUFFICES ASSUME NEW x \in 1 .. Len(s), NEW z \in DOMAIN es, es[z].from = s[x],
                      x < gone + 1 \/ (x = gone + 1 /\ z <= 0)
               PROVE  Discovered(s, lv, es[z], x)
    BY DEF LookedAt
  <2>1. x < gone \/ (x = gone /\ z <= Len(es))
    BY <1>2
  <2>2. QED
    BY <1>1, <2>1 DEF LookedAt
<1>5. OneFurther(lv, gone + 1)
  <2>1. CASE gone = 0
    BY <1>1, <1>2, <1>3, <2>1 DEF OneFurther
  <2>2. CASE gone # 0
    <3>1. gone \in 1 .. Len(s) /\ gone <= gone + 1 /\ gone + 1 # 0
      BY <1>1, <1>2, <2>2
    <3>2. lv[gone] <= lv[gone + 1] /\ lv[gone] \in Nat /\ lv[gone + 1] \in Nat
      BY <1>1, <1>3, <3>1
    <3>3. \A x \in 1 .. Len(s) : lv[x] <= lv[gone] + 1
      BY <1>1, <2>2 DEF OneFurther
    <3>4. \A x \in 1 .. Len(s) : lv[x] <= lv[gone + 1] + 1
      BY <1>3, <3>2, <3>3
    <3>5. QED
      BY <1>1, <3>1, <3>4 DEF OneFurther
  <2>3. QED
    BY <2>1, <2>2
<1>6. QED
  BY <1>1, <1>2, <1>4, <1>5 DEF Broad

LEMMA LevelledParts ==
  ASSUME NEW es, NEW n, Graph(es, n), NEW s, NEW lv, NEW gone, NEW e,
         Broad(s, lv, es, n, gone, e)
  PROVE  /\ Len(s) \in 1 .. n /\ Len(s) \in Nat /\ n \in Nat /\ gone \in Nat /\ gone <= Len(s)
         /\ DOMAIN s = 1 .. Len(s) /\ Len(lv) = Len(s)
         /\ \A x \in 1 .. Len(s) : lv[x] \in Nat
<1>1. n \in Nat
  BY EdgeList
<1>2. s \in Seq(1 .. n) /\ lv \in Seq(Nat) /\ Len(lv) = Len(s) /\ Len(s) \in 1 .. n /\ gone \in 0 .. Len(s)
  BY DEF Broad, Levelled
<1>3. Len(s) \in Nat /\ gone \in Nat /\ gone <= Len(s)
  BY <1>1, <1>2
<1>4. DOMAIN s = 1 .. Len(s)
  BY <1>2, LenProperties
<1>5. \A x \in 1 .. Len(s) : lv[x] \in Nat
  BY <1>2, ElementOfSeq
<1>6. QED
  BY <1>1, <1>2, <1>3, <1>4, <1>5

\* An edge that leads to a node visited.
LEMMA EdgeKnown ==
  ASSUME NEW es, NEW n, Graph(es, n), NEW s, NEW lv, NEW gone, gone # 0, NEW e \in Nat,
         Broad(s, lv, es, n, gone, e), e + 1 \in DOMAIN es,
         es[e + 1].from = s[gone] => es[e + 1].to \in ToSet(s)
  PROVE  Broad(s, lv, es, n, gone, e + 1)
<1>1. /\ Levelled(s, lv, es, n) /\ gone \in 0 .. Len(s) /\ OneFurther(lv, gone)
      /\ LookedAt(s, lv, es, gone, e)
  BY DEF Broad
<1>2. /\ Len(s) \in Nat /\ gone \in 1 .. Len(s) /\ DOMAIN s = 1 .. Len(s) /\ Len(lv) = Len(s)
  BY LevelledParts
<1>3. \A x \in 1 .. Len(s) : lv[x] <= lv[gone] + 1
  BY <1>1, <1>2 DEF OneFurther
<1>4. es[e + 1].from = s[gone] => Discovered(s, lv, es[e + 1], gone)
  BY <1>2, <1>3 DEF Discovered, ToSet
<1>5. LookedAt(s, lv, es, gone, e + 1)
  <2> SUFFICES ASSUME NEW x \in 1 .. Len(s), NEW z \in DOMAIN es, es[z].from = s[x],
                      x < gone \/ (x = gone /\ z <= e + 1)
               PROVE  Discovered(s, lv, es[z], x)
    BY DEF LookedAt
  <2>1. z \in Nat
    BY EdgeList
  <2>2. CASE x = gone /\ z = e + 1
    BY <1>4, <2>2
  <2>3. CASE ~(x = gone /\ z = e + 1)
    <3>1. x < gone \/ (x = gone /\ z <= e)
      BY <2>1, <2>3
    <3>2. QED
      BY <1>1, <3>1 DEF LookedAt
  <2>4. QED
    BY <2>2, <2>3
<1>6. QED
  BY <1>1, <1>5 DEF Broad

\* An edge that leads to a new node.
LEMMA EdgeDiscovers ==
  ASSUME NEW es, NEW n, Graph(es, n), NEW s, NEW lv, NEW gone, gone # 0, NEW e \in Nat,
         Broad(s, lv, es, n, gone, e), e + 1 \in DOMAIN es,
         es[e + 1].from = s[gone], es[e + 1].to \notin ToSet(s)
  PROVE  Broad(Append(s, es[e + 1].to), Append(lv, lv[gone] + 1), es, n, gone, e + 1)
<1> DEFINE v == es[e + 1].to
           d == lv[gone] + 1
           l == Len(s)
           t == Append(s, v)
           lt == Append(lv, d)
           T == 1 .. n
           W == WalksOf(es, FALSE, n)
<1>1. /\ Distinct(s) /\ s \in Seq(T) /\ lv \in Seq(Nat) /\ s[1] = 1 /\ lv[1] = 0
      /\ \A x, y \in 1 .. l : x <= y => lv[x] <= lv[y]
      /\ \A x \in 1 .. l : [at |-> s[x], length |-> lv[x]] \in W[x - 1]
      /\ OneFurther(lv, gone) /\ LookedAt(s, lv, es, gone, e)
  BY DEF Broad, Levelled
<1>2. /\ l \in 1 .. n /\ l \in Nat /\ n \in Nat /\ gone \in 1 .. l /\ gone \in Nat /\ DOMAIN s = 1 .. l /\ Len(lv) = l
      /\ \A x \in 1 .. l : lv[x] \in Nat
  BY LevelledParts
<1>3. v \in T /\ v \notin ToSet(s) /\ d \in Nat
  BY <1>2, EdgeParts
<1>4. \A x \in 1 .. l : lv[x] <= d
  BY <1>1, <1>2 DEF OneFurther
<1> HIDE DEF T, W, v, d
<1>5. /\ t \in Seq(T) /\ Len(t) = l + 1 /\ t[l + 1] = v /\ \A x \in 1 .. l : t[x] = s[x]
      /\ lt \in Seq(Nat) /\ Len(lt) = l + 1 /\ lt[l + 1] = d /\ \A x \in 1 .. l : lt[x] = lv[x]
  BY <1>1, <1>2, <1>3, AppendOne
<1>6. Distinct(t)
  BY <1>1, <1>3, AppendDistinct
<1>7. l + 1 <= n
  BY <1>2, <1>5, <1>6, DistinctSize DEF T
<1> HIDE DEF t, lt, l
<1>8. \A x \in 1 .. (l + 1) : x \in 1 .. l \/ x = l + 1
  BY <1>2
<1>9. 1 \in 1 .. l /\ l + 1 \in 1 .. n /\ gone \in 1 .. (l + 1) /\ gone \in 0 .. (l + 1) /\ l + 1 \in 1 .. (l + 1)
  BY <1>2, <1>7
<1>10. \A x, y \in 1 .. (l + 1) : x <= y => lt[x] <= lt[y]
  <2> SUFFICES ASSUME NEW x \in 1 .. (l + 1), NEW y \in 1 .. (l + 1), x <= y
               PROVE  lt[x] <= lt[y]
    OBVIOUS
  <2>1. CASE y = l + 1
    BY <1>3, <1>4, <1>5, <1>8, <2>1
  <2>2. CASE y # l + 1
    <3>1. x \in 1 .. l /\ y \in 1 .. l
      BY <1>2, <2>2
    <3>2. QED
      BY <1>1, <1>5, <3>1
  <2>3. QED
    BY <2>1, <2>2
<1>11. [at |-> v, length |-> d] \in W[l]
  <2> DEFINE w == [at |-> s[gone], length |-> lv[gone]]
  <2>1. w \in W[gone - 1] /\ w.at = s[gone] /\ w.length = lv[gone]
    BY <1>1, <1>2
  <2>2. Longer(w, es[e + 1], FALSE) = [at |-> v, length |-> d]
    BY DEF Longer, v, d
  <2> HIDE DEF w
  <2>3. gone - 1 \in 0 .. (n - 1) /\ (gone - 1) + 1 = gone /\ gone \in 0 .. n /\ l \in gone .. n
    BY <1>2
  <2>4. Longer(w, es[e + 1], FALSE) \in W[(gone - 1) + 1]
    <3>1. es[e + 1].from = w.at /\ w \in WalksOf(es, FALSE, n)[gone - 1]
      BY <2>1 DEF W
    <3>2. QED
      BY <1>2, <2>3, <3>1, WalkOn DEF W
  <2>5. W[gone] \subseteq W[l]
    BY <1>2, <2>3, WalksGrow DEF W
  <2>6. QED
    BY <2>2, <2>3, <2>4, <2>5
<1>12. \A x \in 1 .. (l + 1) : [at |-> t[x], length |-> lt[x]] \in W[x - 1]
  <2> SUFFICES ASSUME NEW x \in 1 .. (l + 1)
               PROVE  [at |-> t[x], length |-> lt[x]] \in W[x - 1]
    OBVIOUS
  <2>1. CASE x \in 1 .. l
    BY <1>1, <1>5, <2>1
  <2>2. CASE x = l + 1
    <3>1. x - 1 = l
      BY <1>2, <2>2
    <3>2. QED
      BY <1>5, <1>11, <2>2, <3>1
  <2>3. QED
    BY <1>8, <2>1, <2>2
<1>13. Levelled(t, lt, es, n)
  BY <1>1, <1>5, <1>6, <1>9, <1>10, <1>12 DEF Levelled, T, W
<1>14. OneFurther(lt, gone)
  <2>1. gone # 0 /\ lt[gone] + 1 = d
    BY <1>2, <1>5 DEF d
  <2>2. \A x \in 1 .. (l + 1) : lt[x] <= d
    BY <1>3, <1>4, <1>5, <1>8
  <2>3. QED
    BY <1>5, <2>1, <2>2 DEF OneFurther
<1>15. LookedAt(t, lt, es, gone, e + 1)
  <2> SUFFICES ASSUME NEW x \in 1 .. (l + 1), NEW z \in DOMAIN es, es[z].from = t[x],
                      x < gone \/ (x = gone /\ z <= e + 1)
               PROVE  \E y \in 1 .. (l + 1) : t[y] = es[z].to /\ lt[y] <= lt[x] + 1
    BY <1>5 DEF LookedAt, Discovered
  <2>1. z \in Nat /\ x \in 1 .. l
    BY <1>2, EdgeList
  <2>2. t[x] = s[x] /\ lt[x] = lv[x]
    BY <1>5, <2>1
  <2>3. CASE x = gone /\ z = e + 1
    <3>1. t[l + 1] = es[z].to /\ lt[l + 1] = lt[x] + 1 /\ lt[l + 1] \in Nat
      BY <1>3, <1>5, <2>2, <2>3 DEF v, d
    <3>2. lt[l + 1] <= lt[x] + 1
      BY <3>1
    <3>3. QED
      BY <1>9, <3>1, <3>2
  <2>4. CASE ~(x = gone /\ z = e + 1)
    <3>1. x < gone \/ (x = gone /\ z <= e)
      BY <2>1, <2>4
    <3>2. PICK y \in 1 .. l : s[y] = es[z].to /\ lv[y] <= lv[x] + 1
      BY <1>1, <2>1, <2>2, <3>1 DEF LookedAt, Discovered, l
    <3>3. y \in 1 .. (l + 1)
      BY <1>2, <3>2
    <3>4. t[y] = s[y] /\ lt[y] = lv[y]
      BY <1>5, <3>2
    <3>5. QED
      BY <2>2, <3>2, <3>3, <3>4
  <2>5. QED
    BY <2>3, <2>4
<1>16. Broad(t, lt, es, n, gone, e + 1)
  BY <1>5, <1>9, <1>13, <1>14, <1>15 DEF Broad
<1>17. QED
  BY <1>16 DEF t, lt, v, d

\* BFS's queue is the end of the list of nodes visited: so many have been taken off.
TakenOff == Len(visited) - Len(frontier)

Queued(queue, s, gone) == gone \in Nat /\ \A x \in 1 .. Len(queue) : queue[x] = s[gone + x]

\* The inductive invariant of breadth-first search.
BfsInv ==
  algo = "bfs" /\ pc # "start" =>
    /\ Queued(frontier, visited, TakenOff)
    /\ pc = "edges" => TakenOff # 0 /\ current = visited[TakenOff]
    /\ pc = "done" => TakenOff = Len(visited)
    /\ \E levels : Broad(visited, levels, edges, nodes, TakenOff,
                         IF pc = "edges" THEN edge ELSE Len(edges))

LEMMA FirstLevel ==
  ASSUME NEW es, NEW n, Graph(es, n), NEW e
  PROVE  Broad(<<1>>, <<0>>, es, n, 0, e)
<1> DEFINE s == <<1>>
           lv == <<0>>
<1>1. n \in Nat /\ 1 \in 1 .. n
  BY EdgeList
<1>2. /\ Len(s) = 1 /\ s[1] = 1 /\ DOMAIN s = 1 .. 1 /\ Len(lv) = 1 /\ lv[1] = 0
      /\ s \in Seq(1 .. n) /\ lv \in Seq(Nat)
  BY <1>1
<1> HIDE DEF s, lv
<1>3. \A x \in 1 .. 1 : x = 1
  OBVIOUS
<1>4. Distinct(s)
  BY <1>2, <1>3 DEF Distinct
<1>5. \A x \in 1 .. 1 : [at |-> s[x], length |-> lv[x]] \in WalksOf(es, FALSE, n)[x - 1]
  <2>1. WalksOf(es, FALSE, n)[0] = {Origin}
    BY <1>1, WalksAreDefined
  <2>2. [at |-> s[1], length |-> lv[1]] = Origin /\ 1 - 1 = 0
    BY <1>2 DEF Origin
  <2>3. [at |-> s[1], length |-> lv[1]] \in WalksOf(es, FALSE, n)[1 - 1]
    BY <2>1, <2>2
  <2>4. QED
    BY <1>3, <2>3
<1>6. Levelled(s, lv, es, n)
  <2>1. \A x, y \in 1 .. 1 : x <= y => lv[x] <= lv[y]
    BY <1>2, <1>3
  <2>2. QED
    BY <1>1, <1>2, <1>4, <1>5, <2>1 DEF Levelled
<1>7. OneFurther(lv, 0)
  BY <1>2 DEF OneFurther
<1>8. LookedAt(s, lv, es, 0, e)
  <2>1. \A x \in 1 .. Len(s) : ~(x < 0) /\ x # 0
    BY <1>2
  <2>2. QED
    BY <2>1 DEF LookedAt
<1>9. Broad(s, lv, es, n, 0, e)
  BY <1>2, <1>6, <1>7, <1>8 DEF Broad
<1>10. QED
  BY <1>9 DEF s, lv

LEMMA BfsStarts ==
  ASSUME SearchTypes, StartSearch
  PROVE  BfsInv'
<1> SUFFICES ASSUME algo' = "bfs" PROVE BfsInv'
  BY DEF BfsInv
<1>1. /\ pc' = "search" /\ visited' = <<1>> /\ frontier' = <<1>> /\ UNCHANGED <<nodes, edges>>
  BY DEF StartSearch
<1>2. Graph(edges, nodes)
  BY DEF SearchTypes
<1>3. TakenOff' = 0
  BY <1>1 DEF TakenOff
<1>4. Queued(<<1>>, <<1>>, 0)
  BY DEF Queued
<1>5. Broad(<<1>>, <<0>>, edges, nodes, 0, Len(edges))
  BY <1>2, FirstLevel
<1>6. QED
  BY <1>1, <1>3, <1>4, <1>5 DEF BfsInv

LEMMA QueueParts ==
  ASSUME SearchTypes, BfsInv, algo = "bfs", pc # "start"
  PROVE  /\ TakenOff \in Nat /\ Len(visited) \in Nat /\ Len(frontier) \in Nat
         /\ TakenOff + Len(frontier) = Len(visited) /\ Graph(edges, nodes)
         /\ DOMAIN visited = 1 .. Len(visited)
<1>1. visited \in Seq(1 .. nodes) /\ frontier \in Seq(1 .. nodes)
  BY DEF SearchTypes
<1>2. Len(visited) \in Nat /\ Len(frontier) \in Nat /\ DOMAIN visited = 1 .. Len(visited)
  BY <1>1, LenProperties
<1>3. TakenOff \in Nat
  BY DEF BfsInv, Queued
<1>4. TakenOff + Len(frontier) = Len(visited)
  BY <1>2 DEF TakenOff
<1>5. QED
  BY <1>2, <1>3, <1>4 DEF SearchTypes

LEMMA BfsVisitKeeps ==
  ASSUME SearchTypes, BfsInv, BfsVisit
  PROVE  BfsInv'
<1> DEFINE gone == TakenOff
           q == frontier
           r == frontier'
<1>1. /\ algo = "bfs" /\ pc = "search" /\ q # <<>> /\ r = Tail(q) /\ current' = Head(q)
      /\ edge' = 0 /\ pc' = "edges" /\ UNCHANGED <<algo, nodes, edges, visited>>
  BY DEF BfsVisit
<1>2. /\ gone \in Nat /\ Len(visited) \in Nat /\ Len(q) \in Nat /\ gone + Len(q) = Len(visited)
      /\ Graph(edges, nodes)
  BY <1>1, QueueParts
<1>3. \A x \in 1 .. Len(q) : q[x] = visited[gone + x]
  BY <1>1 DEF BfsInv, Queued
<1>4. q \in Seq(1 .. nodes)
  BY DEF SearchTypes
<1>5. /\ Len(r) = Len(q) - 1 /\ Len(q) # 0 /\ \A x \in 1 .. Len(r) : r[x] = q[x + 1]
      /\ Head(q) = q[1]
  BY <1>1, <1>4, EmptySeq, HeadTailProperties
<1>6. TakenOff' = gone + 1
  BY <1>1, <1>2, <1>5 DEF TakenOff
<1>7. PICK levels : Broad(visited, levels, edges, nodes, gone, Len(edges))
  BY <1>1 DEF BfsInv
<1> HIDE DEF gone, q, r
<1>8. gone + 1 \in 1 .. Len(visited) /\ 1 \in 1 .. Len(q)
  BY <1>2, <1>5
<1>9. Broad(visited, levels, edges, nodes, gone + 1, 0)
  BY <1>2, <1>7, <1>8, TakeNext
<1>10. Head(q) = visited[gone + 1]
  BY <1>3, <1>5, <1>8
<1>11. Queued(r, visited, gone + 1)
  <2> SUFFICES ASSUME NEW x \in 1 .. Len(r) PROVE r[x] = visited[(gone + 1) + x]
    BY <1>2 DEF Queued
  <2>1. x + 1 \in 1 .. Len(q) /\ gone + (x + 1) = (gone + 1) + x
    BY <1>2, <1>5
  <2>2. QED
    BY <1>3, <1>5, <2>1
<1>12. gone + 1 # 0
  BY <1>2
<1>13. QED
  BY <1>1, <1>6, <1>9, <1>10, <1>11, <1>12 DEF BfsInv, r

LEMMA BfsEdgeKeeps ==
  ASSUME SearchTypes, BfsInv, BfsEdge
  PROVE  BfsInv'
<1> DEFINE gone == TakenOff
           v == edges[edge + 1].to
<1>1. /\ algo = "bfs" /\ pc = "edges" /\ edge' = edge + 1 /\ edge < Len(edges)
      /\ UNCHANGED <<algo, pc, nodes, edges, current>>
  BY DEF BfsEdge
<1>2. /\ gone \in Nat /\ Len(visited) \in Nat /\ Len(frontier) \in Nat /\ gone + Len(frontier) = Len(visited)
      /\ Graph(edges, nodes)
  BY <1>1, QueueParts
<1>3. /\ visited \in Seq(1 .. nodes) /\ frontier \in Seq(1 .. nodes)
      /\ edge \in Nat /\ edge + 1 \in DOMAIN edges
  <2>1. Len(edges) \in Nat /\ DOMAIN edges = 1 .. Len(edges)
    BY <1>2, EdgeList
  <2>2. QED
    BY <1>1, <2>1 DEF SearchTypes
<1>4. v \in 1 .. nodes
  BY <1>2, <1>3, EdgeParts
<1>5. Queued(frontier, visited, gone) /\ gone # 0 /\ current = visited[gone]
  BY <1>1 DEF BfsInv
<1>6. PICK levels : Broad(visited, levels, edges, nodes, gone, edge)
  BY <1>1 DEF BfsInv
<1>7. \A n : Contains(visited, n) <=> n \in ToSet(visited)
  BY <1>3, ContainsIsIn
<1> HIDE DEF gone
<1>8. CASE edges[edge + 1].from = current /\ v \notin ToSet(visited)
  <2> DEFINE s == Append(visited, v)
             q == Append(frontier, v)
             T == 1 .. nodes
  <2>1. visited' = s /\ frontier' = q
    BY <1>7, <1>8 DEF BfsEdge, At
  <2>2. Broad(s, Append(levels, levels[gone] + 1), edges, nodes, gone, edge + 1)
    BY <1>2, <1>3, <1>5, <1>6, <1>8, EdgeDiscovers
  <2>3. visited \in Seq(T) /\ frontier \in Seq(T) /\ v \in T
    BY <1>3, <1>4
  <2> HIDE DEF T, v
  <2>4. /\ Len(s) = Len(visited) + 1 /\ s[Len(visited) + 1] = v
        /\ \A x \in 1 .. Len(visited) : s[x] = visited[x]
        /\ Len(q) = Len(frontier) + 1 /\ q[Len(frontier) + 1] = v
        /\ \A x \in 1 .. Len(frontier) : q[x] = frontier[x]
    BY <2>3, AppendOne
  <2> HIDE DEF s, q
  <2>5. TakenOff' = gone
    BY <1>2, <2>1, <2>4 DEF TakenOff
  <2>6. Queued(q, s, gone)
    <3> SUFFICES ASSUME NEW x \in 1 .. Len(q) PROVE q[x] = s[gone + x]
      BY <1>2 DEF Queued
    <3>1. CASE x = Len(frontier) + 1
      <4>1. gone + x = Len(visited) + 1
        BY <1>2, <3>1
      <4>2. QED
        BY <2>4, <3>1, <4>1
    <3>2. CASE x # Len(frontier) + 1
      <4>1. x \in 1 .. Len(frontier) /\ gone + x \in 1 .. Len(visited)
        BY <1>2, <2>4, <3>2
      <4>2. QED
        BY <1>5, <2>4, <4>1 DEF Queued
    <3>3. QED
      BY <3>1, <3>2
  <2>7. s[gone] = visited[gone]
    <3>1. gone \in 1 .. Len(visited)
      BY <1>2, <1>5
    <3>2. QED
      BY <2>4, <3>1
  <2>8. QED
    BY <1>1, <1>5, <2>1, <2>2, <2>5, <2>6, <2>7 DEF BfsInv
<1>9. CASE ~(edges[edge + 1].from = current /\ v \notin ToSet(visited))
  <2>1. visited' = visited /\ frontier' = frontier
    BY <1>7, <1>9 DEF BfsEdge, At
  <2>2. TakenOff' = gone
    BY <2>1 DEF TakenOff, gone
  <2>3. Broad(visited, levels, edges, nodes, gone, edge + 1)
    BY <1>2, <1>3, <1>5, <1>6, <1>9, EdgeKnown
  <2>4. QED
    BY <1>1, <1>5, <2>1, <2>2, <2>3 DEF BfsInv
<1>10. QED
  BY <1>8, <1>9

LEMMA BfsEndsKeep ==
  ASSUME SearchTypes, BfsInv, EdgesDone \/ SearchDone
  PROVE  BfsInv'
<1> SUFFICES ASSUME algo' = "bfs" PROVE BfsInv'
  BY DEF BfsInv
<1>1. algo = "bfs" /\ UNCHANGED search /\ pc \in {"edges", "search"} /\ pc' \in {"search", "done"}
  BY DEF EdgesDone, SearchDone
<1>2. UNCHANGED <<nodes, edges, visited, frontier, current, edge>>
  BY <1>1 DEF search
<1>3. pc = "edges" => edge = Len(edges)
  BY <1>1 DEF EdgesDone, SearchDone
<1>4. TakenOff' = TakenOff
  BY <1>2 DEF TakenOff
<1>5. pc' = "done" => TakenOff = Len(visited)
  <2> SUFFICES ASSUME pc' = "done" PROVE TakenOff = Len(visited)
    OBVIOUS
  <2>1. frontier = <<>> /\ Len(visited) \in Nat
    BY <1>1, QueueParts DEF EdgesDone, SearchDone
  <2>2. QED
    BY <2>1, EmptySeq DEF TakenOff
<1>6. QED
  BY <1>1, <1>2, <1>3, <1>4, <1>5 DEF BfsInv

LEMMA BfsProperty ==
  ASSUME SearchTypes, BfsInv, algo = "bfs"
  PROVE  /\ \A x, y \in DOMAIN visited : x <= y =>
              LET to(z) == {w \in Walks : w.at = visited[z]}
              IN \A w \in to(y) : \E sooner \in to(x) : sooner.length <= w.length
         /\ pc = "done" => ToSet(visited) = Reachable
<1>1. CASE pc = "start"
  <2>1. visited = <<>>
    BY <1>1 DEF SearchTypes
  <2>2. DOMAIN visited = {}
    BY <2>1
  <2>3. QED
    BY <1>1, <2>2
<1>2. CASE pc # "start"
  <2> DEFINE W == WalksOf(edges, FALSE, nodes)
             s == visited
             l == Len(visited)
             e == IF pc = "edges" THEN edge ELSE Len(edges)
  <2>1. PICK levels : Broad(s, levels, edges, nodes, TakenOff, e)
    BY <1>2 DEF BfsInv
  <2>2. Graph(edges, nodes) /\ nodes \in Nat /\ DOMAIN edges = 1 .. Len(edges) /\ Len(edges) \in Nat
    BY EdgeList DEF SearchTypes
  <2>3. /\ l \in Nat /\ l \in 1 .. nodes /\ DOMAIN s = 1 .. l
        /\ \A x \in 1 .. l : levels[x] \in Nat
    BY <2>1, <2>2, LevelledParts
  <2>4. /\ \A x, y \in 1 .. l : x <= y => levels[x] <= levels[y]
        /\ \A x \in 1 .. l : [at |-> s[x], length |-> levels[x]] \in W[x - 1]
        /\ s[1] = 1 /\ LookedAt(s, levels, edges, TakenOff, e)
    BY <2>1 DEF Broad, Levelled
  <2>5. Walks = W[nodes]
    <3>1. (algo = "dijkstra") = FALSE
      OBVIOUS
    <3>2. QED
      BY <3>1 DEF Walks
  <2> HIDE DEF s, l, e
  <2>6. \A x \in 1 .. l : [at |-> s[x], length |-> levels[x]] \in Walks
    <3> SUFFICES ASSUME NEW x \in 1 .. l PROVE [at |-> s[x], length |-> levels[x]] \in Walks
      OBVIOUS
    <3>1. x - 1 \in 0 .. nodes /\ nodes \in (x - 1) .. nodes
      BY <2>2, <2>3
    <3>2. W[x - 1] \subseteq W[nodes]
      BY <2>2, <3>1, WalksGrow
    <3>3. QED
      BY <2>4, <2>5, <3>2
  <2>7. \A w \in Walks : \A x \in 1 .. l : s[x] = w.at => levels[x] <= w.length
    BY <2>1, <2>2, <2>5, LevelsAreShortest DEF l, s
  <2>8. \A w \in Walks : w.length \in Nat
    <3>1. nodes \in 0 .. nodes
      BY <2>2
    <3>2. W[nodes] \subseteq WalkSet(nodes)
      BY <2>2, <3>1, WalkTypes
    <3>3. QED
      BY <2>5, <3>2 DEF WalkSet
  <2>9. ASSUME NEW x \in 1 .. l, NEW y \in 1 .. l, x <= y, NEW w \in Walks, w.at = s[y]
        PROVE  \E sooner \in Walks : sooner.at = s[x] /\ sooner.length <= w.length
    <3> DEFINE sooner == [at |-> s[x], length |-> levels[x]]
    <3>1. sooner \in Walks /\ sooner.at = s[x] /\ sooner.length = levels[x]
      BY <2>6
    <3>2. levels[x] <= levels[y] /\ levels[y] <= w.length
      BY <2>4, <2>7, <2>9
    <3>3. levels[x] <= w.length
      BY <2>3, <2>8, <3>2
    <3>4. QED
      BY <3>1, <3>3
  <2>10. ASSUME pc = "done" PROVE ToSet(s) = Reachable
    <3>1. TakenOff = l /\ e = Len(edges)
      BY <1>2, <2>10 DEF BfsInv, l, e
    <3>2. ToSet(s) = {s[x] : x \in 1 .. l}
      BY <2>3 DEF ToSet
    <3>3. ASSUME NEW z \in DOMAIN edges, edges[z].from \in ToSet(s) PROVE edges[z].to \in ToSet(s)
      <4>1. PICK x \in 1 .. l : edges[z].from = s[x]
        BY <3>2, <3>3
      <4>2. x < l \/ (x = l /\ z <= Len(edges))
        BY <2>2, <2>3
      <4>3. Discovered(s, levels, edges[z], x)
        BY <2>4, <3>1, <4>1, <4>2 DEF LookedAt, l, s
      <4>4. QED
        BY <3>2, <4>3 DEF Discovered, l, s
    <3>4. 1 \in ToSet(s)
      BY <2>3, <2>4, <3>2
    <3>5. \A w \in W[nodes] : w.at \in ToSet(s)
      <4> DEFINE seen == ToSet(s)
      <4>1. 1 \in seen /\ \A z \in DOMAIN edges : edges[z].from \in seen => edges[z].to \in seen
        BY <3>3, <3>4
      <4> HIDE DEF seen
      <4>2. \A w \in W[nodes] : w.at \in seen
        BY <2>2, <4>1, ClosedIsAll
      <4>3. QED
        BY <4>2 DEF seen
    <3>6. ASSUME NEW x \in 1 .. l PROVE s[x] \in Reachable
      <4> DEFINE w == [at |-> s[x], length |-> levels[x]]
      <4>1. w \in Walks /\ w.at = s[x]
        BY <2>6
      <4>2. QED
        BY <4>1 DEF Reachable
    <3>7. QED
      BY <2>5, <3>2, <3>5, <3>6 DEF Reachable
  <2>11. QED
    BY <2>3, <2>9, <2>10 DEF s
<1>3. QED
  BY <1>1, <1>2

(***************************************************************************)
(* Depth-first search. The strengthening says of each entry of the stack   *)
(* which node visited pushed it, and for which edge: they are in the order *)
(* in which a recursive search would come to those edges, from the top.    *)
(***************************************************************************)

\* Entries pushed for nodes visited earlier are further down, and of one node's those
\* for edges listed later.
AboveOnStack(u, t) == t.by < u.by \/ (t.by = u.by /\ u.via < t.via)

\* The stack, with the edges after the first e looked at for the node visited last:
\* every edge of a node visited that leads to one not visited has its entry.
Stacked(stack, pushed, s, es, e) ==
  /\ pushed \in Seq([by : Nat, via : Nat]) /\ Len(pushed) = Len(stack)
  /\ \A t \in 1 .. Len(stack) :
       /\ pushed[t].by \in 1 .. Len(s) /\ pushed[t].via \in DOMAIN es
       /\ es[pushed[t].via].from = s[pushed[t].by] /\ es[pushed[t].via].to = stack[t]
       /\ pushed[t].by = Len(s) => pushed[t].via > e
  /\ \A t, u \in 1 .. Len(stack) : t < u => AboveOnStack(pushed[u], pushed[t])
  /\ \A y \in 1 .. Len(s) : \A x \in DOMAIN es :
       es[x].from = s[y] /\ es[x].to \notin ToSet(s) /\ (y = Len(s) => x > e) =>
         \E t \in 1 .. Len(stack) : pushed[t] = [by |-> y, via |-> x]

\* The nodes are led to by walks of less edges than there are nodes up to them.
Led(s, es, n) ==
  \A x \in 1 .. Len(s) : \E w \in WalksOf(es, FALSE, n)[x - 1] : w.at = s[x]

DfsInv ==
  algo = "dfs" /\ pc # "start" =>
    /\ DepthFirst(edges, visited) /\ Led(visited, edges, nodes)
    /\ visited = <<>> => frontier = <<1>> /\ pc = "search"
    /\ visited # <<>> =>
         \E pushed : Stacked(frontier, pushed, visited, edges, IF pc = "edges" THEN edge ELSE 0)
    /\ pc = "edges" => current = visited[Len(visited)]
    /\ pc = "done" => frontier = <<>>

\* The first values of a sequence are not changed by one appended to it.
LEMMA FirstOfAppended ==
  ASSUME NEW T, NEW s \in Seq(T), NEW v \in T, NEW m \in 0 .. Len(s)
  PROVE  SubSeq(Append(s, v), 1, m) = SubSeq(s, 1, m)
<1> DEFINE u == Append(s, v)
           a == SubSeq(u, 1, m)
           b == SubSeq(s, 1, m)
<1>1. /\ Len(s) \in Nat /\ \A x \in 1 .. Len(s) : u[x] = s[x] /\ s[x] \in T
  BY AppendOne
<1>2. m \in Nat /\ (IF 1 <= m THEN m - 1 + 1 ELSE 0) = m /\ \A x \in 1 .. m : x \in 1 .. Len(s) /\ 1 + x - 1 = x
  BY <1>1
<1> HIDE DEF u
<1>3. a \in Seq(T) /\ Len(a) = m /\ \A x \in 1 .. m : a[x] = u[x]
  BY <1>1, <1>2, SubSeqProperties
<1>4. b \in Seq(T) /\ Len(b) = m /\ \A x \in 1 .. m : b[x] = s[x]
  BY <1>1, <1>2, SubSeqProperties
<1>5. \A x \in 1 .. m : a[x] = b[x]
  BY <1>1, <1>2, <1>3, <1>4
<1>6. a \in [1 .. m -> T] /\ b \in [1 .. m -> T]
  BY <1>3, <1>4, LenProperties
<1> HIDE DEF a, b
<1>7. a = b
  BY <1>5, <1>6
<1>8. QED
  BY <1>7 DEF a, b, u

LEMMA WholeSubSeq ==
  ASSUME NEW T, NEW s \in Seq(T)
  PROVE  SubSeq(s, 1, Len(s)) = s
<1> DEFINE m == Len(s)
           b == SubSeq(s, 1, m)
<1>1. m \in Nat /\ s \in [1 .. m -> T] /\ \A x \in 1 .. m : s[x] \in T
  BY LenProperties, ElementOfSeq
<1>2. m \in Int /\ (IF 1 <= m THEN m - 1 + 1 ELSE 0) = m /\ \A x \in 1 .. m : 1 + x - 1 = x
  BY <1>1
<1> HIDE DEF m
<1>3. b \in Seq(T) /\ Len(b) = m /\ \A x \in 1 .. m : b[x] = s[x]
  BY <1>1, <1>2, SubSeqProperties
<1>4. b \in [1 .. m -> T]
  BY <1>3, LenProperties
<1> HIDE DEF b
<1>5. b = s
  BY <1>1, <1>3, <1>4
<1>6. QED
  BY <1>5 DEF b, m

\* An order is depth first if it is up to its end, and goes on depth first.
LEMMA OrderGoesOn ==
  ASSUME NEW es, NEW T, NEW s \in Seq(T), NEW v \in T, Len(s) # 0,
         DepthFirst(es, s), GoesOnTo(es, s, v)
  PROVE  DepthFirst(es, Append(s, v))
<1> DEFINE l == Len(s)
           u == Append(s, v)
<1>1. /\ l \in Nat /\ l # 0 /\ u \in Seq(T) /\ DOMAIN s = 1 .. l /\ DOMAIN u = 1 .. (l + 1)
      /\ \A x \in 1 .. l : u[x] = s[x]
      /\ u[l + 1] = v
  BY AppendOne
<1>2. \A m \in 0 .. l : SubSeq(u, 1, m) = SubSeq(s, 1, m)
  BY FirstOfAppended
<1>3. SubSeq(s, 1, l) = s
  BY WholeSubSeq
<1> HIDE DEF l, u
<1>4. ASSUME NEW z \in 1 .. (l + 1)
      PROVE  IF z = 1 THEN u[z] = 1 ELSE GoesOnTo(es, SubSeq(u, 1, z - 1), u[z])
  <2>1. CASE z = l + 1
    <3>1. z - 1 = l /\ z # 1 /\ l \in 0 .. l
      BY <1>1, <2>1
    <3>2. SubSeq(u, 1, z - 1) = s
      BY <1>2, <1>3, <3>1
    <3>3. QED
      BY <1>1, <2>1, <3>1, <3>2
  <2>2. CASE z # l + 1
    <3>1. z \in 1 .. l /\ z - 1 \in 0 .. l
      BY <1>1, <2>2
    <3>2. u[z] = s[z] /\ SubSeq(u, 1, z - 1) = SubSeq(s, 1, z - 1)
      BY <1>1, <1>2, <3>1
    <3>3. IF z = 1 THEN s[z] = 1 ELSE GoesOnTo(es, SubSeq(s, 1, z - 1), s[z])
      BY <1>1, <3>1 DEF DepthFirst
    <3>4. QED
      BY <3>2, <3>3
  <2>3. QED
    BY <2>1, <2>2
<1>5. DepthFirst(es, u)
  BY <1>1, <1>4 DEF DepthFirst
<1>6. QED
  BY <1>5 DEF u

LEMMA StackParts ==
  ASSUME NEW stack, NEW pushed, NEW s, NEW es, NEW e, Stacked(stack, pushed, s, es, e)
  PROVE  /\ Len(pushed) = Len(stack) /\ Len(stack) \in Nat
         /\ \A t \in 1 .. Len(stack) : pushed[t] \in [by : Nat, via : Nat]
         /\ \A t \in 1 .. Len(stack) : pushed[t].by \in Nat /\ pushed[t].via \in Nat
<1>1. pushed \in Seq([by : Nat, via : Nat]) /\ Len(pushed) = Len(stack)
  BY DEF Stacked
<1>2. \A t \in 1 .. Len(stack) : pushed[t] \in [by : Nat, via : Nat]
  BY <1>1, ElementOfSeq
<1>3. Len(stack) \in Nat
  BY <1>1, LenProperties
<1>4. QED
  BY <1>1, <1>2, <1>3

\* The top of the stack is where a depth-first search goes on.
LEMMA TopGoesOn ==
  ASSUME NEW es, Len(es) \in Nat, DOMAIN es = 1 .. Len(es),
         NEW T, NEW s \in Seq(T), NEW stack, NEW pushed, Stacked(stack, pushed, s, es, 0),
         NEW top \in 1 .. Len(stack), top = Len(stack), stack[top] \notin ToSet(s)
  PROVE  GoesOnTo(es, s, stack[top])
<1> DEFINE y == pushed[top].by
           x == pushed[top].via
           v == stack[top]
<1>1. /\ Len(stack) \in Nat
      /\ \A t \in 1 .. Len(stack) : pushed[t].by \in Nat /\ pushed[t].via \in Nat
  BY StackParts
<1>2. y \in 1 .. Len(s) /\ x \in DOMAIN es /\ es[x].from = s[y] /\ es[x].to = v
  BY DEF Stacked
<1>3. Len(s) \in Nat /\ DOMAIN s = 1 .. Len(s) /\ \A n : Contains(s, n) <=> n \in ToSet(s)
  BY LenProperties, ContainsIsIn
<1>4. ASSUME NEW o \in 1 .. Len(s), NEW z \in OpenEdges(es, s, s[o])
      PROVE  \E t \in 1 .. Len(stack) : pushed[t].by = o /\ pushed[t].via = z
  <2>1. z \in DOMAIN es /\ es[z].from = s[o] /\ es[z].to \notin ToSet(s) /\ z > 0
    BY <1>3 DEF OpenEdges
  <2>2. PICK t \in 1 .. Len(stack) : pushed[t] = [by |-> o, via |-> z]
    BY <2>1 DEF Stacked
  <2>3. QED
    BY <2>2
<1>5. ASSUME NEW t \in 1 .. Len(stack), t # top PROVE AboveOnStack(pushed[top], pushed[t])
  <2>1. t < top
    BY <1>1, <1>5
  <2>2. QED
    BY <2>1 DEF Stacked
<1>6. x \in OpenEdges(es, s, s[y])
  BY <1>2, <1>3 DEF OpenEdges
<1>7. ASSUME NEW o \in OpenEdges(es, s, s[y]) PROVE x <= o
  <2>1. PICK t \in 1 .. Len(stack) : pushed[t].by = y /\ pushed[t].via = o
    BY <1>2, <1>4
  <2>2. CASE t = top
    BY <1>1, <2>1, <2>2
  <2>3. CASE t # top
    <3>1. AboveOnStack(pushed[top], pushed[t]) /\ y \in Nat /\ o \in Nat /\ x \in Nat
      BY <1>1, <1>5, <2>1, <2>3
    <3>2. QED
      BY <2>1, <3>1 DEF AboveOnStack
  <2>4. QED
    BY <2>2, <2>3
<1>8. ASSUME NEW o \in 1 .. Len(s), o > y PROVE OpenEdges(es, s, s[o]) = {}
  <2> SUFFICES ASSUME NEW z \in OpenEdges(es, s, s[o]) PROVE FALSE
    OBVIOUS
  <2>1. PICK t \in 1 .. Len(stack) : pushed[t].by = o /\ pushed[t].via = z
    BY <1>4
  <2>2. t # top /\ y \in Nat /\ o \in Nat
    BY <1>1, <1>8, <2>1
  <2>3. AboveOnStack(pushed[top], pushed[t])
    BY <1>5, <2>2
  <2>4. QED
    BY <1>8, <2>1, <2>2, <2>3 DEF AboveOnStack
<1> HIDE DEF x, y, v
<1>9. GoesOnTo(es, s, v)
  BY <1>2, <1>3, <1>6, <1>7, <1>8 DEF GoesOnTo
<1>10. QED
  BY <1>9 DEF v

LEMMA FrontEntries ==
  ASSUME NEW T, NEW stack \in Seq(T), stack # <<>>,
         NEW pushed, NEW s, NEW es, NEW e, Stacked(stack, pushed, s, es, e)
  PROVE  /\ Len(stack) \in Nat \ {0} /\ Len(Front(stack)) = Len(stack) - 1
         /\ Front(pushed) \in Seq([by : Nat, via : Nat]) /\ Len(Front(pushed)) = Len(stack) - 1
         /\ \A t \in 1 .. (Len(stack) - 1) :
              Front(stack)[t] = stack[t] /\ Front(pushed)[t] = pushed[t]
<1>1. Len(stack) \in Nat \ {0} /\ Len(Front(stack)) = Len(stack) - 1
      /\ \A t \in 1 .. (Len(stack) - 1) : Front(stack)[t] = stack[t]
  BY FrontParts
<1>2. pushed \in Seq([by : Nat, via : Nat]) /\ Len(pushed) = Len(stack)
  BY DEF Stacked
<1> DEFINE R == [by : Nat, via : Nat]
<1>3. pushed \in Seq(R) /\ pushed # <<>>
  BY <1>1, <1>2, EmptySeq
<1> HIDE DEF R
<1>4. Front(pushed) \in Seq(R) /\ Len(Front(pushed)) = Len(pushed) - 1
      /\ \A t \in 1 .. (Len(pushed) - 1) : Front(pushed)[t] = pushed[t]
  BY <1>3, FrontParts
<1>5. QED
  BY <1>1, <1>2, <1>4 DEF R

\* A node that was visited since is taken off the stack, and skipped.
LEMMA PopSkips ==
  ASSUME NEW T, NEW stack \in Seq(T), stack # <<>>,
         NEW pushed, NEW s, NEW es, Stacked(stack, pushed, s, es, 0),
         stack[Len(stack)] \in ToSet(s)
  PROVE  Stacked(Front(stack), Front(pushed), s, es, 0)
<1> DEFINE l == Len(stack)
           f == Front(stack)
           p == Front(pushed)
<1>1. /\ l \in Nat \ {0} /\ Len(f) = l - 1
      /\ p \in Seq([by : Nat, via : Nat]) /\ Len(p) = l - 1
      /\ \A t \in 1 .. (l - 1) : f[t] = stack[t] /\ p[t] = pushed[t]
  BY FrontEntries
<1>2. /\ \A t \in 1 .. l :
           /\ pushed[t].by \in 1 .. Len(s) /\ pushed[t].via \in DOMAIN es
           /\ es[pushed[t].via].from = s[pushed[t].by] /\ es[pushed[t].via].to = stack[t]
           /\ pushed[t].by = Len(s) => pushed[t].via > 0
      /\ \A t, u \in 1 .. l : t < u => AboveOnStack(pushed[u], pushed[t])
      /\ \A y \in 1 .. Len(s) : \A x \in DOMAIN es :
           es[x].from = s[y] /\ es[x].to \notin ToSet(s) /\ (y = Len(s) => x > 0) =>
             \E t \in 1 .. l : pushed[t] = [by |-> y, via |-> x]
  BY DEF Stacked
<1> HIDE DEF l, f, p
<1>3. \A t \in 1 .. (l - 1) : t \in 1 .. l
  BY <1>1
<1>4. \A t \in 1 .. l : t \in 1 .. (l - 1) \/ t = l
  BY <1>1
<1>5. \A t \in 1 .. (l - 1) :
        /\ p[t].by \in 1 .. Len(s) /\ p[t].via \in DOMAIN es
        /\ es[p[t].via].from = s[p[t].by] /\ es[p[t].via].to = f[t]
        /\ p[t].by = Len(s) => p[t].via > 0
  BY <1>1, <1>2, <1>3
<1>6. \A t, u \in 1 .. (l - 1) : t < u => AboveOnStack(p[u], p[t])
  BY <1>1, <1>2, <1>3
<1>7. ASSUME NEW y \in 1 .. Len(s), NEW x \in DOMAIN es,
             es[x].from = s[y], es[x].to \notin ToSet(s), y = Len(s) => x > 0
      PROVE  \E t \in 1 .. (l - 1) : p[t] = [by |-> y, via |-> x]
  <2>1. PICK t \in 1 .. l : pushed[t] = [by |-> y, via |-> x]
    BY <1>2, <1>7
  <2>2. es[x].to = stack[t]
    BY <1>2, <2>1
  <2>3. t # l
    BY <1>7, <2>2 DEF l
  <2>4. QED
    BY <1>1, <1>4, <2>1, <2>3
<1>8. Stacked(f, p, s, es, 0)
  BY <1>1, <1>5, <1>6, <1>7 DEF Stacked
<1>9. QED
  BY <1>8 DEF f, p

\* A node that is visited is taken off the stack; its own edges come next.
LEMMA PopVisits ==
  ASSUME NEW es, Len(es) \in Nat, DOMAIN es = 1 .. Len(es),
         NEW T, NEW stack \in Seq(T), stack # <<>>, NEW s \in Seq(T), NEW v \in T,
         NEW pushed, Stacked(stack, pushed, s, es, 0),
         v = stack[Len(stack)], v \notin ToSet(s)
  PROVE  Stacked(Front(stack), Front(pushed), Append(s, v), es, Len(es))
<1> DEFINE l == Len(stack)
           f == Front(stack)
           p == Front(pushed)
           m == Len(s)
           u == Append(s, v)
<1>1. /\ l \in Nat \ {0} /\ Len(f) = l - 1
      /\ p \in Seq([by : Nat, via : Nat]) /\ Len(p) = l - 1
      /\ \A t \in 1 .. (l - 1) : f[t] = stack[t] /\ p[t] = pushed[t]
  BY FrontEntries
<1>2. /\ \A t \in 1 .. l :
           /\ pushed[t].by \in 1 .. m /\ pushed[t].via \in DOMAIN es
           /\ es[pushed[t].via].from = s[pushed[t].by] /\ es[pushed[t].via].to = stack[t]
      /\ \A t, o \in 1 .. l : t < o => AboveOnStack(pushed[o], pushed[t])
      /\ \A y \in 1 .. m : \A x \in DOMAIN es :
           es[x].from = s[y] /\ es[x].to \notin ToSet(s) /\ (y = m => x > 0) =>
             \E t \in 1 .. l : pushed[t] = [by |-> y, via |-> x]
  BY DEF Stacked
<1>3. m \in Nat /\ Len(u) = m + 1 /\ \A x \in 1 .. m : u[x] = s[x]
  BY AppendOne
<1>4. ToSet(u) = ToSet(s) \cup {v}
  BY AppendToSet
<1> HIDE DEF l, f, p, m, u
<1>5. \A t \in 1 .. (l - 1) : t \in 1 .. l
  BY <1>1
<1>6. \A t \in 1 .. l : t \in 1 .. (l - 1) \/ t = l
  BY <1>1
<1>7. \A b \in 1 .. m : b \in 1 .. (m + 1) /\ b # m + 1
  BY <1>3
<1>8. \A t \in 1 .. (l - 1) :
        /\ p[t].by \in 1 .. (m + 1) /\ p[t].via \in DOMAIN es
        /\ es[p[t].via].from = u[p[t].by] /\ es[p[t].via].to = f[t]
        /\ p[t].by # m + 1
  <2> SUFFICES ASSUME NEW t \in 1 .. (l - 1)
               PROVE  /\ pushed[t].by \in 1 .. (m + 1) /\ pushed[t].by # m + 1
                      /\ es[pushed[t].via].from = u[pushed[t].by]
                      /\ es[pushed[t].via].to = stack[t] /\ pushed[t].via \in DOMAIN es
    BY <1>1
  <2>1. t \in 1 .. l
    BY <1>5
  <2>2. QED
    BY <1>2, <1>3, <1>7, <2>1
<1>9. \A t, o \in 1 .. (l - 1) : t < o => AboveOnStack(p[o], p[t])
  BY <1>1, <1>2, <1>5
<1>10. ASSUME NEW y \in 1 .. (m + 1), NEW x \in DOMAIN es,
              es[x].from = u[y], es[x].to \notin ToSet(u), y = m + 1 => x > Len(es)
       PROVE  \E t \in 1 .. (l - 1) : p[t] = [by |-> y, via |-> x]
  <2>1. x \in 1 .. Len(es) /\ x > 0 /\ ~(x > Len(es))
    OBVIOUS
  <2>2. y \in 1 .. m
    BY <1>3, <1>10, <2>1
  <2>3. es[x].from = s[y] /\ es[x].to \notin ToSet(s) /\ es[x].to # v
    BY <1>3, <1>4, <1>10, <2>2
  <2>4. PICK t \in 1 .. l : pushed[t] = [by |-> y, via |-> x]
    BY <1>2, <2>1, <2>2, <2>3
  <2>5. es[x].to = stack[t]
    BY <1>2, <2>4
  <2>6. t # l
    BY <2>3, <2>5 DEF l
  <2>7. QED
    BY <1>1, <1>6, <2>4, <2>6
<1>11. Stacked(f, p, u, es, Len(es))
  BY <1>1, <1>3, <1>8, <1>9, <1>10 DEF Stacked
<1>12. QED
  BY <1>11 DEF f, p, u

\* An edge of the node visited last that is not pushed leads to a node visited.
LEMMA EdgeSkipped ==
  ASSUME NEW es, Len(es) \in Nat, DOMAIN es = 1 .. Len(es), NEW e \in DOMAIN es,
         NEW stack, NEW pushed, NEW s, Stacked(stack, pushed, s, es, e), Len(s) # 0,
         es[e].from = s[Len(s)] => es[e].to \in ToSet(s)
  PROVE  Stacked(stack, pushed, s, es, e - 1)
<1> DEFINE l == Len(stack)
           m == Len(s)
<1>1. /\ pushed \in Seq([by : Nat, via : Nat]) /\ Len(pushed) = l
      /\ \A t \in 1 .. l :
           /\ pushed[t].by \in 1 .. m /\ pushed[t].via \in DOMAIN es
           /\ es[pushed[t].via].from = s[pushed[t].by] /\ es[pushed[t].via].to = stack[t]
           /\ pushed[t].by = m => pushed[t].via > e
      /\ \A t, o \in 1 .. l : t < o => AboveOnStack(pushed[o], pushed[t])
      /\ \A y \in 1 .. m : \A x \in DOMAIN es :
           es[x].from = s[y] /\ es[x].to \notin ToSet(s) /\ (y = m => x > e) =>
             \E t \in 1 .. l : pushed[t] = [by |-> y, via |-> x]
  BY DEF Stacked
<1> HIDE DEF l, m
<1>2. \A x \in DOMAIN es : (x > e => x > e - 1) /\ (x > e - 1 => x > e \/ x = e)
  OBVIOUS
<1>3. \A t \in 1 .. l : pushed[t].by = m => pushed[t].via > e - 1
  BY <1>1, <1>2
<1>4. ASSUME NEW y \in 1 .. m, NEW x \in DOMAIN es,
             es[x].from = s[y], es[x].to \notin ToSet(s), y = m => x > e - 1
      PROVE  \E t \in 1 .. l : pushed[t] = [by |-> y, via |-> x]
  <2>1. ~(y = m /\ x = e)
    BY <1>4 DEF m
  <2>2. y = m => x > e
    BY <1>2, <1>4, <2>1
  <2>3. QED
    BY <1>1, <1>4, <2>2
<1>5. QED
  BY <1>1, <1>3, <1>4 DEF Stacked, l, m

\* One that is pushed comes before those pushed so far.
LEMMA EdgePushed ==
  ASSUME NEW es, Len(es) \in Nat, DOMAIN es = 1 .. Len(es), NEW e \in DOMAIN es,
         NEW T, NEW stack \in Seq(T), NEW v \in T, v = es[e].to,
         NEW pushed, NEW s \in Seq(T), Stacked(stack, pushed, s, es, e), Len(s) # 0,
         es[e].from = s[Len(s)]
  PROVE  Stacked(Append(stack, v), Append(pushed, [by |-> Len(s), via |-> e]), s, es, e - 1)
<1> DEFINE l == Len(stack)
           m == Len(s)
           R == [by : Nat, via : Nat]
           r == [by |-> m, via |-> e]
           f == Append(stack, v)
           p == Append(pushed, r)
<1>1. /\ pushed \in Seq(R) /\ Len(pushed) = l
      /\ \A t \in 1 .. l :
           /\ pushed[t].by \in 1 .. m /\ pushed[t].via \in DOMAIN es
           /\ es[pushed[t].via].from = s[pushed[t].by] /\ es[pushed[t].via].to = stack[t]
           /\ pushed[t].by = m => pushed[t].via > e
      /\ \A t, o \in 1 .. l : t < o => AboveOnStack(pushed[o], pushed[t])
      /\ \A y \in 1 .. m : \A x \in DOMAIN es :
           es[x].from = s[y] /\ es[x].to \notin ToSet(s) /\ (y = m => x > e) =>
             \E t \in 1 .. l : pushed[t] = [by |-> y, via |-> x]
  BY DEF Stacked
<1>2. m \in Nat /\ m # 0 /\ e \in Nat /\ r \in R /\ r.by = m /\ r.via = e
  BY LenProperties
<1> HIDE DEF R, r
<1>3. /\ l \in Nat /\ Len(f) = l + 1 /\ f[l + 1] = v /\ \A t \in 1 .. l : f[t] = stack[t]
      /\ p \in Seq(R) /\ Len(p) = l + 1 /\ p[l + 1] = r /\ \A t \in 1 .. l : p[t] = pushed[t]
  BY <1>1, <1>2, AppendOne
<1> HIDE DEF l, m, f, p
<1>4. \A t \in 1 .. (l + 1) : t \in 1 .. l \/ t = l + 1
  BY <1>3
<1>5. \A t \in 1 .. l : t \in 1 .. (l + 1) /\ t < l + 1 /\ ~(l + 1 < t)
  BY <1>3
<1>6. \A x \in DOMAIN es : (x > e => x > e - 1) /\ (x > e - 1 => x > e \/ x = e)
  OBVIOUS
<1>7. l + 1 \in 1 .. (l + 1) /\ ~(l + 1 < l + 1) /\ m \in 1 .. m /\ e > e - 1
  BY <1>2, <1>3
<1>8. ASSUME NEW t \in 1 .. (l + 1)
      PROVE  /\ p[t].by \in 1 .. m /\ p[t].via \in DOMAIN es
             /\ es[p[t].via].from = s[p[t].by] /\ es[p[t].via].to = f[t]
             /\ p[t].by = m => p[t].via > e - 1
  <2>1. CASE t \in 1 .. l
    BY <1>1, <1>3, <1>6, <2>1
  <2>2. CASE t = l + 1
    <3>1. p[t] = r /\ f[t] = v
      BY <1>3, <2>2
    <3>2. QED
      BY <1>2, <1>7, <3>1 DEF m
  <2>3. QED
    BY <1>4, <2>1, <2>2
<1>9. ASSUME NEW t \in 1 .. l PROVE AboveOnStack(r, pushed[t])
  <2>1. pushed[t].by \in 1 .. m /\ (pushed[t].by = m => pushed[t].via > e)
    BY <1>1
  <2>2. pushed[t].via \in DOMAIN es
    BY <1>1
  <2>3. pushed[t].by < m \/ (pushed[t].by = m /\ e < pushed[t].via)
    BY <1>2, <2>1, <2>2
  <2>4. QED
    BY <1>2, <2>3 DEF AboveOnStack
<1>10. ASSUME NEW t \in 1 .. (l + 1), NEW o \in 1 .. (l + 1), t < o PROVE AboveOnStack(p[o], p[t])
  <2>1. CASE o \in 1 .. l
    <3>1. t \in 1 .. l
      BY <1>4, <1>5, <1>10, <2>1
    <3>2. QED
      BY <1>1, <1>3, <1>10, <2>1, <3>1
  <2>2. CASE o = l + 1
    <3>1. t \in 1 .. l
      BY <1>4, <1>7, <1>10, <2>2
    <3>2. QED
      BY <1>3, <1>9, <2>2, <3>1
  <2>3. QED
    BY <1>4, <2>1, <2>2
<1>11. ASSUME NEW y \in 1 .. m, NEW x \in DOMAIN es,
              es[x].from = s[y], es[x].to \notin ToSet(s), y = m => x > e - 1
       PROVE  \E t \in 1 .. (l + 1) : p[t] = [by |-> y, via |-> x]
  <2>1. CASE y = m /\ x = e
    BY <1>3, <1>7, <2>1 DEF r
  <2>2. CASE ~(y = m /\ x = e)
    <3>1. y = m => x > e
      BY <1>6, <1>11, <2>2
    <3>2. PICK t \in 1 .. l : pushed[t] = [by |-> y, via |-> x]
      BY <1>1, <1>11, <3>1
    <3>3. QED
      BY <1>3, <1>5, <3>2
  <2>3. QED
    BY <2>1, <2>2
<1>12. Stacked(f, p, s, es, e - 1)
  <2>1. Len(f) = l + 1 /\ Len(p) = Len(f) /\ p \in Seq([by : Nat, via : Nat]) /\ Len(s) = m
    BY <1>3 DEF m, R
  <2>2. \A t \in 1 .. Len(f) :
          /\ p[t].by \in 1 .. Len(s) /\ p[t].via \in DOMAIN es
          /\ es[p[t].via].from = s[p[t].by] /\ es[p[t].via].to = f[t]
          /\ p[t].by = Len(s) => p[t].via > e - 1
    BY <1>8, <2>1
  <2>3. \A t, u \in 1 .. Len(f) : t < u => AboveOnStack(p[u], p[t])
    BY <1>10, <2>1
  <2>4. \A y \in 1 .. Len(s) : \A x \in DOMAIN es :
          es[x].from = s[y] /\ es[x].to \notin ToSet(s) /\ (y = Len(s) => x > e - 1) =>
            \E t \in 1 .. Len(f) : p[t] = [by |-> y, via |-> x]
    BY <1>11, <2>1
  <2>5. QED
    BY <2>1, <2>2, <2>3, <2>4, Zenon DEF Stacked
<1>13. QED
  BY <1>12 DEF f, p, r, m

\* What is visited next is led to, by an edge from a node visited.
LEMMA LedOn ==
  ASSUME NEW es, NEW n, Graph(es, n), NEW s \in Seq(1 .. n), Led(s, es, n), Len(s) + 1 <= n,
         NEW y \in 1 .. Len(s), NEW x \in DOMAIN es, es[x].from = s[y],
         NEW v, v = es[x].to
  PROVE  Led(Append(s, v), es, n)
<1> DEFINE T == 1 .. n
           l == Len(s)
           u == Append(s, v)
           W == WalksOf(es, FALSE, n)
<1>1. v \in T /\ s \in Seq(T) /\ n \in Nat
  BY EdgeParts, EdgeList
<1> HIDE DEF T
<1>2. l \in Nat /\ Len(u) = l + 1 /\ u[l + 1] = v /\ \A z \in 1 .. l : u[z] = s[z]
  BY <1>1, AppendOne
<1> HIDE DEF u
<1>3. PICK w \in W[y - 1] : w.at = s[y]
  BY DEF Led
<1>4. y - 1 \in 0 .. (n - 1) /\ (y - 1) + 1 = y /\ y \in 0 .. n /\ l \in y .. n
  BY <1>1, <1>2
<1>5. Longer(w, es[x], FALSE) \in W[y]
  <2>1. Longer(w, es[x], FALSE) \in W[(y - 1) + 1]
    BY <1>1, <1>3, <1>4, WalkOn
  <2>2. QED
    BY <1>4, <2>1
<1>6. W[y] \subseteq W[l]
  <2> HIDE DEF l
  <2>1. QED
    BY <1>1, <1>4, WalksGrow
<1>7. Longer(w, es[x], FALSE).at = v
  BY DEF Longer
<1>8. ASSUME NEW z \in 1 .. (l + 1) PROVE \E p \in W[z - 1] : p.at = u[z]
  <2>1. CASE z \in 1 .. l
    BY <1>2, <2>1 DEF Led
  <2>2. CASE z = l + 1
    <3>1. z - 1 = l
      BY <1>2, <2>2
    <3>2. QED
      BY <1>2, <1>5, <1>6, <1>7, <2>2, <3>1
  <2>3. z \in 1 .. l \/ z = l + 1
    BY <1>2
  <2>4. QED
    BY <2>1, <2>2, <2>3
<1>9. QED
  BY <1>2, <1>8 DEF Led, u

LEMMA DfsStarts ==
  ASSUME SearchTypes, StartSearch
  PROVE  DfsInv'
<1> SUFFICES ASSUME algo' = "dfs" PROVE DfsInv'
  BY DEF DfsInv
<1>1. pc' = "search" /\ visited' = <<>> /\ frontier' = <<1>>
  BY DEF StartSearch
<1>2. DepthFirst(edges', <<>>)
  BY DEF DepthFirst
<1>3. Led(<<>>, edges', nodes')
  <2>1. Len(<<>>) = 0
    OBVIOUS
  <2>2. \A x \in 1 .. Len(<<>>) : FALSE
    BY <2>1
  <2>3. QED
    BY <2>2 DEF Led
<1>4. QED
  BY <1>1, <1>2, <1>3 DEF DfsInv

\* The first node visited, with nothing left on the stack.
LEMMA FirstVisit ==
  ASSUME NEW es, NEW n, Graph(es, n)
  PROVE  /\ Stacked(<<>>, <<>>, <<1>>, es, Len(es))
         /\ DepthFirst(es, <<1>>) /\ Led(<<1>>, es, n)
<1>1. Len(es) \in Nat /\ DOMAIN es = 1 .. Len(es) /\ n \in Nat
  BY EdgeList
<1>2. <<>> \in Seq([by : Nat, via : Nat]) /\ Len(<<>>) = 0
  BY EmptySeq
<1>3. Len(<<1>>) = 1 /\ <<1>>[1] = 1 /\ DOMAIN <<1>> = {1}
  OBVIOUS
<1>4. \A x \in 1 .. 1 : x = 1
  OBVIOUS
<1>5. \A t \in 1 .. 0 : FALSE
  OBVIOUS
<1> DEFINE none == <<>>
           s == <<1>>
<1> HIDE DEF none, s
<1>6. \A x \in DOMAIN es : ~(x > Len(es))
  BY <1>1
<1>7. Len(s) = 1 /\ s[1] = 1 /\ DOMAIN s = {1} /\ Len(none) = 0 /\ none \in Seq([by : Nat, via : Nat])
  BY <1>2, <1>3 DEF s, none
<1>8. Stacked(none, none, s, es, Len(es))
  BY <1>4, <1>5, <1>6, <1>7 DEF Stacked
<1>9. DepthFirst(es, s)
  BY <1>7 DEF DepthFirst
<1>10. Led(s, es, n)
  <2>1. WalksOf(es, FALSE, n)[0] = {Origin}
    BY <1>1, WalksAreDefined
  <2>2. Origin.at = 1 /\ 1 - 1 = 0
    BY DEF Origin
  <2>3. \E w \in WalksOf(es, FALSE, n)[1 - 1] : w.at = s[1]
    BY <1>7, <2>1, <2>2
  <2>4. QED
    BY <1>4, <1>7, <2>3 DEF Led
<1>11. QED
  BY <1>8, <1>9, <1>10 DEF s, none

LEMMA DfsVisitKeeps ==
  ASSUME SearchTypes, DfsInv, DfsVisit
  PROVE  DfsInv'
<1> DEFINE top == Last(frontier)
           T == 1 .. nodes
           l == Len(frontier)
<1>1. /\ algo = "dfs" /\ pc = "search" /\ frontier # <<>> /\ frontier' = Front(frontier)
      /\ UNCHANGED <<algo, nodes, edges>>
  BY DEF DfsVisit
<1>2. /\ Graph(edges, nodes) /\ nodes \in Nat /\ Len(edges) \in Nat /\ DOMAIN edges = 1 .. Len(edges)
      /\ visited \in Seq(T) /\ frontier \in Seq(T) /\ Distinct(visited)
  BY EdgeList DEF SearchTypes
<1>3. DepthFirst(edges, visited) /\ Led(visited, edges, nodes)
  BY <1>1 DEF DfsInv
<1> HIDE DEF T
<1>4. top = frontier[l] /\ top \in T /\ l \in Nat \ {0} /\ l \in 1 .. l
  <2>1. top = frontier[l] /\ top \in T /\ l \in Nat \ {0}
    BY <1>1, <1>2, FrontParts
  <2>2. QED
    BY <2>1
<1>5. \A n : Contains(visited, n) <=> n \in ToSet(visited)
  BY <1>2, ContainsIsIn
<1>6. Len(visited) \in Nat
  BY <1>2, LenProperties
<1>7. CASE visited = <<>>
  <2>1. frontier = <<1>>
    BY <1>1, <1>7 DEF DfsInv
  <2>2. ToSet(visited) = {}
    BY <1>7 DEF ToSet
  <2>3. top = 1 /\ Front(frontier) = <<>>
    BY <2>1 DEF Front, Last
  <2>4. ~Contains(visited, top)
    BY <1>5, <2>2
  <2>5. visited' = <<1>> /\ current' = 1 /\ edge' = Len(edges) /\ pc' = "edges" /\ frontier' = <<>>
    BY <1>1, <1>7, <2>3, <2>4 DEF DfsVisit
  <2>6. Stacked(<<>>, <<>>, <<1>>, edges, Len(edges)) /\ DepthFirst(edges, <<1>>) /\ Led(<<1>>, edges, nodes)
    BY <1>2, FirstVisit
  <2>7. <<1>> # <<>> /\ <<1>>[Len(<<1>>)] = 1
    OBVIOUS
  <2>8. QED
    BY <1>1, <2>5, <2>6, <2>7 DEF DfsInv
<1>8. CASE visited # <<>>
  <2>1. PICK pushed : Stacked(frontier, pushed, visited, edges, 0)
    BY <1>1, <1>8 DEF DfsInv
  <2>2. CASE top \in ToSet(visited)
    <3>1. UNCHANGED <<pc, visited, current, edge>>
      BY <1>5, <2>2 DEF DfsVisit
    <3>2. Stacked(Front(frontier), Front(pushed), visited, edges, 0)
      BY <1>1, <1>2, <1>4, <2>1, <2>2, PopSkips
    <3>3. QED
      BY <1>1, <1>3, <1>8, <3>1, <3>2 DEF DfsInv
  <2>3. CASE top \notin ToSet(visited)
    <3> DEFINE u == Append(visited, top)
    <3>1. visited' = u /\ current' = top /\ edge' = Len(edges) /\ pc' = "edges"
      BY <1>5, <2>3 DEF DfsVisit
    <3>2. Stacked(Front(frontier), Front(pushed), u, edges, Len(edges))
      BY <1>1, <1>2, <1>4, <2>1, <2>3, PopVisits
    <3>3. Len(u) = Len(visited) + 1 /\ u[Len(visited) + 1] = top /\ u \in Seq(T) /\ Distinct(u)
      BY <1>2, <1>4, <2>3, AppendOne, AppendDistinct
    <3>4. Len(visited) # 0
      BY <1>2, <1>8, EmptySeq
    <3>5. DepthFirst(edges, u)
      <4>1. GoesOnTo(edges, visited, frontier[l])
        <5> DEFINE m == l
        <5>1. m \in 1 .. Len(frontier) /\ m = Len(frontier) /\ frontier[m] \notin ToSet(visited)
          BY <1>4, <2>3
        <5> HIDE DEF m
        <5>2. GoesOnTo(edges, visited, frontier[m])
          BY <1>2, <2>1, <5>1, TopGoesOn
        <5>3. QED
          BY <5>2 DEF m
      <4>2. QED
        BY <1>2, <1>3, <1>4, <3>4, <4>1, OrderGoesOn
    <3>6. Led(u, edges, nodes)
      <4>1. Len(visited) + 1 <= nodes
        BY <1>2, <3>3, DistinctSize DEF T
      <4> DEFINE y == pushed[l].by
                 x == pushed[l].via
      <4>2. /\ y \in 1 .. Len(visited) /\ x \in DOMAIN edges
            /\ edges[x].from = visited[y] /\ edges[x].to = top
        BY <1>4, <2>1 DEF Stacked
      <4> HIDE DEF x, y, top
      <4>3. QED
        BY <1>2, <1>3, <4>1, <4>2, LedOn DEF T
    <3>7. u # <<>>
      BY <1>6, <3>3
    <3>8. u[Len(u)] = top
      BY <3>3
    <3> HIDE DEF u
    <3>9. QED
      BY <1>1, <3>1, <3>2, <3>5, <3>6, <3>7, <3>8 DEF DfsInv
  <2>4. QED
    BY <2>2, <2>3
<1>9. QED
  BY <1>7, <1>8

LEMMA DfsEdgeKeeps ==
  ASSUME SearchTypes, DfsInv, DfsEdge
  PROVE  DfsInv'
<1> DEFINE T == 1 .. nodes
           s == visited
           v == edges[edge].to
<1>1. /\ algo = "dfs" /\ pc = "edges" /\ edge' = edge - 1 /\ edge > 0
      /\ UNCHANGED <<algo, pc, nodes, edges, visited, current>>
  BY DEF DfsEdge
<1>2. /\ Graph(edges, nodes) /\ nodes \in Nat /\ Len(edges) \in Nat /\ DOMAIN edges = 1 .. Len(edges)
      /\ s \in Seq(T) /\ frontier \in Seq(T)
  BY EdgeList DEF SearchTypes
<1>3. edge \in DOMAIN edges
  BY <1>1, <1>2 DEF SearchTypes
<1>4. DepthFirst(edges, s) /\ Led(s, edges, nodes) /\ s # <<>> /\ current = s[Len(s)]
  BY <1>1 DEF DfsInv
<1>5. PICK pushed : Stacked(frontier, pushed, s, edges, edge)
  BY <1>1, <1>4 DEF DfsInv
<1>6. v \in T
  BY <1>2, <1>3, EdgeParts
<1>7. frontier' = IF edges[edge].from = current /\ ~Contains(s, v) THEN Append(frontier, v) ELSE frontier
  BY DEF DfsEdge, NextToPush
<1> HIDE DEF T
<1>8. \A n : Contains(s, n) <=> n \in ToSet(s)
  BY <1>2, ContainsIsIn
<1>9. Len(s) # 0
  BY <1>2, <1>4, EmptySeq
<1>10. \E p : Stacked(frontier', p, s, edges, edge - 1)
  <2>1. CASE edges[edge].from = current /\ v \notin ToSet(s)
    <3>1. Stacked(Append(frontier, v), Append(pushed, [by |-> Len(s), via |-> edge]), s, edges, edge - 1)
      BY <1>2, <1>3, <1>4, <1>5, <1>6, <1>9, <2>1, EdgePushed
    <3>2. QED
      BY <1>7, <1>8, <2>1, <3>1
  <2>2. CASE ~(edges[edge].from = current /\ v \notin ToSet(s))
    <3>1. frontier' = frontier
      BY <1>7, <1>8, <2>2
    <3>2. Stacked(frontier, pushed, s, edges, edge - 1)
      BY <1>2, <1>3, <1>4, <1>5, <1>9, <2>2, EdgeSkipped
    <3>3. QED
      BY <3>1, <3>2
  <2>3. QED
    BY <2>1, <2>2
<1>11. QED
  BY <1>1, <1>4, <1>10 DEF DfsInv

LEMMA DfsEndsKeep ==
  ASSUME SearchTypes, DfsInv, EdgesDone \/ SearchDone
  PROVE  DfsInv'
<1> SUFFICES ASSUME algo' = "dfs" PROVE DfsInv'
  BY DEF DfsInv
<1>1. algo = "dfs" /\ UNCHANGED search /\ pc \in {"edges", "search"} /\ pc' \in {"search", "done"}
  BY DEF EdgesDone, SearchDone
<1>2. UNCHANGED <<nodes, edges, visited, frontier, current, edge>>
  BY <1>1 DEF search
<1>3. pc = "edges" => edge = 0 /\ pc' = "search"
  BY <1>1 DEF EdgesDone, SearchDone
<1>4. pc' = "done" => frontier = <<>>
  BY <1>1 DEF EdgesDone, SearchDone
<1>5. visited = <<>> => frontier = <<1>> /\ pc = "search"
  BY <1>1 DEF DfsInv
<1>6. visited = <<>> => pc' = "search"
  BY <1>1, <1>4, <1>5
<1>7. QED
  BY <1>1, <1>2, <1>3, <1>4, <1>5, <1>6 DEF DfsInv

LEMMA DfsProperty ==
  ASSUME SearchTypes, DfsInv, algo = "dfs"
  PROVE  /\ DepthFirst(edges, visited)
         /\ pc = "done" => ToSet(visited) = Reachable
<1>1. CASE pc = "start"
  <2>1. visited = <<>>
    BY <1>1 DEF SearchTypes
  <2>2. DOMAIN visited = {}
    BY <2>1
  <2>3. QED
    BY <1>1, <2>2 DEF DepthFirst
<1>2. CASE pc # "start"
  <2> DEFINE W == WalksOf(edges, FALSE, nodes)
             s == visited
             l == Len(visited)
             seen == ToSet(visited)
  <2>1. DepthFirst(edges, s) /\ Led(s, edges, nodes)
    BY <1>2 DEF DfsInv
  <2>2. ASSUME pc = "done" PROVE seen = Reachable
    <3>1. Graph(edges, nodes) /\ nodes \in Nat /\ DOMAIN edges = 1 .. Len(edges) /\ Len(edges) \in Nat
      BY EdgeList DEF SearchTypes
    <3>2. l \in 0 .. nodes /\ l \in Nat /\ DOMAIN s = 1 .. l /\ s \in Seq(1 .. nodes)
      BY <3>1, VisitedSize, LenProperties DEF SearchTypes
    <3>3. s # <<>> /\ frontier = <<>>
      BY <2>2 DEF DfsInv
    <3>4. PICK pushed : Stacked(<<>>, pushed, s, edges, 0)
      BY <2>2, <3>3 DEF DfsInv
    <3>5. seen = {s[x] : x \in 1 .. l}
      BY <3>2 DEF ToSet
    <3>6. s[1] = 1 /\ 1 \in 1 .. l
      <4>1. 1 \in 1 .. l
        BY <3>2, <3>3, EmptySeq
      <4>2. QED
        BY <2>1, <3>2, <4>1 DEF DepthFirst
    <3>7. ASSUME NEW z \in DOMAIN edges, edges[z].from \in seen PROVE edges[z].to \in seen
      <4>1. PICK y \in 1 .. l : edges[z].from = s[y]
        BY <3>5, <3>7
      <4>2. z > 0 /\ Len(<<>>) = 0 /\ \A t \in 1 .. 0 : FALSE
        BY <3>1, EmptySeq
      <4>3. \A t \in 1 .. Len(<<>>) : FALSE
        BY <4>2
      <4>4. QED
        BY <3>4, <4>1, <4>2, <4>3 DEF Stacked
    <3>8. Walks = W[nodes]
      <4>1. (algo = "dijkstra") = FALSE
        OBVIOUS
      <4>2. QED
        BY <4>1 DEF Walks
    <3>9. \A w \in W[nodes] : w.at \in seen
      <4>1. 1 \in seen
        BY <3>5, <3>6
      <4> HIDE DEF seen
      <4>2. QED
        BY <3>1, <3>7, <4>1, ClosedIsAll
    <3>10. ASSUME NEW x \in 1 .. l PROVE s[x] \in Reachable
      <4>1. PICK w \in W[x - 1] : w.at = s[x]
        BY <2>1 DEF Led
      <4>2. x - 1 \in 0 .. nodes /\ nodes \in (x - 1) .. nodes
        BY <3>1, <3>2
      <4>3. W[x - 1] \subseteq W[nodes]
        BY <3>1, <4>2, WalksGrow
      <4>4. QED
        BY <3>8, <4>1, <4>3 DEF Reachable
    <3>11. QED
      BY <3>5, <3>8, <3>9, <3>10 DEF Reachable
  <2>3. QED
    BY <2>1, <2>2
<1>3. QED
  BY <1>1, <1>2

\* TraversalsKeepOrder: on a graph of any size, with any edges, bfsSteps visits by
\* the number of edges from the start and dfsSteps in the order of a recursive
\* search, and both end with each node that can be reached visited once.
THEOREM GraphTraversalsKeepOrder ==
  SearchInit /\ [][GraphNext]_<<generator, search>> => []TraversalsKeepOrder
<1> DEFINE Inv == SearchTypes /\ DijkstraInv /\ BfsInv /\ DfsInv
<1>1. SearchInit => Inv
  BY SearchTypesInit DEF SearchInit, DijkstraInv, BfsInv, DfsInv
<1>2. Inv /\ [GraphNext]_<<generator, search>> => Inv'
  <2> SUFFICES ASSUME SearchTypes, DijkstraInv, BfsInv, DfsInv, [GraphNext]_<<generator, search>>
               PROVE  SearchTypes' /\ DijkstraInv' /\ BfsInv' /\ DfsInv'
    OBVIOUS
  <2>1. SearchTypes' /\ DijkstraInv'
    BY GraphTypesKept
  <2>2. CASE StartSearch
    BY <2>1, <2>2, BfsStarts, DfsStarts
  <2>3. CASE BfsVisit \/ BfsEdge
    <3>1. algo' = "bfs"
      BY <2>3 DEF BfsVisit, BfsEdge
    <3>2. DfsInv'
      BY <3>1 DEF DfsInv
    <3>3. QED
      BY <2>1, <2>3, <3>2, BfsVisitKeeps, BfsEdgeKeeps
  <2>4. CASE DfsVisit \/ DfsEdge
    <3>1. algo' = "dfs"
      BY <2>4 DEF DfsVisit, DfsEdge
    <3>2. BfsInv'
      BY <3>1 DEF BfsInv
    <3>3. QED
      BY <2>1, <2>4, <3>2, DfsVisitKeeps, DfsEdgeKeeps
  <2>5. CASE DijkstraVisit \/ DijkstraEdge
    <3>1. algo' = "dijkstra"
      BY <2>5 DEF DijkstraVisit, DijkstraEdge
    <3>2. BfsInv' /\ DfsInv'
      BY <3>1 DEF BfsInv, DfsInv
    <3>3. QED
      BY <2>1, <3>2
  <2>6. CASE EdgesDone \/ SearchDone
    BY <2>1, <2>6, BfsEndsKeep, DfsEndsKeep
  <2>7. CASE UNCHANGED <<generator, search>>
    BY <2>1, <2>7 DEF BfsInv, DfsInv, TakenOff, generator, search
  <2>8. QED
    BY <2>2, <2>3, <2>4, <2>5, <2>6, <2>7 DEF GraphNext
<1>3. Inv => TraversalsKeepOrder
  <2> SUFFICES ASSUME SearchTypes, BfsInv, DfsInv PROVE TraversalsKeepOrder
    OBVIOUS
  <2>1. ToSet(visited) = Reachable => Len(visited) = Cardinality(Reachable)
    BY VisitedSize
  <2>2. QED
    BY <2>1, BfsProperty, DfsProperty DEF TraversalsKeepOrder
<1>4. QED
  BY <1>1, <1>2, <1>3, PTL

===============================================================================
