---------------------------- MODULE StructureProofs ---------------------------
(***************************************************************************)
(* The generators of algorithms/structures.ts keep their promises on       *)
(* arrays of any length and any integers.                                  *)
(*                                                                         *)
(* HeapsStayOrdered: between two insertions, and between two extractions,  *)
(* the array is a heap; in between one value is out of place, on its way   *)
(* up (UpHeap) or down (DownHeap), and the invariant says what holds       *)
(* around it. Values are counted, with Count of AlgorithmProofs, so an     *)
(* exchange that loses or doubles one is seen.                             *)
(*                                                                         *)
(* HashTableKeepsValues: HashInv says where each value of a table of any   *)
(* size lies and what the attempts so far have passed; what the messages   *)
(* promise of a rejection then follows by counting the buckets that        *)
(* probing visits, for quadratic probing by the squares modulo a prime.    *)
(*                                                                         *)
(* TreesKeepOrder: every node of the tree has bounds lo and hi, the nearest*)
(* nodes above it on either side, and whatever may be between them is in   *)
(* its subtree (Searchable). The invariant says that such bounds exist,    *)
(* where an insertion and a search are on their way, and what a walk has   *)
(* emitted. 0 is no node, so the values are integers other than 0.         *)
(***************************************************************************)
EXTENDS Structures, AlgorithmProofs

-------------------------------------------------------------------------------
(* How often a value occurs, after a write, an exchange or an append. *)

\* What one occurrence adds to the count of v.
One(x, v) == IF x = v THEN 1 ELSE 0

\* Writing one place of an array takes away what was there.
LEMMA WriteCounts ==
  ASSUME NEW a \in Seq(Int), NEW b \in Seq(Int), NEW z \in 1 .. Len(a), NEW w \in Int,
         Written(a, b, z, w), NEW v
  PROVE  Count(b, v) + One(a[z], v) = Count(a, v) + One(w, v)
<1> DEFINE n == Len(a)
           z0 == z - 1
           z1 == z + 1
<1>1. n \in Nat /\ z \in Int /\ z0 \in Int /\ z1 \in Int /\ z0 + 1 = z /\ z + 1 = z1
      /\ z <= n /\ 1 <= z0 + 1 /\ z0 <= n
  BY LenProperties
<1>2. Len(b) = n /\ \A x \in 1 .. n : b[x] = IF x = z THEN w ELSE a[x]
  BY DEF Written
<1> HIDE DEF n, z0, z1
<1>3. ASSUME NEW c
      PROVE Occ(c, 1, n, v) = Occ(c, 1, z0, v) + (Occ(c, z, z, v) + Occ(c, z1, n, v))
  <2>1. Occ(c, 1, n, v) = Occ(c, 1, z0, v) + Occ(c, z0 + 1, n, v)
    BY <1>1, OccSplit
  <2>2. Occ(c, z, n, v) = Occ(c, z, z, v) + Occ(c, z1, n, v)
    <3>1. z \in Int /\ n \in Int /\ z1 \in Int
      BY <1>1
    <3>2. z <= n
      BY <1>1
    <3>3. z1 = z + 1
      BY <1>1
    <3>4. QED
      BY <3>1, <3>2, <3>3, OccFirst
  <2>3. QED
    BY <1>1, <2>1, <2>2
<1>4. Occ(b, 1, z0, v) = Occ(a, 1, z0, v)
  <2>1. Agree(b, a, 1, z0)
    <3>1. ASSUME NEW x \in 1 .. z0 PROVE b[x] = a[x]
      <4>1. x \in 1 .. n /\ x # z
        BY <1>1
      <4>2. QED
        BY <1>2, <4>1
    <3>2. QED
      BY <3>1 DEF Agree
  <2>2. QED
    BY <1>1, <2>1, OccAgree
<1>5. Occ(b, z1, n, v) = Occ(a, z1, n, v)
  <2>1. Agree(b, a, z1, n)
    <3>1. ASSUME NEW x \in z1 .. n PROVE b[x] = a[x]
      <4>1. x \in 1 .. n /\ x # z
        BY <1>1
      <4>2. QED
        BY <1>2, <4>1
    <3>2. QED
      BY <3>1 DEF Agree
  <2>2. QED
    BY <1>1, <2>1, OccAgree
<1>6. Occ(a, z, z, v) = IF a[z] = v THEN 1 ELSE 0
  BY <1>1, OccOne
<1>7. Occ(b, z, z, v) = IF w = v THEN 1 ELSE 0
  <2>1. b[z] = w
    BY <1>1, <1>2 DEF n
  <2>2. Occ(b, z, z, v) = IF b[z] = v THEN 1 ELSE 0
    BY <1>1, OccOne
  <2>3. QED
    BY <2>1, <2>2
<1>8. Occ(a, 1, z0, v) \in Nat /\ Occ(a, z1, n, v) \in Nat
  BY <1>1, OccType
<1>9. /\ Occ(a, 1, n, v) = Occ(a, 1, z0, v) + (Occ(a, z, z, v) + Occ(a, z1, n, v))
      /\ Occ(b, 1, n, v) = Occ(a, 1, z0, v) + (Occ(b, z, z, v) + Occ(a, z1, n, v))
  BY <1>3, <1>4, <1>5
<1>10. Occ(b, 1, n, v) + Occ(a, z, z, v) = Occ(a, 1, n, v) + Occ(b, z, z, v)
  <2> DEFINE o1 == Occ(a, 1, z0, v)
             o2 == Occ(a, z1, n, v)
             o3 == Occ(a, z, z, v)
             o4 == Occ(b, z, z, v)
  <2>1. o3 \in Nat /\ o4 \in Nat /\ o1 \in Nat /\ o2 \in Nat
    BY <1>6, <1>7, <1>8
  <2> HIDE DEF o1, o2, o3, o4
  <2>2. (o1 + (o4 + o2)) + o3 = (o1 + (o3 + o2)) + o4
    BY <2>1
  <2>3. QED
    BY <1>9, <2>2 DEF o1, o2, o3, o4
<1>11. QED
  BY <1>2, <1>6, <1>7, <1>10 DEF Count, One, n

\* So does exchanging two places.
LEMMA ExchangeCounts ==
  ASSUME NEW a \in Seq(Int), NEW p \in 0 .. (Len(a) - 1), NEW q \in 0 .. (Len(a) - 1), p # q
  PROVE  /\ Swapped(a, p, q) \in Seq(Int)
         /\ Len(Swapped(a, p, q)) = Len(a)
         /\ \A x \in 1 .. Len(a) : Swapped(a, p, q)[x] =
              IF x = p + 1 THEN a[q + 1] ELSE IF x = q + 1 THEN a[p + 1] ELSE a[x]
         /\ \A v : Count(Swapped(a, p, q), v) = Count(a, v)
<1> DEFINE n == Len(a)
           p1 == p + 1
           q1 == q + 1
           u == a[p1]
           w == a[q1]
           c == [a EXCEPT ![p1] = w]
           b == [c EXCEPT ![q1] = u]
<1>1. n \in Nat /\ p1 \in 1 .. n /\ q1 \in 1 .. n /\ p1 # q1
  BY LenProperties
<1>2. u \in Int /\ w \in Int
  <2> HIDE DEF p1, q1
  <2>1. QED
    BY <1>1
<1>3. Swapped(a, p, q) = b
  BY DEF Swapped
<1> HIDE DEF p1, q1, u, w, c, b, n
<1>4. Written(a, c, p1, w)
  BY <1>1, <1>2, WriteOne DEF c, n
<1>5. c \in Seq(Int) /\ Len(c) = n /\ \A x \in 1 .. n : c[x] = IF x = p1 THEN w ELSE a[x]
  BY <1>4 DEF Written, n
<1>6. Written(c, b, q1, u)
  BY <1>1, <1>2, <1>5, WriteOne DEF b
<1>7. b \in Seq(Int) /\ Len(b) = n /\ \A x \in 1 .. n : b[x] = IF x = q1 THEN u ELSE c[x]
  BY <1>5, <1>6 DEF Written
<1>8. a[p1] = u /\ c[q1] = w
  BY <1>1, <1>5 DEF u, w
<1>9. ASSUME NEW v PROVE Count(b, v) = Count(a, v)
  <2>1. Count(c, v) + One(a[p1], v) = Count(a, v) + One(w, v)
    <3>1. p1 \in 1 .. Len(a)
      BY <1>1 DEF n
    <3>2. c \in Seq(Int)
      BY <1>5
    <3>3. QED
      BY <1>2, <1>4, <3>1, <3>2, WriteCounts
  <2>2. Count(b, v) + One(c[q1], v) = Count(c, v) + One(u, v)
    <3>1. q1 \in 1 .. Len(c)
      BY <1>1, <1>5
    <3>2. c \in Seq(Int) /\ b \in Seq(Int)
      BY <1>5, <1>7
    <3>3. QED
      BY <1>2, <1>6, <3>1, <3>2, WriteCounts
  <2>3. Count(a, v) \in Nat /\ Count(b, v) \in Nat /\ Count(c, v) \in Nat
    <3>1. Len(a) \in Int /\ Len(b) \in Int /\ Len(c) \in Int /\ 1 \in Int
      BY <1>1, <1>5, <1>7 DEF n
    <3>2. QED
      BY <3>1, OccType DEF Count
  <2>4. One(u, v) \in Nat /\ One(w, v) \in Nat
    BY DEF One
  <2>5. QED
    BY <1>8, <2>1, <2>2, <2>3, <2>4
<1>10. \A x \in 1 .. n : b[x] = IF x = p1 THEN w ELSE IF x = q1 THEN u ELSE a[x]
  BY <1>1, <1>5, <1>7
<1>11. QED
  BY <1>3, <1>7, <1>9, <1>10 DEF n, p1, q1, u, w

-------------------------------------------------------------------------------
(* Parents, exchanges, and what is a heap but for one value. *)

\* The parent comes before its child, whose place it determines.
LEMMA Parents ==
  /\ \A x \in Int : Parent(x) \in Int
  /\ \A x \in Nat \ {0} : Parent(x) \in Nat /\ Parent(x) < x
  /\ \A x \in Int, y \in Int : Parent(x) = y <=> x \in {2 * y + 1, 2 * y + 2}
BY DEF Parent

\* So every element but the first has its parent in the array.
LEMMA ParentsInHeap ==
  ASSUME NEW n \in Nat
  PROVE  \A x \in 1 .. (n - 1) :
           Parent(x) \in 0 .. (n - 1) /\ Parent(x) < x /\ x \in 0 .. (n - 1)
<1> SUFFICES ASSUME NEW x \in 1 .. (n - 1)
             PROVE  Parent(x) \in 0 .. (n - 1) /\ Parent(x) < x /\ x \in 0 .. (n - 1)
  OBVIOUS
<1>1. x \in Nat \ {0}
  OBVIOUS
<1>2. Parent(x) \in Nat /\ Parent(x) < x
  BY <1>1, Parents
<1>3. QED
  BY <1>2

\* g is h with the values at p and q exchanged.
ExchangedAt(h, g, p, q) ==
  /\ g \in Seq(Int) /\ Len(g) = Len(h)
  /\ \A x \in 0 .. (Len(h) - 1) :
       At(g, x) = IF x = p THEN At(h, q) ELSE IF x = q THEN At(h, p) ELSE At(h, x)

LEMMA Elements ==
  ASSUME NEW h \in Seq(Int)
  PROVE  Len(h) \in Nat /\ \A x \in 0 .. (Len(h) - 1) : At(h, x) \in Int
<1>1. Len(h) \in Nat
  BY LenProperties
<1>2. ASSUME NEW x \in 0 .. (Len(h) - 1) PROVE At(h, x) \in Int
  <2>1. x + 1 \in 1 .. Len(h)
    BY <1>1
  <2>2. QED
    BY <2>1 DEF At
<1>3. QED
  BY <1>1, <1>2

\* Swapped exchanges two places, and loses or doubles nothing.
LEMMA SwapExchanges ==
  ASSUME NEW h \in Seq(Int), NEW p \in 0 .. (Len(h) - 1), NEW q \in 0 .. (Len(h) - 1), p # q,
         NEW g, g = Swapped(h, p, q)
  PROVE  ExchangedAt(h, g, p, q) /\ \A v : Count(g, v) = Count(h, v)
<1>1. /\ g \in Seq(Int) /\ Len(g) = Len(h)
      /\ \A x \in 1 .. Len(h) : g[x] =
            IF x = p + 1 THEN h[q + 1] ELSE IF x = q + 1 THEN h[p + 1] ELSE h[x]
      /\ \A v : Count(g, v) = Count(h, v)
  BY ExchangeCounts
<1>2. ASSUME NEW x \in 0 .. (Len(h) - 1)
      PROVE  At(g, x) = IF x = p THEN At(h, q) ELSE IF x = q THEN At(h, p) ELSE At(h, x)
  <2>1. x + 1 \in 1 .. Len(h) /\ (x + 1 = p + 1 <=> x = p) /\ (x + 1 = q + 1 <=> x = q)
    BY Elements
  <2>2. g[x + 1] = IF x = p THEN h[q + 1] ELSE IF x = q THEN h[p + 1] ELSE h[x + 1]
    BY <1>1, <2>1
  <2>3. QED
    BY <2>2 DEF At
<1>3. QED
  BY <1>1, <1>2 DEF ExchangedAt

\* A value is on its way up: it may be greater than its parent, which is no less
\* than what is under it.
UpHeap(h, at) ==
  \A x \in 1 .. (Len(h) - 1) :
    /\ x # at => At(h, Parent(x)) >= At(h, x)
    /\ Parent(x) = at /\ at # 0 => At(h, Parent(at)) >= At(h, x)

\* No value is greater than its parent.
Heap(h) == \A x \in 1 .. (Len(h) - 1) : At(h, Parent(x)) >= At(h, x)

\* A value greater than its parent is exchanged with it: it is now the parent's
\* place where a value may be too great, and at the root none can be.
LEMMA UpOneLevel ==
  ASSUME NEW h \in Seq(Int), NEW at \in 1 .. (Len(h) - 1), UpHeap(h, at),
         NEW g, ExchangedAt(h, g, at, Parent(at)),
         At(h, Parent(at)) < At(h, at)
  PROVE  /\ UpHeap(g, Parent(at))
         /\ Parent(at) = 0 => Heap(g)
<1> DEFINE n == Len(h)
           p == Parent(at)
<1>1. n \in Nat /\ \A x \in 0 .. (n - 1) : At(h, x) \in Int
  BY Elements
<1>2. /\ Len(g) = n
      /\ \A x \in 0 .. (n - 1) :
            At(g, x) = IF x = at THEN At(h, p) ELSE IF x = p THEN At(h, at) ELSE At(h, x)
  BY DEF ExchangedAt
<1>3. p \in 0 .. (n - 1) /\ p < at /\ at \in 0 .. (n - 1)
  <2>1. at \in 1 .. (n - 1)
    OBVIOUS
  <2> HIDE DEF n
  <2>2. QED
    BY <1>1, <2>1, ParentsInHeap
<1>4. \A x \in 1 .. (n - 1) : Parent(x) \in 0 .. (n - 1) /\ Parent(x) < x /\ x \in 0 .. (n - 1)
  BY <1>1, ParentsInHeap
<1>5. /\ At(g, at) = At(h, p) /\ At(g, p) = At(h, at)
      /\ At(h, p) \in Int /\ At(h, at) \in Int /\ At(h, p) < At(h, at)
  BY <1>1, <1>2, <1>3
<1> HIDE DEF n, p
<1>6. ASSUME NEW x \in 1 .. (n - 1), x # p
      PROVE  At(g, Parent(x)) >= At(g, x)
  <2>1. At(h, x) \in Int /\ At(h, Parent(x)) \in Int
    BY <1>1, <1>4
  <2>2. CASE x = at
    BY <1>5, <2>2 DEF p
  <2>3. CASE x # at /\ Parent(x) = at
    <3>1. At(h, p) >= At(h, x)
      BY <1>3, <2>3 DEF UpHeap, p, n
    <3>2. At(g, x) = At(h, x)
      BY <1>2, <1>4, <1>6, <2>3
    <3>3. QED
      BY <1>5, <2>3, <3>1, <3>2
  <2>4. CASE x # at /\ Parent(x) = p
    <3>1. At(h, p) >= At(h, x)
      BY <2>4 DEF UpHeap, n
    <3>2. At(g, x) = At(h, x)
      BY <1>2, <1>4, <1>6, <2>4
    <3>3. QED
      BY <1>5, <2>1, <2>4, <3>1, <3>2
  <2>5. CASE x # at /\ Parent(x) # at /\ Parent(x) # p
    <3>1. At(h, Parent(x)) >= At(h, x)
      BY <2>5 DEF UpHeap, n
    <3>2. At(g, x) = At(h, x) /\ At(g, Parent(x)) = At(h, Parent(x))
      BY <1>2, <1>4, <1>6, <2>5
    <3>3. QED
      BY <3>1, <3>2
  <2>6. QED
    BY <2>2, <2>3, <2>4, <2>5
<1>7. ASSUME NEW x \in 1 .. (n - 1), Parent(x) = p, p # 0
      PROVE  At(g, Parent(p)) >= At(g, x)
  <2> DEFINE pp == Parent(p)
  <2>1. p \in 1 .. (n - 1) /\ p # at
    BY <1>3, <1>7
  <2>2. pp \in 0 .. (n - 1) /\ pp < p
    BY <1>4, <2>1
  <2>3. At(h, pp) >= At(h, p)
    BY <2>1 DEF UpHeap, n
  <2>4. At(g, pp) = At(h, pp) /\ At(h, pp) \in Int
    BY <1>1, <1>2, <1>3, <2>1, <2>2
  <2>5. At(g, x) <= At(h, p) /\ At(g, x) \in Int
    <3>1. CASE x = at
      BY <1>5, <3>1
    <3>2. CASE x # at
      <4>1. At(h, p) >= At(h, x)
        BY <1>7, <3>2 DEF UpHeap, n
      <4>2. At(g, x) = At(h, x) /\ At(h, x) \in Int
        BY <1>1, <1>2, <1>4, <1>7, <3>2
      <4>3. QED
        BY <1>5, <4>1, <4>2
    <3>3. QED
      BY <3>1, <3>2
  <2> HIDE DEF pp
  <2>6. At(g, pp) >= At(g, x)
    BY <1>5, <2>3, <2>4, <2>5
  <2>7. QED
    BY <2>6 DEF pp
<1>8. UpHeap(g, p)
  BY <1>2, <1>6, <1>7 DEF UpHeap
<1>9. p = 0 => Heap(g)
  <2>1. ASSUME p = 0, NEW x \in 1 .. (n - 1) PROVE At(g, Parent(x)) >= At(g, x)
    BY <1>6, <2>1
  <2>2. QED
    BY <1>2, <2>1 DEF Heap
<1>10. QED
  BY <1>8, <1>9 DEF p

\* A value is on its way down, in the part of the array whose parents are from
\* first on: it may be less than what is under it, which is no greater than its
\* parent.
DownHeap(h, first, at) ==
  \A x \in 1 .. (Len(h) - 1) :
    /\ Parent(x) >= first /\ Parent(x) # at => At(h, Parent(x)) >= At(h, x)
    /\ Parent(x) = at /\ at # 0 /\ Parent(at) >= first => At(h, Parent(at)) >= At(h, x)

\* l is the child to exchange with.
LEMMA DownOneLevel ==
  ASSUME NEW h \in Seq(Int), NEW first \in Nat, NEW at \in first .. (Len(h) - 1),
         DownHeap(h, first, at), NEW l \in 1 .. (Len(h) - 1), Parent(l) = at,
         \A x \in 1 .. (Len(h) - 1) : Parent(x) = at => At(h, l) >= At(h, x),
         At(h, l) >= At(h, at),
         NEW g, ExchangedAt(h, g, at, l)
  PROVE  DownHeap(g, first, l)
<1> DEFINE n == Len(h)
<1>1. n \in Nat /\ \A x \in 0 .. (n - 1) : At(h, x) \in Int
  BY Elements
<1>2. /\ Len(g) = n
      /\ \A x \in 0 .. (n - 1) :
            At(g, x) = IF x = at THEN At(h, l) ELSE IF x = l THEN At(h, at) ELSE At(h, x)
  BY DEF ExchangedAt
<1>3. \A x \in 1 .. (n - 1) : Parent(x) \in 0 .. (n - 1) /\ Parent(x) < x /\ x \in 0 .. (n - 1)
  BY <1>1, ParentsInHeap
<1>4. at < l /\ at \in 0 .. (n - 1) /\ l \in 0 .. (n - 1)
  BY <1>1, <1>3
<1>5. /\ At(g, at) = At(h, l) /\ At(g, l) = At(h, at)
      /\ At(h, l) \in Int /\ At(h, at) \in Int /\ At(h, l) >= At(h, at)
  BY <1>1, <1>2, <1>4
<1>6. \A x \in 1 .. (n - 1) : Parent(x) = at => At(h, l) >= At(h, x)
  OBVIOUS
<1> HIDE DEF n
<1>7. ASSUME NEW x \in 1 .. (n - 1), Parent(x) >= first, Parent(x) # l
      PROVE  At(g, Parent(x)) >= At(g, x)
  <2>1. At(h, x) \in Int /\ At(h, Parent(x)) \in Int
    BY <1>1, <1>3
  <2>2. CASE x = l
    BY <1>5, <2>2
  <2>3. CASE x # l /\ Parent(x) = at
    <3>1. At(h, l) >= At(h, x)
      BY <1>6, <2>3
    <3>2. At(g, x) = At(h, x)
      BY <1>2, <1>3, <2>3
    <3>3. QED
      BY <1>5, <2>3, <3>1, <3>2
  <2>4. CASE x = at
    <3>1. at # 0 /\ Parent(at) >= first
      BY <1>7, <2>4
    <3>2. At(h, Parent(at)) >= At(h, l)
      BY <3>1 DEF DownHeap
    <3>3. At(g, Parent(x)) = At(h, Parent(x))
      BY <1>2, <1>3, <1>7, <2>4
    <3>4. QED
      BY <1>5, <2>4, <3>2, <3>3
  <2>5. CASE x # l /\ x # at /\ Parent(x) # at
    <3>1. At(h, Parent(x)) >= At(h, x)
      BY <1>7, <2>5 DEF DownHeap, n
    <3>2. At(g, x) = At(h, x) /\ At(g, Parent(x)) = At(h, Parent(x))
      BY <1>2, <1>3, <1>7, <2>5
    <3>3. QED
      BY <3>1, <3>2
  <2>6. QED
    BY <2>2, <2>3, <2>4, <2>5
<1>8. ASSUME NEW x \in 1 .. (n - 1), Parent(x) = l
      PROVE  At(g, at) >= At(g, x)
  <2>1. Parent(x) >= first /\ Parent(x) # at
    BY <1>4, <1>8
  <2>2. At(h, l) >= At(h, x)
    BY <1>8, <2>1 DEF DownHeap, n
  <2>3. At(g, x) = At(h, x)
    BY <1>2, <1>3, <1>4, <1>8
  <2>4. QED
    BY <1>5, <2>2, <2>3
<1>9. QED
  BY <1>2, <1>7, <1>8 DEF DownHeap

\* The root of a heap is its greatest value: of the places with a greater one, the
\* first would have a parent with a greater one still.
LEMMA RootIsGreatest ==
  ASSUME NEW h \in Seq(Int), Heap(h), NEW y \in 0 .. (Len(h) - 1)
  PROVE  At(h, 0) >= At(h, y)
<1> DEFINE n == Len(h)
           S == {x \in 0 .. (n - 1) : ~(At(h, 0) >= At(h, x))}
<1>1. n \in Nat /\ \A x \in 0 .. (n - 1) : At(h, x) \in Int
  BY Elements
<1>2. S \in SUBSET Nat
  BY <1>1
<1>3. SUFFICES ASSUME S # {} PROVE FALSE
  BY <1>3
<1> HIDE DEF n
<1>4. PICK m \in S : \A x \in S : m <= x
  <2> HIDE DEF S
  <2>1. QED
    BY <1>2, <1>3, LeastNumber
<1>5. m \in 0 .. (n - 1) /\ 0 \in 0 .. (n - 1) /\ At(h, m) \in Int /\ At(h, 0) \in Int
  BY <1>1
<1>6. m \in 1 .. (n - 1)
  BY <1>1, <1>5
<1>7. Parent(m) \in 0 .. (n - 1) /\ Parent(m) < m
  BY <1>1, <1>6, ParentsInHeap
<1>8. At(h, Parent(m)) >= At(h, m)
  BY <1>6 DEF Heap, n
<1>9. Parent(m) \notin S
  BY <1>4, <1>5, <1>7
<1>10. At(h, 0) >= At(h, Parent(m)) /\ At(h, Parent(m)) \in Int
  BY <1>1, <1>7, <1>9
<1>11. At(h, 0) >= At(h, m)
  BY <1>5, <1>8, <1>10
<1>12. QED
  BY <1>4, <1>11

\* A value appended is one occurrence more.
LEMMA AppendCounts ==
  ASSUME NEW a \in Seq(Int), NEW w \in Int, NEW v
  PROVE  Count(Append(a, w), v) = Count(a, v) + One(w, v)
<1> DEFINE b == <<w>>
<1>1. b \in Seq(Int) /\ Len(b) = 1 /\ b[1] = w
  OBVIOUS
<1>2. Append(a, w) = a \o b
  OBVIOUS
<1> HIDE DEF b
<1>3. Count(a \o b, v) = Count(a, v) + Count(b, v)
  BY <1>1, CountConcat
<1>4. Count(b, v) = One(w, v)
  <2>1. Occ(b, 1, 1, v) = IF b[1] = v THEN 1 ELSE 0
    BY OccOne
  <2>2. QED
    BY <1>1, <2>1 DEF Count, One
<1>5. QED
  BY <1>2, <1>3, <1>4

\* The last element in place of the first.
LEMMA RemoveRoot ==
  ASSUME NEW h \in Seq(Int), h # <<>>, NEW g, g = Front([h EXCEPT ![1] = Last(h)])
  PROVE  /\ g \in Seq(Int) /\ Len(g) = Len(h) - 1 /\ Len(h) \in Nat \ {0}
         /\ \A x \in 0 .. (Len(h) - 2) : At(g, x) = IF x = 0 THEN At(h, Len(h) - 1) ELSE At(h, x)
         /\ At(h, 0) \in Int
         /\ \A v : Count(g, v) + One(At(h, 0), v) = Count(h, v)
<1> DEFINE n == Len(h)
           w == h[n]
           b == [h EXCEPT ![1] = w]
           last == n - 1
<1>1. n \in Nat \ {0} /\ 1 \in 1 .. n /\ n \in 1 .. n /\ last \in Nat /\ n = last + 1
      /\ last \in 0 .. n /\ last <= n /\ 1 <= last + 1
  BY EmptySeq, LenProperties
<1>2. w \in Int /\ h[1] \in Int
  <2> HIDE DEF n
  <2>1. n \in 1 .. Len(h) /\ 1 \in 1 .. Len(h)
    BY <1>1 DEF n
  <2>2. QED
    BY <2>1
<1>3. Last(h) = w
  BY DEF Last
<1> HIDE DEF w
<1>4. Written(h, b, 1, w)
  BY <1>1, <1>2, WriteOne
<1> HIDE DEF b
<1>5. b \in Seq(Int) /\ Len(b) = n /\ \A x \in 1 .. n : b[x] = IF x = 1 THEN w ELSE h[x]
  BY <1>4 DEF Written
<1>6. g = Slice(b, 0, last)
  <2>1. g = Front(b)
    BY <1>3 DEF b
  <2>2. 0 + 1 = 1
    OBVIOUS
  <2>3. QED
    BY <1>5, <2>1, <2>2 DEF Front, Slice
<1> HIDE DEF n, last
<1>7. /\ g \in Seq(Int) /\ Len(g) = last - 0
      /\ \A x \in 1 .. (last - 0) : g[x] = b[0 + x]
      /\ \A v : Count(g, v) = Occ(b, 0 + 1, last, v)
  <2> DEFINE zero == 0
  <2>1. zero \in 0 .. Len(b)
    BY <1>1, <1>5
  <2>2. last \in zero .. Len(b)
    BY <1>1, <1>5
  <2>3. b \in Seq(Int)
    BY <1>5
  <2>4. g = Slice(b, zero, last)
    BY <1>6
  <2> HIDE DEF zero
  <2>5. /\ Slice(b, zero, last) \in Seq(Int) /\ Len(Slice(b, zero, last)) = last - zero
        /\ \A x \in 1 .. (last - zero) : Slice(b, zero, last)[x] = b[zero + x]
        /\ \A v : Count(Slice(b, zero, last), v) = Occ(b, zero + 1, last, v)
    BY <2>1, <2>2, <2>3, SliceType, Zenon
  <2>6. QED
    BY <2>4, <2>5 DEF zero
<1>8. ASSUME NEW x \in 0 .. (n - 2)
      PROVE  At(g, x) = IF x = 0 THEN At(h, n - 1) ELSE At(h, x)
  <2>1. /\ x + 1 \in 1 .. (last - 0) /\ 0 + (x + 1) = x + 1 /\ x + 1 \in 1 .. n
        /\ (x + 1 = 1 <=> x = 0) /\ (n - 1) + 1 = n
    BY <1>1
  <2>2. g[x + 1] = IF x = 0 THEN w ELSE h[x + 1]
    BY <1>5, <1>7, <2>1
  <2>3. QED
    BY <2>1, <2>2 DEF At, w
<1>9. ASSUME NEW v PROVE Count(g, v) + One(h[1], v) = Count(h, v)
  <2>1. Count(b, v) + One(h[1], v) = Count(h, v) + One(w, v)
    <3>1. 1 \in 1 .. Len(h)
      BY <1>1 DEF n
    <3>2. QED
      BY <1>2, <1>4, <1>5, <3>1, WriteCounts
  <2>2. Occ(b, 1, n, v) = Occ(b, 1, last, v) + Occ(b, n, n, v)
    <3>1. 1 \in Int /\ n \in Int /\ last \in Int
      BY <1>1
    <3>2. Occ(b, 1, n, v) = Occ(b, 1, last, v) + Occ(b, last + 1, n, v)
      BY <1>1, <3>1, OccSplit
    <3>3. QED
      BY <1>1, <3>2
  <2>3. Occ(b, n, n, v) = One(w, v)
    <3>1. n \in Int /\ b[n] = w
      BY <1>1, <1>5 DEF w
    <3>2. Occ(b, n, n, v) = IF b[n] = v THEN 1 ELSE 0
      BY <3>1, OccOne
    <3>3. QED
      BY <3>1, <3>2 DEF One
  <2>4. Count(b, v) = Occ(b, 1, n, v) /\ Count(g, v) = Occ(b, 1, last, v)
    <3>1. 0 + 1 = 1
      OBVIOUS
    <3>2. QED
      BY <1>5, <1>7, <3>1 DEF Count
  <2>5. Count(g, v) \in Nat /\ Count(h, v) \in Nat /\ One(w, v) \in Nat /\ One(h[1], v) \in Nat
    <3>1. 1 \in Int /\ last \in Int /\ n \in Int
      BY <1>1
    <3>2. Count(g, v) \in Nat
      BY <2>4, <3>1, OccType
    <3>3. Count(h, v) \in Nat
      BY <3>1, OccType DEF Count, n
    <3>4. QED
      BY <3>2, <3>3 DEF One
  <2>6. QED
    BY <2>1, <2>2, <2>3, <2>4, <2>5
<1>10. At(h, 0) = h[1]
  <2>1. 0 + 1 = 1
    OBVIOUS
  <2>2. QED
    BY <2>1 DEF At
<1>11. Len(g) = n - 1
  BY <1>1, <1>7
<1>12. QED
  BY <1>1, <1>2, <1>7, <1>8, <1>9, <1>10, <1>11 DEF n

\* How Largest chooses: the greater value, the earlier place of equal ones.
Beats(h, x, y) == At(h, x) > At(h, y) \/ (At(h, x) = At(h, y) /\ x <= y)
HasBest(h, S) == \E x \in S : \A y \in S : Beats(h, x, y)
IntsAt(h, S) == \A x \in S : x \in Int /\ At(h, x) \in Int

\* Of one more, one is still the best.
LEMMA BestOfMore ==
  ASSUME NEW h, NEW S, IntsAt(h, S), HasBest(h, S), NEW z, IntsAt(h, {z})
  PROVE  HasBest(h, S \cup {z}) /\ IntsAt(h, S \cup {z})
<1>1. PICK x \in S : \A y \in S : Beats(h, x, y)
  BY DEF HasBest
<1>2. x \in Int /\ z \in Int /\ At(h, x) \in Int /\ At(h, z) \in Int
  BY DEF IntsAt
<1>3. CASE Beats(h, x, z)
  BY <1>1, <1>3 DEF HasBest, IntsAt
<1>4. CASE ~Beats(h, x, z)
  <2>1. Beats(h, z, x) /\ Beats(h, z, z)
    BY <1>2, <1>4 DEF Beats
  <2>2. ASSUME NEW y \in S PROVE Beats(h, z, y)
    <3>1. y \in Int /\ At(h, y) \in Int /\ Beats(h, x, y)
      BY <1>1 DEF IntsAt
    <3>2. QED
      BY <1>2, <2>1, <3>1 DEF Beats
  <2>3. QED
    BY <2>1, <2>2 DEF HasBest, IntsAt
<1>5. QED
  BY <1>3, <1>4

\* Largest, a CHOOSE, is a node or one of its children, and no less than any.
LEMMA LargestOfFamily ==
  ASSUME NEW h \in Seq(Int), NEW at \in 0 .. (Len(h) - 1),
         NEW l, l = Largest(h, at, Len(h))
  PROVE  /\ l = at \/ (l \in 1 .. (Len(h) - 1) /\ Parent(l) = at)
         /\ At(h, l) >= At(h, at)
         /\ \A x \in 1 .. (Len(h) - 1) : Parent(x) = at => At(h, l) >= At(h, x)
<1> DEFINE n == Len(h)
           D == 0 .. (n - 1)
           a == 2 * at + 1
           b == 2 * at + 2
           family == {at} \cup ({a, b} \cap D)
<1>1. n \in Nat /\ \A x \in D : At(h, x) \in Int
  BY Elements
<1>2. at \in Int /\ a \in Int /\ b \in Int /\ 1 <= a /\ 1 <= b /\ D \in SUBSET Int /\ at \in D
  BY <1>1
<1>3. Largest(h, at, n) = CHOOSE x \in family : \A y \in family : Beats(h, x, y)
  BY DEF Largest, Beats
<1>4. HasBest(h, family)
  <2> DEFINE here == {at}
  <2>1. IntsAt(h, here) /\ HasBest(h, here) /\ (a \in D => IntsAt(h, {a})) /\ (b \in D => IntsAt(h, {b}))
    BY <1>1, <1>2 DEF Beats, HasBest, IntsAt
  <2> HIDE DEF D, a, b, n, here
  <2>2. CASE a \in D /\ b \in D
    <3> DEFINE S == here \cup {a}
    <3>1. HasBest(h, S) /\ IntsAt(h, S)
      BY <2>1, <2>2, BestOfMore
    <3>2. family = S \cup {b}
      BY <2>2 DEF here
    <3> HIDE DEF S, family
    <3>3. HasBest(h, S \cup {b})
      BY <2>1, <2>2, <3>1, BestOfMore
    <3>4. QED
      BY <3>2, <3>3
  <2>3. CASE a \in D /\ b \notin D
    <3>1. HasBest(h, here \cup {a})
      BY <2>1, <2>3, BestOfMore
    <3>2. family = here \cup {a}
      BY <2>3 DEF here
    <3>3. QED
      BY <3>1, <3>2
  <2>4. CASE a \notin D /\ b \in D
    <3>1. HasBest(h, here \cup {b})
      BY <2>1, <2>4, BestOfMore
    <3>2. family = here \cup {b}
      BY <2>4 DEF here
    <3>3. QED
      BY <3>1, <3>2
  <2>5. CASE a \notin D /\ b \notin D
    <3>1. family = here
      BY <2>5 DEF here
    <3>2. QED
      BY <2>1, <3>1
  <2>6. QED
    BY <2>2, <2>3, <2>4, <2>5
<1>5. l \in family /\ \A y \in family : Beats(h, l, y)
  <2> HIDE DEF family
  <2>1. QED
    BY <1>3, <1>4 DEF HasBest
<1>6. \A y \in family : y \in D /\ At(h, y) \in Int
  BY <1>1, <1>2
<1>7. \A y \in family : At(h, l) >= At(h, y)
  <2> HIDE DEF family
  <2>1. QED
    BY <1>5, <1>6 DEF Beats
<1>8. ASSUME NEW x \in 1 .. (n - 1), Parent(x) = at PROVE x \in family
  <2>1. x \in {a, b} /\ x \in D
    BY <1>1, <1>2, <1>8, Parents
  <2>2. QED
    BY <2>1
<1>9. l = at \/ (l \in 1 .. (n - 1) /\ Parent(l) = at)
  <2>1. CASE l = at
    BY <2>1
  <2>2. CASE l \in {a, b} /\ l \in D
    <3>1. l \in Int /\ l \in 1 .. (n - 1)
      BY <1>1, <1>2, <2>2
    <3>2. Parent(l) = at
      BY <1>2, <2>2, <3>1, Parents
    <3>3. QED
      BY <3>1, <3>2
  <2>3. QED
    BY <1>5, <2>1, <2>2
<1>10. QED
  BY <1>7, <1>8, <1>9

-------------------------------------------------------------------------------
(* The invariant, and what each step does to it. *)

\* One of the two heap generators on any array.
HeapInit ==
  /\ algo \in {"heapInsert", "heapExtract"} /\ pc = "start"
  /\ values \in Seq(Int)
  /\ StructureIdle

\* A heap as far as the nodes from first on go.
HeapFrom(h, first) ==
  \A x \in 1 .. (Len(h) - 1) : Parent(x) >= first => At(h, Parent(x)) >= At(h, x)

\* What is extracted descends, and nothing left in the heap is greater.
Descending(e) == \A x, y \in 1 .. Len(e) : x < y => e[x] >= e[y]
Under(h, e) == \A x \in 1 .. Len(e), y \in 0 .. (Len(h) - 1) : At(h, y) <= e[x]
\* h has the first n values of a; h and e have those of a between them.
HasFirst(h, n, a) == \A v : Count(h, v) = Occ(a, 1, n, v)
Parted(h, e, a) == \A v : Count(h, v) + Count(e, v) = Count(a, v)

\* Insertion: the values taken so far are in the heap, the last perhaps on its way up.
InsertInv ==
  /\ pc \in {"start", "insert", "siftUp", "done"}
  /\ pc # "start" => next <= Len(values) /\ Len(heap) = next /\ HasFirst(heap, next, values)
  /\ pc \in {"insert", "done"} => Heap(heap)
  /\ pc = "siftUp" => index \in 1 .. (Len(heap) - 1) /\ UpHeap(heap, index)

\* Extraction: the values are in the heap or extracted. While the heap is built,
\* its lower part is one, but for a value on its way down; so it is afterwards,
\* from the root.
ExtractInv ==
  /\ pc \in {"start", "build", "extract", "siftDown", "done"}
  /\ pc # "start" =>
       Parted(heap, extracted, values) /\ Descending(extracted) /\ Under(heap, extracted)
  /\ pc \in {"start", "build"} => extracted = <<>>
  /\ pc = "build" =>
       /\ 2 * next <= Len(heap)
       /\ next = 0 => Heap(heap)
       /\ next > 0 => /\ index \in (next - 1) .. (Len(heap) - 1)
                      /\ DownHeap(heap, next - 1, index)
  /\ pc \in {"extract", "done"} => Heap(heap)
  /\ pc = "siftDown" => index \in 0 .. (Len(heap) - 1) /\ DownHeap(heap, 0, index)
  /\ pc = "done" => heap = <<>>

\* The inductive invariant.
HeapInv ==
  /\ algo \in {"heapInsert", "heapExtract"}
  /\ values \in Seq(Int) /\ heap \in Seq(Int) /\ extracted \in Seq(Int)
  /\ next \in Nat /\ index \in Int
  /\ algo = "heapInsert" => InsertInv
  /\ algo = "heapExtract" => ExtractInv

\* Down at a node that is its family's largest: there is nothing left to do.
LEMMA SiftedDown ==
  ASSUME NEW h \in Seq(Int), NEW first \in Nat, NEW at \in first .. (Len(h) - 1),
         DownHeap(h, first, at), Largest(h, at, Len(h)) = at
  PROVE  HeapFrom(h, first)
<1> DEFINE n == Len(h)
<1>1. n \in Nat /\ at \in 0 .. (n - 1)
  BY LenProperties
<1>2. \A x \in 1 .. (n - 1) : Parent(x) = at => At(h, at) >= At(h, x)
  <2>1. at \in 0 .. (Len(h) - 1)
    BY <1>1
  <2> DEFINE l == Largest(h, at, Len(h))
  <2>2. \A x \in 1 .. (Len(h) - 1) : Parent(x) = at => At(h, l) >= At(h, x)
    <3> HIDE DEF l
    <3>1. l = Largest(h, at, Len(h))
      BY DEF l
    <3>2. QED
      BY <2>1, <3>1, LargestOfFamily
  <2>3. QED
    BY <2>2
<1>3. ASSUME NEW x \in 1 .. (n - 1), Parent(x) >= first PROVE At(h, Parent(x)) >= At(h, x)
  <2>1. CASE Parent(x) = at
    BY <1>2, <2>1
  <2>2. CASE Parent(x) # at
    BY <1>3, <2>2 DEF DownHeap
  <2>3. QED
    BY <2>1, <2>2
<1>4. QED
  BY <1>3 DEF HeapFrom

\* An exchange brings no new value.
LEMMA ExchangeKeepsUnder ==
  ASSUME NEW h \in Seq(Int), NEW p \in 0 .. (Len(h) - 1), NEW q \in 0 .. (Len(h) - 1),
         NEW g, ExchangedAt(h, g, p, q), NEW e, Under(h, e)
  PROVE  Under(g, e)
<1>1. ASSUME NEW x \in 1 .. Len(e), NEW y \in 0 .. (Len(h) - 1) PROVE At(g, y) <= e[x]
  <2>1. PICK z \in 0 .. (Len(h) - 1) : At(g, y) = At(h, z)
    BY DEF ExchangedAt
  <2>2. At(h, z) <= e[x]
    BY DEF Under
  <2>3. QED
    BY <2>1, <2>2
<1>2. Len(g) = Len(h)
  BY DEF ExchangedAt
<1>3. QED
  BY <1>1, <1>2 DEF Under

\* One exchange on the way down.
LEMMA SiftingDown ==
  ASSUME NEW h \in Seq(Int), NEW first \in Nat, NEW at \in first .. (Len(h) - 1),
         DownHeap(h, first, at), NEW l, l = Largest(h, at, Len(h)), l # at,
         NEW g, g = Swapped(h, at, l), NEW e, Under(h, e)
  PROVE  /\ g \in Seq(Int) /\ Len(g) = Len(h) /\ \A v : Count(g, v) = Count(h, v)
         /\ l \in first .. (Len(h) - 1)
         /\ DownHeap(g, first, l) /\ Under(g, e)
<1>1. Len(h) \in Nat /\ at \in 0 .. (Len(h) - 1)
  BY LenProperties
<1>2. /\ l \in 1 .. (Len(h) - 1) /\ Parent(l) = at
      /\ At(h, l) >= At(h, at)
      /\ \A x \in 1 .. (Len(h) - 1) : Parent(x) = at => At(h, l) >= At(h, x)
  BY <1>1, LargestOfFamily
<1>3. l \in 0 .. (Len(h) - 1)
  BY <1>2
<1>4. ExchangedAt(h, g, at, l) /\ \A v : Count(g, v) = Count(h, v)
  BY <1>1, <1>3, SwapExchanges
<1>5. DownHeap(g, first, l)
  BY <1>2, <1>4, DownOneLevel
<1>6. Under(g, e)
  BY <1>1, <1>3, <1>4, ExchangeKeepsUnder
<1>7. Parent(l) < l
  BY <1>1, <1>2, ParentsInHeap
<1>8. l \in first .. (Len(h) - 1)
  BY <1>1, <1>2, <1>7
<1>9. QED
  BY <1>4, <1>5, <1>6, <1>8 DEF ExchangedAt

LEMMA HeapFromRoot ==
  ASSUME NEW h \in Seq(Int)
  PROVE  Heap(h) <=> HeapFrom(h, 0)
<1>1. \A x \in 1 .. (Len(h) - 1) : Parent(x) >= 0
  <2>1. Len(h) \in Nat
    BY LenProperties
  <2>2. QED
    BY <2>1, ParentsInHeap
<1>2. QED
  BY <1>1 DEF Heap, HeapFrom

\* A heap from the next node on is nearly one from this node on.
LEMMA NextNode ==
  ASSUME NEW h \in Seq(Int), NEW f \in Nat, HeapFrom(h, f + 1)
  PROVE  DownHeap(h, f, f)
<1>1. Len(h) \in Nat
  BY LenProperties
<1>2. ASSUME NEW x \in 1 .. (Len(h) - 1), Parent(x) >= f, Parent(x) # f
      PROVE  At(h, Parent(x)) >= At(h, x)
  <2>1. Parent(x) \in 0 .. (Len(h) - 1)
    BY <1>1, ParentsInHeap
  <2>2. Parent(x) >= f + 1
    BY <1>2, <2>1
  <2>3. QED
    BY <2>2 DEF HeapFrom
<1>3. f # 0 => ~(Parent(f) >= f)
  <2>1. f # 0 => f \in Nat \ {0}
    OBVIOUS
  <2>2. f # 0 => Parent(f) \in Nat /\ Parent(f) < f
    BY <2>1, Parents
  <2>3. QED
    BY <2>2
<1>4. QED
  BY <1>2, <1>3 DEF DownHeap

\* Above the middle no node has children.
LEMMA NoParents ==
  ASSUME NEW h \in Seq(Int)
  PROVE  /\ HeapFrom(h, Len(h) \div 2)
         /\ Len(h) \div 2 \in Nat /\ 2 * (Len(h) \div 2) <= Len(h)
<1> DEFINE n == Len(h)
<1>1. n \in Nat
  BY LenProperties
<1> HIDE DEF n
<1>2. n \div 2 \in Nat /\ 2 * (n \div 2) <= n
  BY <1>1
<1>3. ASSUME NEW x \in 1 .. (n - 1) PROVE ~(Parent(x) >= n \div 2)
  BY <1>1, <1>3 DEF Parent
<1>4. QED
  BY <1>2, <1>3 DEF HeapFrom, n

LEMMA HeapInvInit == HeapInit => HeapInv
<1> SUFFICES ASSUME HeapInit PROVE HeapInv
  OBVIOUS
<1>1. <<>> \in Seq(Int)
  OBVIOUS
<1>2. QED
  BY <1>1 DEF HeapInit, HeapInv, StructureIdle, InsertInv, ExtractInv

LEMMA NothingYet ==
  /\ <<>> \in Seq(Int) /\ Len(<<>>) = 0
  /\ \A v : Count(<<>>, v) = 0
  /\ \A a, v : Occ(a, 1, 0, v) = 0
<1>1. \A a, v : Occ(a, 1, 0, v) = 0
  <2>1. 0 \in Int /\ 1 \in Int /\ 0 < 1
    OBVIOUS
  <2>2. QED
    BY <2>1, OccNone
<1>2. Len(<<>>) = 0 /\ <<>> \in Seq(Int)
  OBVIOUS
<1>3. QED
  BY <1>1, <1>2 DEF Count

\* What is to be built starts in the middle, above which no node has children.
LEMMA StartHeapKeeps ==
  ASSUME HeapInv, StartHeap
  PROVE  HeapInv'
<1>1. /\ algo' = algo /\ values' = values /\ extracted' = extracted
      /\ algo \in {"heapInsert", "heapExtract"} /\ values \in Seq(Int) /\ extracted \in Seq(Int)
      /\ pc = "start"
  BY DEF StartHeap, HeapInv
<1>2. CASE algo = "heapInsert"
  <2>1. heap' = <<>> /\ next' = 0 /\ index' = 0 /\ pc' = "insert"
    BY <1>2 DEF StartHeap
  <2>2. HasFirst(heap', next', values') /\ Len(heap') = 0
    BY <2>1, NothingYet DEF HasFirst
  <2>3. Heap(heap')
    BY <2>2 DEF Heap
  <2>4. Len(values) \in Nat
    BY <1>1, LenProperties
  <2>5. InsertInv'
    BY <1>1, <2>1, <2>2, <2>3, <2>4 DEF InsertInv
  <2>6. QED
    BY <1>1, <1>2, <2>1, <2>5, NothingYet DEF HeapInv
<1>3. CASE algo = "heapExtract"
  <2> DEFINE n == Len(values)
             middle == n \div 2
  <2>1. heap' = values /\ next' = middle /\ index' = middle - 1 /\ pc' = "build"
    BY <1>3 DEF StartHeap
  <2>2. extracted = <<>>
    BY <1>1, <1>3 DEF HeapInv, ExtractInv
  <2>3. n \in Nat /\ middle \in Nat /\ 2 * middle <= n /\ HeapFrom(values, middle)
    BY <1>1, NoParents, LenProperties
  <2>4. \A v : Count(values, v) \in Nat
    <3>1. 1 \in Int /\ Len(values) \in Int
      BY <2>3
    <3>2. QED
      BY <3>1, OccType DEF Count
  <2> HIDE DEF middle, n
  <2>5. Parted(heap', extracted', values')
    BY <1>1, <2>1, <2>2, <2>4, NothingYet DEF Parted
  <2>6. Descending(extracted') /\ Under(heap', extracted')
    <3>1. Len(extracted') = 0
      BY <1>1, <2>2, NothingYet
    <3>2. QED
      BY <3>1 DEF Descending, Under
  <2>7. middle = 0 => Heap(values)
    BY <1>1, <2>3, HeapFromRoot
  <2>8. middle > 0 => /\ middle - 1 \in (middle - 1) .. (n - 1)
                      /\ DownHeap(values, middle - 1, middle - 1)
    <3> SUFFICES ASSUME middle > 0
                 PROVE  middle - 1 \in (middle - 1) .. (n - 1) /\ DownHeap(values, middle - 1, middle - 1)
      OBVIOUS
    <3> DEFINE f == middle - 1
    <3>1. f \in Nat /\ f + 1 = middle /\ f \in f .. (n - 1)
      BY <2>3
    <3> HIDE DEF f
    <3>2. DownHeap(values, f, f)
      BY <1>1, <2>3, <3>1, NextNode
    <3>3. QED
      BY <3>1, <3>2 DEF f
  <2>9. ExtractInv'
    BY <1>1, <2>1, <2>2, <2>3, <2>5, <2>6, <2>7, <2>8 DEF ExtractInv, n
  <2>10. QED
    BY <1>1, <1>3, <2>1, <2>3, <2>9 DEF HeapInv
<1>4. QED
  BY <1>1, <1>2, <1>3

LEMMA AppendParts ==
  ASSUME NEW h \in Seq(Int), NEW w \in Int
  PROVE  /\ Append(h, w) \in Seq(Int) /\ Len(Append(h, w)) = Len(h) + 1 /\ Len(h) \in Nat
         /\ \A x \in 1 .. (Len(h) + 1) : Append(h, w)[x] = IF x <= Len(h) THEN h[x] ELSE w
<1>1. Len(h) \in Nat
  BY LenProperties
<1>2. Append(h, w) \in Seq(Int) /\ Len(Append(h, w)) = Len(h) + 1
  BY AppendProperties
<1>3. ASSUME NEW x \in 1 .. (Len(h) + 1)
      PROVE  Append(h, w)[x] = IF x <= Len(h) THEN h[x] ELSE w
  <2>1. CASE x <= Len(h)
    <3>1. x \in 1 .. Len(h)
      BY <1>1, <2>1
    <3>2. QED
      BY <2>1, <3>1, AppendProperties
  <2>2. CASE ~(x <= Len(h))
    <3>1. x = Len(h) + 1
      BY <1>1, <2>2
    <3>2. QED
      BY <2>2, <3>1, AppendProperties
  <2>3. QED
    BY <2>1, <2>2
<1>4. QED
  BY <1>1, <1>2, <1>3

\* A value appended to a heap is alone in being, perhaps, too great.
LEMMA AppendLast ==
  ASSUME NEW h \in Seq(Int), Heap(h), NEW w \in Int
  PROVE  /\ Len(h) = 0 => Heap(Append(h, w))
         /\ UpHeap(Append(h, w), Len(h))
<1> DEFINE n == Len(h)
           g == Append(h, w)
<1>1. n \in Nat /\ Len(g) = n + 1 /\ \A x \in 1 .. (n + 1) : g[x] = IF x <= n THEN h[x] ELSE w
  BY AppendParts
<1> HIDE DEF n, g
<1>2. ASSUME NEW x \in 0 .. (n - 1) PROVE At(g, x) = At(h, x)
  <2>1. x + 1 \in 1 .. (n + 1) /\ x + 1 <= n
    BY <1>1
  <2>2. QED
    BY <1>1, <2>1 DEF At
<1>3. ASSUME NEW x \in 1 .. n, x # n PROVE At(g, Parent(x)) >= At(g, x)
  <2>1. x \in 1 .. (n - 1)
    BY <1>1, <1>3
  <2>2. Parent(x) \in 0 .. (n - 1) /\ x \in 0 .. (n - 1)
    BY <1>1, <2>1, ParentsInHeap
  <2>3. At(h, Parent(x)) >= At(h, x)
    BY <2>1 DEF Heap, n
  <2>4. QED
    BY <1>2, <2>2, <2>3
<1>4. ASSUME NEW x \in 1 .. n PROVE Parent(x) # n
  <2>1. x \in Nat \ {0}
    BY <1>1
  <2>2. Parent(x) < x /\ Parent(x) \in Nat
    BY <2>1, Parents
  <2>3. QED
    BY <1>1, <2>2
<1>5. (Len(g) - 1) = n
  BY <1>1
<1>6. UpHeap(g, n)
  BY <1>3, <1>4, <1>5 DEF UpHeap
<1>7. n = 0 => Heap(g)
  <2>1. n = 0 => (1 .. n) = {}
    OBVIOUS
  <2>2. QED
    BY <1>5, <2>1 DEF Heap
<1>8. QED
  BY <1>6, <1>7 DEF n, g

LEMMA HeapInsertKeeps ==
  ASSUME HeapInv, HeapInsert
  PROVE  HeapInv'
<1>1. /\ algo' = algo /\ values' = values /\ extracted' = extracted
      /\ algo = "heapInsert" /\ values \in Seq(Int) /\ extracted \in Seq(Int)
      /\ heap \in Seq(Int) /\ next \in Nat /\ index \in Int
      /\ pc = "insert"
  BY DEF HeapInsert, HeapInv
<1>2. /\ next <= Len(values) /\ Len(heap) = next /\ HasFirst(heap, next, values)
      /\ Heap(heap)
  BY <1>1 DEF HeapInv, InsertInv
<1>3. CASE next < Len(values)
  <2> DEFINE w == values[next + 1]
  <2>1. /\ heap' = Append(heap, w) /\ index' = next /\ next' = next + 1
        /\ pc' = IF heap = <<>> THEN "insert" ELSE "siftUp"
    BY <1>2, <1>3 DEF HeapInsert, At
  <2>2. next + 1 \in 1 .. Len(values) /\ Len(values) \in Nat /\ next + 1 <= Len(values)
    BY <1>1, <1>3, LenProperties
  <2>3. w \in Int
    BY <1>1, <2>2
  <2> HIDE DEF w
  <2>4. heap' \in Seq(Int) /\ Len(heap') = next'
    BY <1>1, <1>2, <2>1, <2>3, AppendParts
  <2>5. HasFirst(heap', next', values)
    <3>1. ASSUME NEW v PROVE Count(heap', v) = Occ(values, 1, next', v)
      <4>1. Count(heap', v) = Count(heap, v) + One(w, v)
        BY <1>1, <2>1, <2>3, AppendCounts
      <4>2. Count(heap, v) = Occ(values, 1, next, v)
        BY <1>2 DEF HasFirst
      <4> DEFINE m == next + 1
      <4>3. m \in Int /\ 1 \in Int /\ next \in Int /\ 1 <= next + 1 /\ next <= m
        BY <1>1
      <4>4. Occ(values, 1, m, v) = Occ(values, 1, next, v) + Occ(values, m, m, v)
        <5> HIDE DEF m
        <5>1. Occ(values, 1, m, v) = Occ(values, 1, next, v) + Occ(values, next + 1, m, v)
          BY <4>3, OccSplit
        <5>2. QED
          BY <5>1 DEF m
      <4>5. Occ(values, m, m, v) = One(w, v)
        <5>1. values[m] = w
          BY DEF w
        <5> HIDE DEF m
        <5>2. QED
          BY <4>3, <5>1, OccOne DEF One
      <4>6. QED
        BY <2>1, <4>1, <4>2, <4>4, <4>5
    <3>2. QED
      BY <3>1 DEF HasFirst
  <2>6. UpHeap(heap', index') /\ (heap = <<>> => Heap(heap'))
    BY <1>1, <1>2, <2>1, <2>3, AppendLast
  <2>7. heap # <<>> => index' \in 1 .. (Len(heap') - 1)
    BY <1>1, <1>2, <2>1, <2>4, EmptySeq, LenProperties
  <2>8. InsertInv'
    BY <1>1, <2>1, <2>2, <2>4, <2>5, <2>6, <2>7 DEF InsertInv
  <2>9. QED
    BY <1>1, <2>1, <2>4, <2>8 DEF HeapInv
<1>4. CASE ~(next < Len(values))
  <2>1. pc' = "done" /\ heap' = heap /\ index' = index /\ next' = next
    BY <1>4 DEF HeapInsert, Finish
  <2>2. InsertInv'
    BY <1>1, <1>2, <2>1 DEF InsertInv
  <2>3. QED
    BY <1>1, <2>1, <2>2 DEF HeapInv
<1>5. QED
  BY <1>3, <1>4

LEMMA SiftUpKeeps ==
  ASSUME HeapInv, SiftUp
  PROVE  HeapInv'
<1>1. /\ algo' = algo /\ values' = values /\ extracted' = extracted /\ next' = next
      /\ algo = "heapInsert" /\ values \in Seq(Int) /\ extracted \in Seq(Int)
      /\ heap \in Seq(Int) /\ next \in Nat /\ index \in Int
      /\ pc = "siftUp"
  BY DEF SiftUp, HeapInv, ExtractInv
<1>2. /\ next <= Len(values) /\ Len(heap) = next /\ HasFirst(heap, next, values)
      /\ index \in 1 .. (Len(heap) - 1) /\ UpHeap(heap, index)
  BY <1>1 DEF HeapInv, InsertInv
<1>3. /\ Parent(index) \in 0 .. (Len(heap) - 1) /\ Parent(index) < index
      /\ index \in 0 .. (Len(heap) - 1)
      /\ At(heap, index) \in Int /\ At(heap, Parent(index)) \in Int
  BY <1>1, <1>2, ParentsInHeap, Elements
<1>4. CASE At(heap, Parent(index)) >= At(heap, index)
  <2>1. pc' = "insert" /\ heap' = heap /\ index' = index
    BY <1>4 DEF SiftUp
  <2>2. Heap(heap)
    BY <1>2, <1>4 DEF UpHeap, Heap
  <2>3. InsertInv'
    BY <1>1, <1>2, <2>1, <2>2 DEF InsertInv
  <2>4. QED
    BY <1>1, <2>1, <2>3 DEF HeapInv
<1>5. CASE ~(At(heap, Parent(index)) >= At(heap, index))
  <2>1. /\ heap' = Swapped(heap, index, Parent(index)) /\ index' = Parent(index)
        /\ pc' = IF Parent(index) > 0 THEN "siftUp" ELSE "insert"
    BY <1>5 DEF SiftUp
  <2>2. ExchangedAt(heap, heap', index, Parent(index)) /\ \A v : Count(heap', v) = Count(heap, v)
    <3>1. index # Parent(index)
      BY <1>3
    <3> DEFINE p == Parent(index)
    <3>2. /\ p \in 0 .. (Len(heap) - 1) /\ index \in 0 .. (Len(heap) - 1) /\ index # p
          /\ heap' = Swapped(heap, index, p) /\ heap \in Seq(Int)
      BY <1>1, <1>3, <2>1, <3>1
    <3> HIDE DEF p
    <3>3. ExchangedAt(heap, heap', index, p) /\ \A v : Count(heap', v) = Count(heap, v)
      BY <3>2, SwapExchanges
    <3>4. QED
      BY <3>3 DEF p
  <2>3. At(heap, Parent(index)) < At(heap, index)
    BY <1>3, <1>5
  <2>4. UpHeap(heap', Parent(index)) /\ (Parent(index) = 0 => Heap(heap'))
    BY <1>1, <1>2, <2>2, <2>3, UpOneLevel
  <2>5. heap' \in Seq(Int) /\ Len(heap') = Len(heap)
    BY <2>2 DEF ExchangedAt
  <2>6. HasFirst(heap', next, values)
    BY <1>2, <2>2 DEF HasFirst
  <2>7. Parent(index) > 0 => Parent(index) \in 1 .. (Len(heap') - 1)
    BY <1>3, <2>5
  <2>8. Parent(index) > 0 \/ Parent(index) = 0
    BY <1>3
  <2>9. InsertInv'
    BY <1>1, <1>2, <2>1, <2>4, <2>5, <2>6, <2>7, <2>8 DEF InsertInv
  <2>10. QED
    BY <1>1, <1>3, <2>1, <2>5, <2>9 DEF HeapInv
<1>6. QED
  BY <1>4, <1>5

LEMMA CountTypes ==
  ASSUME NEW a \in Seq(Int)
  PROVE  \A v : Count(a, v) \in Nat
<1>1. 1 \in Int /\ Len(a) \in Int
  BY LenProperties
<1>2. QED
  BY <1>1, OccType DEF Count

LEMMA BuildHeapKeeps ==
  ASSUME HeapInv, BuildHeap
  PROVE  HeapInv'
<1>1. /\ algo' = algo /\ values' = values /\ extracted' = extracted
      /\ algo = "heapExtract" /\ values \in Seq(Int) /\ extracted \in Seq(Int)
      /\ heap \in Seq(Int) /\ next \in Nat /\ index \in Int
      /\ pc = "build"
  BY DEF BuildHeap, HeapInv, InsertInv
<1>2. /\ Parted(heap, extracted, values) /\ Descending(extracted) /\ Under(heap, extracted)
      /\ extracted = <<>> /\ 2 * next <= Len(heap)
      /\ next = 0 => Heap(heap)
      /\ next > 0 => index \in (next - 1) .. (Len(heap) - 1) /\ DownHeap(heap, next - 1, index)
  BY <1>1 DEF HeapInv, ExtractInv
<1>3. CASE next = 0
  <2>1. pc' = "extract" /\ heap' = heap /\ index' = index /\ next' = next
    BY <1>3 DEF BuildHeap
  <2>2. ExtractInv'
    BY <1>1, <1>2, <1>3, <2>1 DEF ExtractInv
  <2>3. QED
    BY <1>1, <2>1, <2>2 DEF HeapInv
<1>4. CASE next # 0
  <2> DEFINE f == next - 1
             l == Largest(heap, index, Len(heap))
  <2>1. f \in Nat /\ next = f + 1 /\ next > 0
    BY <1>1, <1>4
  <2>2. index \in f .. (Len(heap) - 1) /\ DownHeap(heap, f, index)
    BY <1>2, <2>1
  <2>3. CASE l = index
    <3>1. heap' = heap /\ next' = f /\ index' = next - 2 /\ pc' = "build"
      BY <1>1, <1>4, <2>3 DEF BuildHeap, SiftDown
    <3>2. HeapFrom(heap, f)
      <4> HIDE DEF f
      <4>1. QED
        BY <1>1, <2>1, <2>2, <2>3, SiftedDown DEF l
    <3>3. f = 0 => Heap(heap)
      BY <1>1, <3>2, HeapFromRoot
    <3>4. 2 * f <= Len(heap) /\ Len(heap) \in Nat
      BY <1>1, <1>2, <2>1, LenProperties
    <3>5. f > 0 => /\ index' \in (f - 1) .. (Len(heap) - 1)
                   /\ DownHeap(heap, f - 1, index')
      <4> SUFFICES ASSUME f > 0
                   PROVE  index' \in (f - 1) .. (Len(heap) - 1) /\ DownHeap(heap, f - 1, index')
        OBVIOUS
      <4> DEFINE e == f - 1
      <4>1. e \in Nat /\ f = e + 1 /\ index' = e /\ e \in e .. (Len(heap) - 1)
        BY <1>1, <2>1, <3>1, <3>4
      <4> HIDE DEF e, f
      <4>2. DownHeap(heap, e, e)
        BY <1>1, <3>2, <4>1, NextNode
      <4>3. QED
        BY <4>1, <4>2 DEF e
    <3> HIDE DEF f
    <3>6. ExtractInv'
      BY <1>1, <1>2, <3>1, <3>3, <3>4, <3>5 DEF ExtractInv
    <3>7. index' \in Int
      BY <1>1, <3>1
    <3>8. QED
      BY <1>1, <2>1, <3>1, <3>6, <3>7 DEF HeapInv
  <2>4. CASE l # index
    <3>1. heap' = Swapped(heap, index, l) /\ index' = l /\ next' = next /\ pc' = "build"
      BY <1>1, <1>4, <2>4 DEF BuildHeap, SiftDown
    <3>2. l = Largest(heap, index, Len(heap))
      OBVIOUS
    <3> HIDE DEF f, l
    <3>3. /\ heap' \in Seq(Int) /\ Len(heap') = Len(heap) /\ \A v : Count(heap', v) = Count(heap, v)
          /\ l \in f .. (Len(heap) - 1)
          /\ DownHeap(heap', f, l) /\ Under(heap', extracted)
      BY <1>1, <1>2, <2>1, <2>2, <2>4, <3>1, <3>2, SiftingDown
    <3>4. Parted(heap', extracted, values)
      BY <1>2, <3>3 DEF Parted
    <3>5. index' \in (next - 1) .. (Len(heap') - 1) /\ DownHeap(heap', next - 1, index')
      BY <3>1, <3>3 DEF f
    <3>6. l \in Int
      BY <2>1, <3>3
    <3>7. ExtractInv'
      BY <1>1, <1>2, <1>4, <3>1, <3>3, <3>4, <3>5 DEF ExtractInv
    <3>8. QED
      BY <1>1, <3>1, <3>3, <3>6, <3>7 DEF HeapInv
  <2>5. QED
    BY <2>3, <2>4
<1>5. QED
  BY <1>3, <1>4

LEMMA ExtractSiftKeeps ==
  ASSUME HeapInv, ExtractSift
  PROVE  HeapInv'
<1>1. /\ algo' = algo /\ values' = values /\ extracted' = extracted /\ next' = next
      /\ algo = "heapExtract" /\ values \in Seq(Int) /\ extracted \in Seq(Int)
      /\ heap \in Seq(Int) /\ next \in Nat /\ index \in Int
      /\ pc = "siftDown"
  BY DEF ExtractSift, SiftDown, HeapInv, InsertInv
<1>2. /\ Parted(heap, extracted, values) /\ Descending(extracted) /\ Under(heap, extracted)
      /\ index \in 0 .. (Len(heap) - 1) /\ DownHeap(heap, 0, index)
  BY <1>1 DEF HeapInv, ExtractInv
<1> DEFINE l == Largest(heap, index, Len(heap))
<1>3. CASE l = index
  <2>1. heap' = heap /\ index' = index /\ pc' = "extract"
    BY <1>3 DEF ExtractSift, SiftDown
  <2>2. HeapFrom(heap, 0)
    <3>1. 0 \in Nat
      OBVIOUS
    <3>2. QED
      BY <1>1, <1>2, <1>3, <3>1, SiftedDown DEF l
  <2>3. ExtractInv'
    BY <1>1, <1>2, <2>1, <2>2, HeapFromRoot DEF ExtractInv
  <2>4. QED
    BY <1>1, <2>1, <2>3 DEF HeapInv
<1>4. CASE l # index
  <2>1. heap' = Swapped(heap, index, l) /\ index' = l /\ pc' = "siftDown"
    BY <1>1, <1>4 DEF ExtractSift, SiftDown
  <2> DEFINE zero == 0
  <2>2. l = Largest(heap, index, Len(heap)) /\ zero \in Nat
        /\ index \in zero .. (Len(heap) - 1) /\ DownHeap(heap, zero, index)
    BY <1>2
  <2> HIDE DEF zero, l
  <2>3. /\ heap' \in Seq(Int) /\ Len(heap') = Len(heap) /\ \A v : Count(heap', v) = Count(heap, v)
        /\ l \in zero .. (Len(heap) - 1)
        /\ DownHeap(heap', zero, l) /\ Under(heap', extracted)
    BY <1>1, <1>2, <1>4, <2>1, <2>2, SiftingDown
  <2>4. Parted(heap', extracted, values)
    BY <1>2, <2>3 DEF Parted
  <2>5. index' \in 0 .. (Len(heap') - 1) /\ DownHeap(heap', 0, index')
    BY <2>1, <2>3 DEF zero
  <2>6. l \in Int
    BY <2>2, <2>3
  <2>7. ExtractInv'
    BY <1>1, <1>2, <2>1, <2>3, <2>4, <2>5 DEF ExtractInv
  <2>8. QED
    BY <1>1, <2>1, <2>3, <2>6, <2>7 DEF HeapInv
<1>5. QED
  BY <1>3, <1>4

\* The root goes to the values extracted, which are no less than it; the last value
\* takes its place, and is alone in being, perhaps, too small.
LEMMA ExtractKeeps ==
  ASSUME HeapInv, Extract
  PROVE  HeapInv'
<1>1. /\ algo' = algo /\ values' = values /\ next' = next
      /\ algo = "heapExtract" /\ values \in Seq(Int) /\ extracted \in Seq(Int)
      /\ heap \in Seq(Int) /\ next \in Nat /\ index \in Int
      /\ pc = "extract"
  BY DEF Extract, HeapInv, InsertInv
<1>2. /\ Parted(heap, extracted, values) /\ Descending(extracted) /\ Under(heap, extracted)
      /\ Heap(heap)
  BY <1>1 DEF HeapInv, ExtractInv
<1>3. CASE heap = <<>>
  <2>1. heap' = heap /\ index' = index /\ extracted' = extracted /\ pc' = "done"
    BY <1>3 DEF Extract, Finish
  <2>2. ExtractInv'
    BY <1>1, <1>2, <1>3, <2>1 DEF ExtractInv
  <2>3. QED
    BY <1>1, <2>1, <2>2 DEF HeapInv
<1>4. CASE heap # <<>>
  <2> DEFINE n == Len(heap)
             r == At(heap, 0)
             last == n - 1
             m == Len(extracted)
  <2>1. /\ extracted' = Append(extracted, r)
        /\ heap' = Front([heap EXCEPT ![1] = Last(heap)])
        /\ index' = 0
        /\ pc' = IF n > 1 THEN "siftDown" ELSE "extract"
    BY <1>1, <1>4 DEF Extract
  <2>2. /\ heap' \in Seq(Int) /\ Len(heap') = n - 1 /\ n \in Nat \ {0}
        /\ \A x \in 0 .. (n - 2) : At(heap', x) = IF x = 0 THEN At(heap, n - 1) ELSE At(heap, x)
        /\ r \in Int
        /\ \A v : Count(heap', v) + One(r, v) = Count(heap, v)
    BY <1>1, <1>4, <2>1, RemoveRoot
  <2>3. /\ extracted' \in Seq(Int) /\ Len(extracted') = m + 1 /\ m \in Nat
        /\ \A x \in 1 .. (m + 1) : extracted'[x] = IF x <= m THEN extracted[x] ELSE r
    <3> HIDE DEF r
    <3>1. QED
      BY <1>1, <2>1, <2>2, AppendParts
  <2>4. \A y \in 0 .. (n - 1) : At(heap, y) <= r /\ At(heap, y) \in Int
    <3>1. ASSUME NEW y \in 0 .. (n - 1) PROVE At(heap, y) <= r /\ At(heap, y) \in Int
      <4>1. r >= At(heap, y)
        BY <1>1, <1>2, RootIsGreatest
      <4>2. At(heap, y) \in Int
        BY <1>1, Elements
      <4>3. QED
        BY <2>2, <4>1, <4>2
    <3>2. QED
      BY <3>1
  <2> HIDE DEF n, r, m
  <2>5. 0 \in 0 .. (n - 1) /\ n - 1 \in 0 .. (n - 1) /\ Len(heap') - 1 = n - 2
    BY <2>2
  <2>6. ASSUME NEW x \in 1 .. m, NEW y \in 0 .. (n - 1)
        PROVE  At(heap, y) <= extracted[x]
    BY <1>2 DEF Under, n, m
  <2>7. \A x \in 1 .. m : r <= extracted[x]
    BY <2>5, <2>6 DEF r
  <2>8. Descending(extracted')
    <3>1. ASSUME NEW x \in 1 .. (m + 1), NEW y \in 1 .. (m + 1), x < y
          PROVE  extracted'[x] >= extracted'[y]
      <4>1. x \in 1 .. m /\ x <= m
        BY <2>3, <3>1
      <4>2. extracted[x] \in Int
        BY <1>1, <4>1 DEF m
      <4>3. extracted'[x] = extracted[x]
        BY <2>3, <4>1
      <4>4. CASE y <= m
        <5>1. y \in 1 .. m /\ extracted'[y] = extracted[y]
          BY <2>3, <4>4
        <5>2. extracted[x] >= extracted[y]
          BY <1>2, <3>1, <4>1, <5>1 DEF Descending, m
        <5>3. QED
          BY <4>3, <5>1, <5>2
      <4>5. CASE ~(y <= m)
        <5>1. extracted'[y] = r
          BY <2>3, <4>5
        <5>2. r <= extracted[x]
          BY <2>7, <4>1
        <5>3. QED
          BY <2>2, <4>2, <4>3, <5>1, <5>2
      <4>6. QED
        BY <4>4, <4>5
    <3>2. QED
      BY <2>3, <3>1 DEF Descending
  <2>9. Under(heap', extracted')
    <3>1. ASSUME NEW x \in 1 .. (m + 1), NEW y \in 0 .. (n - 2)
          PROVE  At(heap', y) <= extracted'[x]
      <4>1. PICK z \in 0 .. (n - 1) : At(heap', y) = At(heap, z)
        <5>1. y \in 0 .. (n - 1)
          BY <2>2
        <5>2. At(heap', y) = At(heap, n - 1) \/ At(heap', y) = At(heap, y)
          BY <2>2
        <5>3. QED
          BY <2>5, <5>1, <5>2
      <4>2. CASE x <= m
        <5>1. x \in 1 .. m /\ extracted'[x] = extracted[x]
          BY <2>3, <4>2
        <5>2. At(heap, z) <= extracted[x]
          BY <2>6, <5>1
        <5>3. QED
          BY <4>1, <5>1, <5>2
      <4>3. CASE ~(x <= m)
        <5>1. extracted'[x] = r
          BY <2>3, <4>3
        <5>2. QED
          BY <2>4, <4>1, <5>1
      <4>4. QED
        BY <4>2, <4>3
    <3>2. QED
      BY <2>3, <2>5, <3>1 DEF Under
  <2>10. Parted(heap', extracted', values)
    <3>1. ASSUME NEW v PROVE Count(heap', v) + Count(extracted', v) = Count(values, v)
      <4>1. Count(extracted', v) = Count(extracted, v) + One(r, v)
        BY <1>1, <2>1, <2>2, AppendCounts
      <4>2. Count(heap', v) + One(r, v) = Count(heap, v)
        BY <2>2
      <4>3. Count(heap, v) + Count(extracted, v) = Count(values, v)
        BY <1>2 DEF Parted
      <4>4. Count(heap', v) \in Nat /\ Count(extracted, v) \in Nat /\ One(r, v) \in Nat
        BY <1>1, <2>2, CountTypes DEF One
      <4>5. QED
        BY <4>1, <4>2, <4>3, <4>4
    <3>2. QED
      BY <3>1 DEF Parted
  <2>11. DownHeap(heap', 0, 0)
    <3>1. ASSUME NEW x \in 1 .. (n - 2), Parent(x) # 0
          PROVE  At(heap', Parent(x)) >= At(heap', x)
      <4>1. x \in 1 .. (n - 1) /\ x \in 0 .. (n - 2) /\ x # 0 /\ x \in Nat \ {0}
        BY <2>2
      <4>2. Parent(x) \in Nat /\ Parent(x) < x
        BY <4>1, Parents
      <4>3. Parent(x) \in 0 .. (n - 2)
        BY <2>2, <4>2
      <4>4. At(heap, Parent(x)) >= At(heap, x)
        BY <1>2, <4>1 DEF Heap, n
      <4>5. At(heap', Parent(x)) = At(heap, Parent(x)) /\ At(heap', x) = At(heap, x)
        BY <2>2, <3>1, <4>1, <4>3
      <4>6. QED
        BY <4>4, <4>5
    <3>2. QED
      BY <2>5, <3>1 DEF DownHeap
  <2>12. CASE n > 1
    <3>1. 0 \in 0 .. (Len(heap') - 1)
      BY <2>2, <2>12
    <3>2. ExtractInv'
      BY <1>1, <2>1, <2>8, <2>9, <2>10, <2>11, <2>12, <3>1 DEF ExtractInv
    <3>3. QED
      BY <1>1, <2>1, <2>2, <2>3, <3>2 DEF HeapInv
  <2>13. CASE ~(n > 1)
    <3>1. (1 .. (Len(heap') - 1)) = {}
      BY <2>2, <2>13
    <3>2. Heap(heap')
      BY <3>1 DEF Heap
    <3>3. ExtractInv'
      BY <1>1, <2>1, <2>8, <2>9, <2>10, <2>13, <3>2 DEF ExtractInv
    <3>4. QED
      BY <1>1, <2>1, <2>2, <2>3, <3>3 DEF HeapInv
  <2>14. QED
    BY <2>12, <2>13
<1>5. QED
  BY <1>3, <1>4

\* The trees' and the hash table's actions wait for other algorithms.
LEMMA OnlyHeapActions ==
  ASSUME HeapInv, StructureNext
  PROVE  StartHeap \/ HeapInsert \/ SiftUp \/ BuildHeap \/ Extract \/ ExtractSift
<1>1. algo \notin TreeAlgos /\ algo # "hashTable"
  BY DEF HeapInv, TreeAlgos
<1>2. pc \in {"start", "insert", "siftUp", "build", "extract", "siftDown", "done"}
  BY DEF HeapInv, InsertInv, ExtractInv
<1>3. ~StartTree /\ ~BstInsert /\ ~BstGrown /\ ~StartHash
  BY <1>1 DEF StartTree, BstInsert, BstGrown, StartHash
<1>4. ~WalkDown /\ ~WalkEmit /\ ~WalkEnd /\ ~BstSearch /\ ~HashNext /\ ~Probe
  BY <1>2 DEF WalkDown, WalkEmit, WalkEnd, BstSearch, HashNext, Probe
<1>5. QED
  BY <1>3, <1>4 DEF StructureNext

LEMMA ReverseOrdered ==
  ASSUME NEW e \in Seq(Int), Descending(e)
  PROVE  IsOrdered(Reverse(e))
<1> DEFINE n == Len(e)
           s == Reverse(e)
<1>1. n \in Nat
  BY LenProperties
<1>2. DOMAIN s = 1 .. n /\ \A x \in 1 .. n : s[x] = e[(n - x) + 1]
  BY DEF Reverse
<1>3. \A x \in 1 .. n : e[x] \in Int
  <2>1. QED
    OBVIOUS
<1> HIDE DEF n, s
<1>4. ASSUME NEW x \in 1 .. n, NEW y \in 1 .. n, x < y PROVE s[x] <= s[y]
  <2> DEFINE p == (n - y) + 1
             q == (n - x) + 1
  <2>1. p \in 1 .. n /\ q \in 1 .. n /\ p < q
    BY <1>1, <1>4
  <2>2. s[x] = e[q] /\ s[y] = e[p]
    BY <1>2
  <2> HIDE DEF p, q
  <2>3. e[p] >= e[q]
    BY <2>1 DEF Descending, n
  <2>4. e[p] \in Int /\ e[q] \in Int
    BY <1>3, <2>1
  <2>5. QED
    BY <2>2, <2>3, <2>4
<1>5. QED
  BY <1>2, <1>4 DEF IsOrdered, s

\* The two halves of HeapsStayOrdered.
LEMMA WhileInserting ==
  ASSUME HeapInv, algo = "heapInsert", pc # "start"
  PROVE  /\ SameValues(heap, SubSeq(values, 1, next))
         /\ Ordered(heap, IF pc = "siftUp" THEN {index} ELSE {})
<1>1. /\ values \in Seq(Int) /\ heap \in Seq(Int) /\ next \in Nat
      /\ next <= Len(values) /\ HasFirst(heap, next, values)
      /\ pc \in {"insert", "siftUp", "done"}
      /\ pc \in {"insert", "done"} => Heap(heap)
      /\ pc = "siftUp" => UpHeap(heap, index)
  BY DEF HeapInv, InsertInv
<1>2. SameValues(heap, SubSeq(values, 1, next))
  <2> DEFINE zero == 0
             s == Slice(values, zero, next)
  <2>1. zero \in 0 .. Len(values) /\ next \in zero .. Len(values)
    BY <1>1, LenProperties
  <2>2. s = SubSeq(values, 1, next) /\ zero + 1 = 1
    BY DEF Slice
  <2> HIDE DEF zero
  <2>3. s \in Seq(Int) /\ \A v : Count(s, v) = Occ(values, zero + 1, next, v)
    BY <1>1, <2>1, SliceType, Zenon
  <2>4. \A v : Count(heap, v) = Count(s, v)
    BY <1>1, <2>2, <2>3 DEF HasFirst
  <2> HIDE DEF s
  <2>5. SameValues(heap, s)
    BY <1>1, <2>3, <2>4, SameCounts
  <2>6. QED
    BY <2>2, <2>5
<1>3. CASE pc = "siftUp"
  <2>1. Ordered(heap, {index})
    BY <1>1, <1>3 DEF UpHeap, Ordered
  <2>2. QED
    BY <1>2, <1>3, <2>1
<1>4. CASE pc # "siftUp"
  <2>1. Ordered(heap, {})
    BY <1>1, <1>4 DEF Heap, Ordered
  <2>2. QED
    BY <1>2, <1>4, <2>1
<1>5. QED
  BY <1>3, <1>4

LEMMA WhileExtracting ==
  ASSUME HeapInv, algo = "heapExtract", pc # "start"
  PROVE  /\ SameValues(heap \o extracted, values)
         /\ pc # "build" =>
              Ordered(heap, IF pc = "siftDown" THEN {2 * index + 1, 2 * index + 2} ELSE {})
         /\ IsOrdered(Reverse(extracted))
         /\ \A x \in DOMAIN extracted, y \in DOMAIN heap : heap[y] <= extracted[x]
         /\ pc = "done" => heap = <<>>
<1>1. /\ values \in Seq(Int) /\ heap \in Seq(Int) /\ extracted \in Seq(Int) /\ index \in Int
      /\ pc \in {"build", "extract", "siftDown", "done"}
      /\ Parted(heap, extracted, values) /\ Descending(extracted) /\ Under(heap, extracted)
      /\ pc \in {"extract", "done"} => Heap(heap)
      /\ pc = "siftDown" => DownHeap(heap, 0, index)
      /\ pc = "done" => heap = <<>>
  BY DEF HeapInv, ExtractInv
<1>2. SameValues(heap \o extracted, values)
  <2> DEFINE s == heap \o extracted
  <2>1. s \in Seq(Int)
    BY <1>1, ConcatProperties
  <2>2. \A v : Count(s, v) = Count(values, v)
    BY <1>1, CountConcat DEF Parted
  <2> HIDE DEF s
  <2>3. SameValues(s, values)
    BY <1>1, <2>1, <2>2, SameCounts
  <2>4. QED
    BY <2>3 DEF s
<1>3. pc \in {"extract", "done"} => Ordered(heap, {})
  BY <1>1 DEF Heap, Ordered
<1>4. pc = "siftDown" => Ordered(heap, {2 * index + 1, 2 * index + 2})
  <2> DEFINE children == {2 * index + 1, 2 * index + 2}
  <2>1. ASSUME pc = "siftDown", NEW x \in 1 .. (Len(heap) - 1), x \notin children
        PROVE  At(heap, Parent(x)) >= At(heap, x)
    <3>1. x \in Nat \ {0}
      BY <1>1, LenProperties
    <3>2. Parent(x) # index
      BY <1>1, <2>1, <3>1, Parents
    <3>3. Parent(x) >= 0
      BY <3>1, Parents
    <3>4. QED
      BY <1>1, <2>1, <3>2, <3>3 DEF DownHeap
  <2>2. QED
    BY <2>1 DEF Ordered
<1>5. IsOrdered(Reverse(extracted))
  BY <1>1, ReverseOrdered
<1>6. ASSUME NEW x \in DOMAIN extracted, NEW y \in DOMAIN heap
      PROVE  heap[y] <= extracted[x]
  <2>1. x \in 1 .. Len(extracted) /\ y \in 1 .. Len(heap) /\ Len(heap) \in Nat
    BY <1>1, LenProperties
  <2> DEFINE z == y - 1
  <2>2. z \in 0 .. (Len(heap) - 1) /\ z + 1 = y
    BY <2>1
  <2> HIDE DEF z
  <2>3. At(heap, z) <= extracted[x]
    BY <1>1, <2>1, <2>2 DEF Under
  <2>4. QED
    BY <2>2, <2>3 DEF At
<1>7. QED
  BY <1>1, <1>2, <1>3, <1>4, <1>5, <1>6

\* The heap is in order whenever no value is on its way and broken in one place only
\* when one is, no value is lost or doubled, and what is extracted descends to the
\* empty heap: heapInsertSteps and heapExtractSteps, on every array of integers.
THEOREM StructureHeapsStayOrdered ==
  HeapInit /\ [][StructureNext]_<<generator, structure>> => []HeapsStayOrdered
<1>1. HeapInv => HeapsStayOrdered
  BY WhileInserting, WhileExtracting DEF HeapsStayOrdered
<1>2. HeapInv /\ [StructureNext]_<<generator, structure>> => HeapInv'
  <2> SUFFICES ASSUME HeapInv, [StructureNext]_<<generator, structure>> PROVE HeapInv'
    OBVIOUS
  <2>1. CASE StartHeap
    BY <2>1, StartHeapKeeps
  <2>2. CASE HeapInsert
    BY <2>2, HeapInsertKeeps
  <2>3. CASE SiftUp
    BY <2>3, SiftUpKeeps
  <2>4. CASE BuildHeap
    BY <2>4, BuildHeapKeeps
  <2>5. CASE Extract
    BY <2>5, ExtractKeeps
  <2>6. CASE ExtractSift
    BY <2>6, ExtractSiftKeeps
  <2>7. CASE UNCHANGED <<generator, structure>>
    BY <2>7 DEF HeapInv, InsertInv, ExtractInv, generator, structure, heapVars
  <2>8. QED
    BY <2>1, <2>2, <2>3, <2>4, <2>5, <2>6, <2>7, OnlyHeapActions
<1>3. QED
  BY <1>1, <1>2, HeapInvInit, PTL

-------------------------------------------------------------------------------
(* Rests and primes: what quadratic probing rests on. *)

\* x is a multiple of n.
Multiple(x, n) == \E f \in Int : x = n * f

\* A number is its quotient and its rest.
LEMMA ModParts ==
  ASSUME NEW x \in Int, NEW n \in Nat \ {0}
  PROVE  /\ x % n \in 0 .. (n - 1)
         /\ x \div n \in Int
         /\ x = n * (x \div n) + (x % n)
<1>1. x % n = x - n * (x \div n)
  OBVIOUS
<1>2. x % n \in 0 .. (n - 1) /\ x \div n \in Int
  OBVIOUS
<1>3. QED
  BY <1>1, <1>2

LEMMA ModOfSmall ==
  ASSUME NEW n \in Nat \ {0}, NEW x \in 0 .. (n - 1)
  PROVE  x % n = x /\ (x + n) % n = x
OBVIOUS

\* Numbers of the same rest differ by a multiple.
LEMMA SameRest ==
  ASSUME NEW x \in Int, NEW y \in Int, NEW n \in Nat \ {0}, x % n = y % n
  PROVE  Multiple(y - x, n)
<1> DEFINE p == x \div n
           q == y \div n
           r == x % n
<1>1. p \in Int /\ q \in Int /\ r \in Int /\ x = n * p + r /\ y = n * q + r
  BY ModParts
<1> HIDE DEF p, q, r
<1>2. n * (q - p) = n * q - n * p
  BY <1>1
<1>3. y - x = n * (q - p) /\ q - p \in Int
  BY <1>1, <1>2
<1>4. QED
  BY <1>3 DEF Multiple

\* A prime divides no product of smaller numbers.
LEMMA PrimeFactors ==
  ASSUME NEW p \in Nat, Prime(p), NEW x \in 1 .. (p - 1), NEW y \in 1 .. (p - 1),
         Multiple(x * y, p)
  PROVE  FALSE
<1> DEFINE S == {z \in 1 .. (p - 1) : Multiple(z * y, p)}
<1>1. S \in SUBSET Nat /\ S # {}
  <2>1. S \in SUBSET Nat
    <3> DEFINE M(z) == Multiple(z * y, p)
    <3>1. S = {z \in 1 .. (p - 1) : M(z)}
      OBVIOUS
    <3> HIDE DEF M, S
    <3>2. QED
      BY <3>1
  <2>2. x \in S
    BY Zenon
  <2>3. QED
    BY <2>1, <2>2
<1>2. PICK m \in S : \A z \in S : m <= z
  <2> HIDE DEF S
  <2>1. QED
    BY <1>1, LeastNumber
<1>3. m \in 1 .. (p - 1) /\ m \in Nat \ {0} /\ p \in Int /\ y \in Int /\ m \in Int
  OBVIOUS
<1>4. PICK f \in Int : m * y = p * f
  BY DEF Multiple
<1>5. m # 1
  <2>1. SUFFICES ASSUME m = 1 PROVE FALSE
    OBVIOUS
  <2>2. y = p * f
    BY <1>4, <2>1
  <2>3. f >= 1
    <3>1. f <= 0 => p * f <= 0
      OBVIOUS
    <3>2. QED
      BY <2>2, <3>1
  <2>4. p * f >= p
    BY <2>3
  <2>5. QED
    BY <2>2, <2>4
<1> DEFINE q == p \div m
           r == p % m
<1>6. q \in Int /\ r \in 0 .. (m - 1) /\ p = m * q + r
  BY <1>3, ModParts
<1>7. r # 0
  <2>1. \A d \in 2 .. (p - 1) : p % d # 0
    BY DEF Prime
  <2>2. m \in 2 .. (p - 1)
    BY <1>3, <1>5
  <2> HIDE DEF S
  <2>3. QED
    BY <2>1, <2>2
<1> HIDE DEF q, r, S
<1>8. r \in 1 .. (p - 1) /\ r < m /\ r \in Int
  BY <1>3, <1>6, <1>7
<1>9. Multiple(r * y, p)
  <2>1. r * y = (p - m * q) * y
    BY <1>3, <1>6, <1>8
  <2>2. (p - m * q) * y = p * y - (m * q) * y
    BY <1>3, <1>6
  <2>3. (m * q) * y = (m * y) * q
    BY <1>3, <1>6
  <2>4. (p * f) * q = p * (f * q)
    BY <1>3, <1>6
  <2>5. p * y - p * (f * q) = p * (y - f * q)
    BY <1>3, <1>6
  <2>6. r * y = p * (y - f * q)
    BY <1>4, <2>1, <2>2, <2>3, <2>4, <2>5
  <2>7. y - f * q \in Int
    BY <1>3, <1>6
  <2>8. QED
    BY <2>6, <2>7 DEF Multiple
<1>10. r \in S
  BY <1>8, <1>9 DEF S
<1>11. QED
  BY <1>2, <1>8, <1>10, <1>3

\* Squares of numbers up to half a prime leave different rests.
LEMMA SquaresApart ==
  ASSUME NEW p \in Nat, Prime(p), NEW h \in Int,
         NEW a \in 0 .. (p \div 2), NEW c \in 0 .. (p \div 2), a < c
  PROVE  (h + a * a) % p # (h + c * c) % p
<1> SUFFICES ASSUME (h + a * a) % p = (h + c * c) % p PROVE FALSE
  OBVIOUS
<1>1. p \in Nat \ {0} /\ p > 1
  BY DEF Prime
<1>2. 2 * (p \div 2) <= p /\ p \div 2 \in Nat
  BY <1>1
<1>3. a \in Nat /\ c \in Nat /\ c - a \in 1 .. (p - 1) /\ c + a \in 1 .. (p - 1)
  BY <1>1, <1>2
<1> DEFINE x == h + a * a
           y == h + c * c
<1>4. x \in Int /\ y \in Int /\ x % p = y % p
  BY <1>3
<1>5. Multiple(y - x, p)
  <2> HIDE DEF x, y
  <2>1. QED
    BY <1>1, <1>4, SameRest
<1>6. y - x = c * c - a * a
  <2>1. a * a \in Int /\ c * c \in Int
    BY <1>3
  <2>2. QED
    BY <2>1
<1>7. (c - a) * (c + a) = c * c - a * a
  BY <1>3
<1>8. Multiple((c - a) * (c + a), p)
  BY <1>5, <1>6, <1>7
<1> DEFINE d == c - a
           e == c + a
<1>9. d \in 1 .. (p - 1) /\ e \in 1 .. (p - 1) /\ Multiple(d * e, p)
  BY <1>3, <1>8
<1> HIDE DEF d, e
<1>10. QED
  BY <1>9, PrimeFactors

-------------------------------------------------------------------------------
(* The table: where a value is looked for, and what one insertion changes. *)

\* The bucket of a value and an attempt, and the one it hashes to.
Home(n, v) == Abs(v) % n
Spot(n, st, v, a) == (Home(n, v) + IF st = "quadratic-probing" THEN a * a ELSE a) % n

LEMMA SpotType ==
  ASSUME NEW n \in Nat \ {0}, NEW st, NEW v \in Int, NEW a \in Nat
  PROVE  Home(n, v) \in 0 .. (n - 1) /\ Spot(n, st, v, a) \in 0 .. (n - 1)
<1> DEFINE h == Home(n, v)
           d == IF st = "quadratic-probing" THEN a * a ELSE a
           x == h + d
<1>1. Abs(v) \in Int
  BY DEF Abs
<1>2. h \in 0 .. (n - 1)
  BY <1>1, ModParts DEF Home
<1>3. d \in Int
  OBVIOUS
<1> HIDE DEF h, d
<1>4. x \in Int
  BY <1>2, <1>3
<1>5. Spot(n, st, v, a) = x % n
  BY DEF Spot, h, d
<1> HIDE DEF x
<1>6. QED
  BY <1>2, <1>4, <1>5, ModParts DEF h

\* No value is in two buckets.
Single(t) ==
  \A b \in DOMAIN t, c \in DOMAIN t : \A v : Contains(t[b], v) /\ Contains(t[c], v) => b = c

\* The buckets before a value's own are taken.
ReachedFrom(t, n, st, v, b) ==
  \E a \in 0 .. (n - 1) : Spot(n, st, v, a) = b /\ \A e \in 0 .. a : t[Spot(n, st, v, e)] # <<>>

AtHome(t, n) == \A b \in DOMAIN t : \A v : Contains(t[b], v) => b = Home(n, v)
Probed(t, n, st) ==
  \A b \in DOMAIN t : Len(t[b]) <= 1 /\ \A v : Contains(t[b], v) => ReachedFrom(t, n, st, v, b)

\* A table with every value in one bucket, where its strategy looks for it.
Table(t, n, st) ==
  /\ t \in [0 .. (n - 1) -> Seq(Int)]
  /\ Single(t)
  /\ IF st = "chaining" THEN AtHome(t, n) ELSE Probed(t, n, st)

Stored(t) == {v \in Int : \E b \in DOMAIN t : Contains(t[b], v)}

\* u is t with v in bucket b too.
Added(t, u, n, b, v) ==
  /\ u \in [0 .. (n - 1) -> Seq(Int)]
  /\ \A c \in 0 .. (n - 1) :
       /\ \A w : Contains(u[c], w) <=> Contains(t[c], w) \/ (c = b /\ w = v)
       /\ u[c] = <<>> <=> t[c] = <<>> /\ c # b
       /\ c # b => u[c] = t[c]
       /\ c = b => Len(u[c]) = Len(t[c]) + 1

LEMMA AppendContains ==
  ASSUME NEW s \in Seq(Int), NEW v \in Int
  PROVE  \A w : Contains(Append(s, v), w) <=> Contains(s, w) \/ w = v
<1> DEFINE u == Append(s, v)
           n == Len(s)
           m == n + 1
<1>1. n \in Nat /\ Len(u) = m /\ m \in Nat
      /\ \A x \in 1 .. m : u[x] = IF x <= n THEN s[x] ELSE v
  BY AppendParts
<1>2. m \in 1 .. m /\ ~(m <= n) /\ \A x \in 1 .. n : x \in 1 .. m /\ x <= n
  BY <1>1
<1>3. \A x \in 1 .. m : x \in 1 .. n \/ (x = m /\ ~(x <= n))
  BY <1>1
<1> HIDE DEF u, m
<1>4. ASSUME NEW w PROVE (\E x \in 1 .. m : u[x] = w) <=> (\E x \in 1 .. n : s[x] = w) \/ w = v
  <2>1. ASSUME NEW x \in 1 .. m, u[x] = w PROVE (\E y \in 1 .. n : s[y] = w) \/ w = v
    <3>1. CASE x \in 1 .. n
      BY <1>1, <1>2, <2>1, <3>1
    <3>2. CASE ~(x <= n)
      BY <1>1, <2>1, <3>2
    <3>3. QED
      BY <1>3, <3>1, <3>2
  <2>2. ASSUME NEW x \in 1 .. n, s[x] = w PROVE \E y \in 1 .. m : u[y] = w
    <3>1. x \in 1 .. m /\ u[x] = s[x]
      BY <1>1, <1>2
    <3>2. QED
      BY <2>2, <3>1
  <2>3. ASSUME w = v PROVE \E y \in 1 .. m : u[y] = w
    <3>1. u[m] = v
      BY <1>1, <1>2
    <3>2. QED
      BY <1>2, <2>3, <3>1
  <2>4. QED
    BY <2>1, <2>2, <2>3
<1>5. QED
  BY <1>1, <1>4 DEF Contains, u

LEMMA AddValue ==
  ASSUME NEW n \in Nat \ {0}, NEW t \in [0 .. (n - 1) -> Seq(Int)],
         NEW b \in 0 .. (n - 1), NEW v \in Int,
         NEW u, u = [t EXCEPT ![b] = Append(@, v)]
  PROVE  Added(t, u, n, b, v)
<1> DEFINE D == 0 .. (n - 1)
           s == t[b]
           a == Append(s, v)
<1>1. s \in Seq(Int)
  OBVIOUS
<1>2. /\ a \in Seq(Int) /\ Len(a) = Len(s) + 1 /\ Len(s) \in Nat
      /\ \A w : Contains(a, w) <=> Contains(s, w) \/ w = v
  BY <1>1, AppendParts, AppendContains
<1>3. a # <<>>
  BY <1>1
<1>4. u = [c \in D |-> IF c = b THEN a ELSE t[c]]
  OBVIOUS
<1> HIDE DEF D, a
<1>5. u \in [D -> Seq(Int)]
  BY <1>2, <1>4 DEF D
<1>6. ASSUME NEW c \in D
      PROVE  /\ \A w : Contains(u[c], w) <=> Contains(t[c], w) \/ (c = b /\ w = v)
             /\ u[c] = <<>> <=> t[c] = <<>> /\ c # b
             /\ c # b => u[c] = t[c]
             /\ c = b => Len(u[c]) = Len(t[c]) + 1
  <2>1. CASE c = b
    <3>1. u[c] = a
      BY <1>4, <2>1
    <3>2. QED
      BY <1>2, <1>3, <2>1, <3>1
  <2>2. CASE c # b
    <3>1. u[c] = t[c]
      BY <1>4, <2>2
    <3>2. QED
      BY <2>2, <3>1
  <2>3. QED
    BY <2>1, <2>2
<1>7. QED
  BY <1>5, <1>6 DEF Added, D

StoresToo(t, u, v) == Stored(u) = Stored(t) \cup {v}

LEMMA StoredMore ==
  ASSUME NEW n \in Nat \ {0}, NEW t \in [0 .. (n - 1) -> Seq(Int)],
         NEW b \in 0 .. (n - 1), NEW v \in Int, NEW u, Added(t, u, n, b, v)
  PROVE  StoresToo(t, u, v)
<1> DEFINE D == 0 .. (n - 1)
<1>1. DOMAIN t = D /\ DOMAIN u = D
  BY DEF Added
<1>2. \A c \in D : \A w : Contains(u[c], w) <=> Contains(t[c], w) \/ (c = b /\ w = v)
  BY DEF Added
<1> HIDE DEF D
<1>3. b \in D
  BY DEF D
<1>4. QED
  BY <1>1, <1>2, <1>3 DEF Stored, StoresToo

\* A value not yet there, put into its own bucket or the first free one of its probes.
LEMMA TableMore ==
  ASSUME NEW n \in Nat \ {0}, NEW st, NEW t, Table(t, n, st),
         NEW v \in Int, v \notin Stored(t), NEW b \in 0 .. (n - 1), NEW u, Added(t, u, n, b, v),
         st = "chaining" => b = Home(n, v),
         st # "chaining" => t[b] = <<>> /\ ReachedFrom(u, n, st, v, b)
  PROVE  Table(u, n, st)
<1> DEFINE D == 0 .. (n - 1)
<1>1. /\ DOMAIN t = D /\ DOMAIN u = D
      /\ t \in [D -> Seq(Int)] /\ u \in [D -> Seq(Int)]
  BY DEF Table, Added
<1>2. \A c \in D :
       /\ \A w : Contains(u[c], w) <=> Contains(t[c], w) \/ (c = b /\ w = v)
       /\ u[c] = <<>> <=> t[c] = <<>> /\ c # b
       /\ c # b => u[c] = t[c]
       /\ c = b => Len(u[c]) = Len(t[c]) + 1
  BY DEF Added
<1>3. \A c \in D : ~Contains(t[c], v)
  BY <1>1 DEF Stored
<1> HIDE DEF D
<1>4. b \in D
  BY DEF D
<1>5. Single(u)
  <2>1. ASSUME NEW c \in D, NEW d \in D, NEW w, Contains(u[c], w), Contains(u[d], w)
        PROVE  c = d
    <3>1. CASE w = v
      BY <1>2, <1>3, <2>1, <3>1
    <3>2. CASE w # v
      <4>1. Contains(t[c], w) /\ Contains(t[d], w)
        BY <1>2, <2>1, <3>2
      <4>2. QED
        BY <1>1, <4>1 DEF Table, Single
    <3>3. QED
      BY <3>1, <3>2
  <2>2. QED
    BY <1>1, <2>1 DEF Single
<1>6. CASE st = "chaining"
  <2>1. AtHome(t, n)
    BY <1>6 DEF Table
  <2>2. AtHome(u, n)
    BY <1>1, <1>2, <1>6, <2>1 DEF AtHome
  <2>3. QED
    BY <1>1, <1>5, <1>6, <2>2 DEF Table, D
<1>7. CASE st # "chaining"
  <2>1. Probed(t, n, st)
    BY <1>7 DEF Table
  <2>2. ASSUME NEW c \in D PROVE Len(u[c]) <= 1
    <3>1. CASE c = b
      <4>1. Len(u[c]) = Len(t[c]) + 1 /\ t[c] = <<>>
        BY <1>2, <1>7, <3>1
      <4>2. QED
        BY <4>1, NothingYet
    <3>2. CASE c # b
      BY <1>1, <1>2, <2>1, <3>2 DEF Probed
    <3>3. QED
      BY <3>1, <3>2
  <2>3. ASSUME NEW c \in D, NEW w, Contains(u[c], w) PROVE ReachedFrom(u, n, st, w, c)
    <3>1. CASE c = b /\ w = v
      BY <1>7, <3>1
    <3>2. CASE Contains(t[c], w)
      <4>1. w \in Int
        <5>1. t[c] \in Seq(Int)
          BY <1>1
        <5>2. QED
          BY <3>2, <5>1 DEF Contains
      <4>2. PICK a \in 0 .. (n - 1) :
              Spot(n, st, w, a) = c /\ \A e \in 0 .. a : t[Spot(n, st, w, e)] # <<>>
        BY <1>1, <2>1, <3>2 DEF Probed, ReachedFrom
      <4>3. ASSUME NEW e \in 0 .. a PROVE u[Spot(n, st, w, e)] # <<>>
        <5>1. Spot(n, st, w, e) \in D
          <6>1. e \in Nat
            OBVIOUS
          <6>2. QED
            BY <4>1, <6>1, SpotType DEF D
        <5>2. t[Spot(n, st, w, e)] # <<>>
          BY <4>2
        <5>3. QED
          BY <1>2, <5>1, <5>2
      <4>4. QED
        BY <4>2, <4>3 DEF ReachedFrom
    <3>3. QED
      BY <1>2, <2>3, <3>1, <3>2
  <2>4. Probed(u, n, st)
    BY <1>1, <2>2, <2>3 DEF Probed
  <2>5. QED
    BY <1>1, <1>5, <1>7, <2>4 DEF Table, D
<1>8. QED
  BY <1>6, <1>7

\* At most one value to a bucket: as many values as buckets in use.
LEMMA EachItsOwn ==
  ASSUME NEW n \in Nat \ {0}, NEW t \in [0 .. (n - 1) -> Seq(Int)], Single(t),
         IsFiniteSet(Stored(t)),
         NEW U \in SUBSET (0 .. (n - 1)), \A b \in U : t[b] # <<>>
  PROVE  IsFiniteSet(U) /\ Cardinality(U) <= Cardinality(Stored(t))
<1> DEFINE f == [b \in U |-> t[b][1]]
<1>1. ASSUME NEW b \in U
      PROVE  Contains(t[b], t[b][1]) /\ t[b][1] \in Stored(t) /\ b \in DOMAIN t
  <2>1. t[b] \in Seq(Int) /\ t[b] # <<>> /\ b \in DOMAIN t
    OBVIOUS
  <2>2. Len(t[b]) \in Nat /\ Len(t[b]) # 0
    BY <2>1, EmptySeq, LenProperties
  <2>3. 1 \in 1 .. Len(t[b])
    BY <2>2
  <2>4. t[b][1] \in Int
    BY <2>1, <2>3
  <2>5. Contains(t[b], t[b][1])
    BY <2>3 DEF Contains
  <2>6. QED
    BY <2>1, <2>4, <2>5 DEF Stored
<1>2. f \in [U -> Stored(t)]
  BY <1>1
<1>3. ASSUME NEW b \in U, NEW c \in U, f[b] = f[c] PROVE b = c
  <2>1. t[b][1] = t[c][1]
    BY <1>3
  <2>2. QED
    BY <1>1, <2>1 DEF Single
<1>4. f \in Injection(U, Stored(t))
  <2> HIDE DEF f
  <2>1. DOMAIN f = U
    BY <1>2
  <2>2. QED
    BY <1>2, <1>3, <2>1 DEF Injection, IsInjective
<1> HIDE DEF f
<1>5. QED
  BY <1>4, FS_Injection

LEMMA NoMoreThanBuckets ==
  ASSUME NEW n \in Nat \ {0}, NEW t \in [0 .. (n - 1) -> Seq(Int)],
         \A b \in 0 .. (n - 1) : Len(t[b]) <= 1
  PROVE  Cardinality(Stored(t)) <= n
<1> DEFINE D == 0 .. (n - 1)
           f == [v \in Stored(t) |-> CHOOSE b \in D : Contains(t[b], v)]
<1>1. ASSUME NEW v \in Stored(t) PROVE f[v] \in D /\ Contains(t[f[v]], v)
  <2>1. \E b \in D : Contains(t[b], v)
    BY DEF Stored
  <2>2. QED
    BY <2>1
<1>2. f \in [Stored(t) -> D]
  <2>1. DOMAIN f = Stored(t) /\ \A v \in Stored(t) : f[v] \in D
    BY <1>1
  <2>2. QED
    BY <1>1
<1> HIDE DEF f
<1>3. ASSUME NEW v \in Stored(t), NEW w \in Stored(t), f[v] = f[w] PROVE v = w
  <2>1. Contains(t[f[v]], v) /\ Contains(t[f[v]], w) /\ f[v] \in D
    BY <1>1, <1>3
  <2>2. Len(t[f[v]]) <= 1 /\ Len(t[f[v]]) \in Nat
    <3>1. t[f[v]] \in Seq(Int)
      BY <2>1
    <3>2. QED
      BY <2>1, <3>1, LenProperties
  <2>3. \A x \in 1 .. Len(t[f[v]]) : x = 1
    BY <2>2
  <2>4. QED
    BY <2>1, <2>3 DEF Contains
<1>4. f \in Injection(Stored(t), D)
  <2>1. DOMAIN f = Stored(t)
    BY <1>2
  <2>2. QED
    BY <1>2, <1>3, <2>1 DEF Injection, IsInjective
<1>5. IsFiniteSet(D) /\ Cardinality(D) = n
  <2>1. 0 \in Int /\ n - 1 \in Int /\ ~(0 > n - 1) /\ (n - 1) - 0 + 1 = n
    OBVIOUS
  <2>2. QED
    BY <2>1, FS_Interval
<1> HIDE DEF D
<1>6. Cardinality(Stored(t)) <= Cardinality(D)
  BY <1>4, <1>5, FS_Injection
<1>7. QED
  BY <1>5, <1>6

-------------------------------------------------------------------------------
(* The steps of the hash table's generator. *)

\* The start of the hash table's generator, on any array and a table of any size.
HashInit ==
  /\ algo = "hashTable" /\ pc = "start"
  /\ values \in Seq(Int) /\ strategy \in Strategies /\ size \in Nat \ {0}
  /\ StructureIdle

\* Every value stored has been taken, and every one taken is stored or was rejected.
FromTaken(t, a, n) == \A v \in Stored(t) : \E x \in 1 .. n : a[x] = v
Accounted(t, r, a, n) == \A x \in 1 .. n : a[x] \in Stored(t) \/ Contains(r, a[x])

\* A value to whose every attempt there was no free bucket.
Blocked(t, n, st, v) == \A a \in 0 .. (n - 1) : t[Spot(n, st, v, a)] # <<>>

\* The buckets of the first attempts are taken, by other values.
Passed(t, n, st, v, m) ==
  \A a \in 0 .. (m - 1) :
    t[Spot(n, st, v, a)] # <<>> /\ ~Contains(t[Spot(n, st, v, a)], v)

\* The inductive invariant: the table so far, and what probing has passed.
HashInv ==
  /\ algo = "hashTable" /\ pc \in {"start", "hash", "probe", "done"}
  /\ values \in Seq(Int) /\ strategy \in Strategies /\ size \in Nat \ {0}
  /\ next \in Nat /\ next <= Len(values) /\ rejected \in Seq(Int)
  /\ pc = "start" => next = 0 /\ rejected = <<>> /\ stored = 0
  /\ pc # "start" =>
       /\ Table(buckets, size, strategy)
       /\ IsFiniteSet(Stored(buckets)) /\ stored = Cardinality(Stored(buckets))
       /\ FromTaken(buckets, values, next) /\ Accounted(buckets, rejected, values, next)
       /\ rejected # <<>> => \E v \in Int : Blocked(buckets, size, strategy, v)
       /\ strategy = "chaining" => rejected = <<>>
  /\ pc = "probe" =>
       /\ next < Len(values) /\ attempt \in 0 .. (size - 1)
       /\ strategy # "chaining" => Passed(buckets, size, strategy, values[next + 1], attempt)

LEMMA HashInvInit == HashInit => HashInv
<1> SUFFICES ASSUME HashInit PROVE HashInv
  OBVIOUS
<1>1. Len(values) \in Nat /\ <<>> \in Seq(Int)
  BY LenProperties DEF HashInit
<1>2. QED
  BY <1>1 DEF HashInit, HashInv, StructureIdle

LEMMA StartHashKeeps ==
  ASSUME HashInv, StartHash
  PROVE  HashInv'
<1>1. /\ algo' = algo /\ values' = values /\ next' = next /\ rejected' = rejected
      /\ stored' = stored /\ strategy' = strategy /\ size' = size /\ pc' = "hash"
      /\ next = 0 /\ rejected = <<>> /\ stored = 0
      /\ size \in Nat \ {0} /\ values \in Seq(Int)
  BY DEF StartHash, HashInv
<1> DEFINE t == [b \in 0 .. (size - 1) |-> <<>>]
<1>2. buckets' = t
  BY DEF StartHash
<1>3. /\ t \in [0 .. (size - 1) -> Seq(Int)] /\ DOMAIN t = 0 .. (size - 1)
      /\ \A b \in 0 .. (size - 1) : t[b] = <<>>
  BY NothingYet
<1> HIDE DEF t
<1>4. \A b \in DOMAIN t : \A v : ~Contains(t[b], v)
  <2>1. \A v : ~Contains(<<>>, v)
    BY NothingYet DEF Contains
  <2>2. QED
    BY <1>3, <2>1
<1>5. Table(t, size, strategy)
  <2>1. \A b \in DOMAIN t : Len(t[b]) <= 1
    BY <1>3, NothingYet
  <2>2. QED
    BY <1>3, <1>4, <2>1 DEF Table, Single, AtHome, Probed
<1>6. Stored(t) = {}
  BY <1>4 DEF Stored
<1>7. IsFiniteSet(Stored(t)) /\ Cardinality(Stored(t)) = 0
  BY <1>6, FS_EmptySet
<1>8. FromTaken(t, values, next) /\ Accounted(t, rejected, values, next)
  <2>1. (1 .. next) = {}
    BY <1>1
  <2>2. QED
    BY <1>6, <2>1 DEF FromTaken, Accounted
<1>9. QED
  BY <1>1, <1>2, <1>5, <1>7, <1>8 DEF HashInv

LEMMA HashNextKeeps ==
  ASSUME HashInv, HashNext
  PROVE  HashInv'
<1>1. /\ algo' = algo /\ values' = values /\ next' = next /\ rejected' = rejected
      /\ stored' = stored /\ strategy' = strategy /\ size' = size /\ buckets' = buckets
      /\ pc = "hash"
  BY DEF HashNext
<1>2. CASE next < Len(values)
  <2>1. pc' = "probe" /\ attempt' = 0
    BY <1>2 DEF HashNext
  <2>2. Passed(buckets, size, strategy, values[next + 1], 0)
    <3>1. (0 .. (0 - 1)) = {}
      OBVIOUS
    <3>2. QED
      BY <3>1 DEF Passed
  <2>3. 0 \in 0 .. (size - 1)
    BY DEF HashInv
  <2>4. QED
    BY <1>1, <1>2, <2>1, <2>2, <2>3 DEF HashInv
<1>3. CASE ~(next < Len(values))
  <2>1. pc' = "done"
    BY <1>3 DEF HashNext, Finish
  <2>2. QED
    BY <1>1, <2>1 DEF HashInv
<1>4. QED
  BY <1>2, <1>3

\* What a step of probing starts from.
LEMMA WhileProbing ==
  ASSUME HashInv, pc = "probe"
  PROVE  /\ algo = "hashTable"
         /\ values \in Seq(Int) /\ Len(values) \in Nat
         /\ strategy \in Strategies /\ size \in Nat \ {0}
         /\ next \in Nat /\ next < Len(values) /\ next + 1 \in 1 .. Len(values)
         /\ values[next + 1] \in Int
         /\ rejected \in Seq(Int)
         /\ Table(buckets, size, strategy) /\ buckets \in [0 .. (size - 1) -> Seq(Int)]
         /\ IsFiniteSet(Stored(buckets)) /\ stored = Cardinality(Stored(buckets))
         /\ FromTaken(buckets, values, next) /\ Accounted(buckets, rejected, values, next)
         /\ rejected # <<>> => \E v \in Int : Blocked(buckets, size, strategy, v)
         /\ strategy = "chaining" => rejected = <<>>
         /\ attempt \in 0 .. (size - 1)
         /\ strategy # "chaining" => Passed(buckets, size, strategy, values[next + 1], attempt)
<1>1. values \in Seq(Int) /\ next \in Nat /\ next < Len(values)
  BY DEF HashInv
<1>2. Len(values) \in Nat
  BY <1>1, LenProperties
<1>3. next + 1 \in 1 .. Len(values)
  BY <1>1, <1>2
<1> DEFINE m == next + 1
<1>4. values[m] \in Int
  <2> HIDE DEF m
  <2>1. m \in 1 .. Len(values)
    BY <1>3 DEF m
  <2>2. QED
    BY <1>1, <2>1
<1>5. buckets \in [0 .. (size - 1) -> Seq(Int)]
  BY DEF HashInv, Table
<1>6. QED
  BY <1>1, <1>2, <1>3, <1>4, <1>5 DEF HashInv

\* The table's part of the invariant does not change when the value taken is one
\* that is stored or rejected.
LEMMA OneMoreTaken ==
  ASSUME NEW t, NEW r, NEW a, NEW n \in Nat,
         FromTaken(t, a, n), Accounted(t, r, a, n),
         NEW u, NEW s, NEW v, v = a[n + 1], Stored(u) \in SUBSET (Stored(t) \cup {v}),
         Stored(t) \in SUBSET Stored(u), \A w : Contains(r, w) => Contains(s, w),
         v \in Stored(u) \/ Contains(s, v)
  PROVE  FromTaken(u, a, n + 1) /\ Accounted(u, s, a, n + 1)
<1> DEFINE m == n + 1
<1>1. m \in 1 .. m /\ (\A x \in 1 .. n : x \in 1 .. m) /\ (\A x \in 1 .. m : x \in 1 .. n \/ x = m)
  OBVIOUS
<1>2. a[m] = v
  OBVIOUS
<1> HIDE DEF m
<1>3. FromTaken(u, a, m)
  BY <1>1, <1>2 DEF FromTaken
<1>4. Accounted(u, s, a, m)
  <2>1. ASSUME NEW x \in 1 .. m PROVE a[x] \in Stored(u) \/ Contains(s, a[x])
    <3>1. CASE x = m
      BY <1>2, <3>1
    <3>2. CASE x \in 1 .. n
      BY <3>2 DEF Accounted
    <3>3. QED
      BY <1>1, <3>1, <3>2
  <2>2. QED
    BY <2>1 DEF Accounted
<1>5. QED
  BY <1>3, <1>4 DEF m

\* A value whose first attempts found others is in the table only if the next one
\* finds it or finds something in its way.
LEMMA NotStored ==
  ASSUME NEW n \in Nat \ {0}, NEW st, st # "chaining", NEW t, Table(t, n, st),
         NEW v \in Int, NEW m \in Nat, Passed(t, n, st, v, m),
         t[Spot(n, st, v, m)] = <<>> \/ m >= n
  PROVE  v \notin Stored(t)
<1> SUFFICES ASSUME v \in Stored(t) PROVE FALSE
  OBVIOUS
<1>1. PICK b \in DOMAIN t : Contains(t[b], v)
  BY DEF Stored
<1>2. ReachedFrom(t, n, st, v, b)
  BY <1>1 DEF Table, Probed
<1>3. PICK a \in 0 .. (n - 1) :
        Spot(n, st, v, a) = b /\ \A e \in 0 .. a : t[Spot(n, st, v, e)] # <<>>
  BY <1>2 DEF ReachedFrom
<1>4. CASE a < m
  <2>1. a \in 0 .. (m - 1)
    BY <1>4
  <2>2. QED
    BY <1>1, <1>3, <2>1 DEF Passed
<1>5. CASE ~(a < m)
  <2>1. m \in 0 .. a /\ ~(m >= n)
    BY <1>5
  <2>2. QED
    BY <1>3, <2>1
<1>6. QED
  BY <1>4, <1>5

LEMMA ProbeKeeps ==
  ASSUME HashInv, Probe
  PROVE  HashInv'
<1> DEFINE v == values[next + 1]
           b == IF strategy = "chaining" THEN Home(size, v) ELSE Spot(size, strategy, v, attempt)
<1>1. /\ algo' = algo /\ values' = values /\ strategy' = strategy /\ size' = size
      /\ pc = "probe"
  BY DEF Probe
<1>2. /\ algo = "hashTable"
      /\ values \in Seq(Int) /\ Len(values) \in Nat
      /\ strategy \in Strategies /\ size \in Nat \ {0}
      /\ next \in Nat /\ next < Len(values) /\ next + 1 \in 1 .. Len(values)
      /\ v \in Int
      /\ rejected \in Seq(Int)
      /\ Table(buckets, size, strategy) /\ buckets \in [0 .. (size - 1) -> Seq(Int)]
      /\ IsFiniteSet(Stored(buckets)) /\ stored = Cardinality(Stored(buckets))
      /\ FromTaken(buckets, values, next) /\ Accounted(buckets, rejected, values, next)
      /\ rejected # <<>> => \E w \in Int : Blocked(buckets, size, strategy, w)
      /\ strategy = "chaining" => rejected = <<>>
      /\ attempt \in 0 .. (size - 1)
      /\ strategy # "chaining" => Passed(buckets, size, strategy, v, attempt)
  BY <1>1, WhileProbing
<1>3. At(values, next) = v
  BY DEF At
<1>4. b = IF strategy = "chaining" THEN HashValue(v) ELSE Bucket(v, attempt)
  BY DEF Home, Spot, HashValue, Bucket
<1> HIDE DEF v, b
<1>5. \/ /\ Contains(buckets[b], v)
         /\ pc' = "hash" /\ next' = next + 1 /\ UNCHANGED <<attempt, rejected>>
         /\ UNCHANGED <<buckets, stored>>
      \/ /\ ~Contains(buckets[b], v)
         /\ strategy = "chaining" \/ buckets[b] = <<>>
         /\ buckets' = [buckets EXCEPT ![b] = Append(@, v)]
         /\ stored' = stored + 1
         /\ pc' = "hash" /\ next' = next + 1 /\ UNCHANGED <<attempt, rejected>>
      \/ /\ ~Contains(buckets[b], v)
         /\ strategy # "chaining" /\ buckets[b] # <<>>
         /\ IF attempt + 1 < size
              THEN attempt' = attempt + 1 /\ UNCHANGED <<pc, next, rejected>>
              ELSE rejected' = Append(rejected, v) /\ next' = next + 1 /\ pc' = "hash"
         /\ UNCHANGED <<buckets, stored>>
  BY <1>3, <1>4 DEF Probe
<1>6. b \in 0 .. (size - 1) /\ attempt \in Nat /\ next + 1 <= Len(values) /\ next + 1 \in Nat
  <2>1. attempt \in Nat /\ next + 1 <= Len(values) /\ next + 1 \in Nat
    BY <1>2
  <2>2. Home(size, v) \in 0 .. (size - 1) /\ Spot(size, strategy, v, attempt) \in 0 .. (size - 1)
    BY <1>2, <2>1, SpotType
  <2>3. QED
    BY <2>1, <2>2 DEF b
<1>7. v = values[next + 1]
  BY DEF v
<1>8. CASE Contains(buckets[b], v) /\ pc' = "hash" /\ next' = next + 1
           /\ UNCHANGED <<rejected, buckets, stored>>
  <2>1. v \in Stored(buckets)
    BY <1>2, <1>6, <1>8 DEF Stored
  <2>2. /\ FromTaken(buckets, values, next + 1)
        /\ Accounted(buckets, rejected, values, next + 1)
    BY <1>2, <1>7, <2>1, OneMoreTaken
  <2>3. QED
    BY <1>1, <1>2, <1>6, <1>8, <2>2 DEF HashInv
<1>9. CASE /\ ~Contains(buckets[b], v)
           /\ strategy = "chaining" \/ buckets[b] = <<>>
           /\ buckets' = [buckets EXCEPT ![b] = Append(@, v)]
           /\ stored' = stored + 1
           /\ pc' = "hash" /\ next' = next + 1 /\ UNCHANGED rejected
  <2> DEFINE t == buckets
             u == buckets'
  <2>1. Added(t, u, size, b, v)
    BY <1>2, <1>6, <1>9, AddValue
  <2>2. v \notin Stored(t)
    <3>1. CASE strategy = "chaining"
      <4>1. AtHome(t, size) /\ b = Home(size, v)
        BY <1>2, <3>1 DEF Table, b
      <4>2. QED
        BY <1>9, <4>1 DEF AtHome, Stored
    <3>2. CASE strategy # "chaining"
      <4>1. t[Spot(size, strategy, v, attempt)] = <<>>
        BY <1>9, <3>2 DEF b
      <4>2. QED
        BY <1>2, <1>6, <3>2, <4>1, NotStored
    <3>3. QED
      BY <3>1, <3>2
  <2>3. Stored(u) = Stored(t) \cup {v}
    <3> DEFINE n == size
    <3>1. /\ n \in Nat \ {0} /\ t \in [0 .. (n - 1) -> Seq(Int)]
          /\ b \in 0 .. (n - 1) /\ v \in Int /\ Added(t, u, n, b, v)
      BY <1>2, <1>6, <2>1
    <3> HIDE DEF t, u, n
    <3>2. StoresToo(t, u, v)
      BY <3>1, StoredMore
    <3>3. QED
      BY <3>2 DEF StoresToo
  <2>4. strategy = "chaining" => b = Home(size, v)
    BY DEF b
  <2>5. \A c \in 0 .. (size - 1) : u[c] = <<>> <=> t[c] = <<>> /\ c # b
    BY <2>1 DEF Added
  <2>6. strategy # "chaining" => t[b] = <<>> /\ ReachedFrom(u, size, strategy, v, b)
    <3> SUFFICES ASSUME strategy # "chaining"
                 PROVE  t[b] = <<>> /\ ReachedFrom(u, size, strategy, v, b)
      OBVIOUS
    <3>1. b = Spot(size, strategy, v, attempt)
      BY DEF b
    <3>2. ASSUME NEW e \in 0 .. attempt PROVE u[Spot(size, strategy, v, e)] # <<>>
      <4>1. Spot(size, strategy, v, e) \in 0 .. (size - 1)
        <5>1. e \in Nat
          BY <1>2
        <5>2. QED
          BY <1>2, <5>1, SpotType
      <4>2. CASE e = attempt
        BY <2>5, <3>1, <4>1, <4>2
      <4>3. CASE e # attempt
        <5>1. e \in 0 .. (attempt - 1)
          BY <1>6, <4>3
        <5>2. t[Spot(size, strategy, v, e)] # <<>>
          BY <1>2, <5>1 DEF Passed
        <5>3. QED
          BY <2>5, <4>1, <5>2
      <4>4. QED
        BY <4>2, <4>3
    <3>3. t[b] = <<>>
      BY <1>9
    <3>4. QED
      BY <1>2, <3>1, <3>2, <3>3 DEF ReachedFrom
  <2>7. Table(u, size, strategy)
    <3> HIDE DEF t, u
    <3>1. Table(t, size, strategy)
      BY <1>2 DEF t
    <3>2. QED
      BY <1>2, <1>6, <2>1, <2>2, <2>4, <2>6, <3>1, TableMore
  <2>8. IsFiniteSet(Stored(u)) /\ stored' = Cardinality(Stored(u))
    <3>1. IsFiniteSet(Stored(t)) /\ stored = Cardinality(Stored(t))
      BY <1>2
    <3> HIDE DEF t, u
    <3>2. QED
      BY <1>9, <2>2, <2>3, <3>1, FS_AddElement
  <2>9. FromTaken(u, values, next + 1) /\ Accounted(u, rejected, values, next + 1)
    <3>1. FromTaken(t, values, next) /\ Accounted(t, rejected, values, next)
      BY <1>2
    <3> HIDE DEF t, u
    <3>2. QED
      BY <1>2, <1>7, <2>3, <3>1, OneMoreTaken
  <2>10. ASSUME NEW w \in Int, Blocked(t, size, strategy, w)
         PROVE  Blocked(u, size, strategy, w)
    <3>1. ASSUME NEW a \in 0 .. (size - 1) PROVE u[Spot(size, strategy, w, a)] # <<>>
      <4>1. Spot(size, strategy, w, a) \in 0 .. (size - 1)
        <5>1. a \in Nat
          OBVIOUS
        <5>2. QED
          BY <1>2, <5>1, SpotType
      <4>2. t[Spot(size, strategy, w, a)] # <<>>
        BY <2>10 DEF Blocked
      <4>3. QED
        BY <2>5, <4>1, <4>2
    <3>2. QED
      BY <3>1 DEF Blocked
  <2>11. QED
    BY <1>1, <1>2, <1>6, <1>9, <2>7, <2>8, <2>9, <2>10 DEF HashInv
<1>10. CASE /\ ~Contains(buckets[b], v)
            /\ strategy # "chaining" /\ buckets[b] # <<>>
            /\ IF attempt + 1 < size
                 THEN attempt' = attempt + 1 /\ UNCHANGED <<pc, next, rejected>>
                 ELSE rejected' = Append(rejected, v) /\ next' = next + 1 /\ pc' = "hash"
            /\ UNCHANGED <<buckets, stored>>
  <2> DEFINE m == attempt + 1
  <2>1. Passed(buckets, size, strategy, v, m)
    <3>1. b = Spot(size, strategy, v, attempt)
      BY <1>10 DEF b
    <3>2. \A a \in 0 .. (m - 1) : a = attempt \/ a \in 0 .. (attempt - 1)
      BY <1>6
    <3>3. Passed(buckets, size, strategy, v, attempt)
      BY <1>2, <1>10
    <3> HIDE DEF m
    <3>4. QED
      BY <1>10, <3>1, <3>2, <3>3 DEF Passed
  <2>2. CASE m < size
    <3>1. attempt' = m /\ pc' = pc /\ next' = next /\ rejected' = rejected
      BY <1>10, <2>2
    <3>2. m \in 0 .. (size - 1)
      BY <1>2, <1>6, <2>2
    <3> HIDE DEF m
    <3>3. Passed(buckets, size, strategy, values[next + 1], m)
      BY <1>7, <2>1
    <3>4. QED
      BY <1>1, <1>2, <1>10, <3>1, <3>2, <3>3 DEF HashInv
  <2>3. CASE ~(m < size)
    <3>1. rejected' = Append(rejected, v) /\ next' = next + 1 /\ pc' = "hash"
      BY <1>10, <2>3
    <3>2. m = size
      BY <1>2, <1>6, <2>3
    <3>3. Blocked(buckets, size, strategy, v)
      <4>1. Passed(buckets, size, strategy, v, size)
        BY <2>1, <3>2
      <4>2. QED
        BY <4>1 DEF Passed, Blocked
    <3>4. rejected' \in Seq(Int) /\ \A w : Contains(rejected', w) <=> Contains(rejected, w) \/ w = v
      BY <1>2, <3>1, AppendParts, AppendContains
    <3>5. /\ FromTaken(buckets, values, next + 1)
          /\ Accounted(buckets, rejected', values, next + 1)
      BY <1>2, <1>7, <3>4, OneMoreTaken
    <3>6. QED
      BY <1>1, <1>2, <1>6, <1>10, <3>1, <3>3, <3>4, <3>5 DEF HashInv
  <2>4. QED
    BY <2>2, <2>3
<1>11. QED
  BY <1>5, <1>8, <1>9, <1>10

-------------------------------------------------------------------------------
(* What the attempts of a strategy visit, and what a rejection then says. *)

\* Linear probing visits every bucket.
LEMMA LinearCovers ==
  ASSUME NEW n \in Nat \ {0}, NEW v \in Int, NEW b \in 0 .. (n - 1)
  PROVE  \E a \in 0 .. (n - 1) : Spot(n, "linear-probing", v, a) = b
<1> DEFINE h == Home(n, v)
<1>1. h \in 0 .. (n - 1)
  <2>1. 0 \in Nat
    OBVIOUS
  <2>2. QED
    BY <2>1, SpotType
<1>2. \A a : Spot(n, "linear-probing", v, a) = (h + a) % n
  BY DEF Spot
<1> HIDE DEF h
<1>3. CASE h <= b
  <2> DEFINE a == b - h
  <2>1. a \in 0 .. (n - 1) /\ h + a = b
    BY <1>1, <1>3
  <2>2. b % n = b
    BY ModOfSmall
  <2>3. QED
    BY <1>2, <2>1, <2>2
<1>4. CASE ~(h <= b)
  <2> DEFINE a == b - h + n
  <2>1. a \in 0 .. (n - 1) /\ h + a = b + n
    BY <1>1, <1>4
  <2>2. (b + n) % n = b
    BY ModOfSmall
  <2> HIDE DEF a
  <2>3. Spot(n, "linear-probing", v, a) = b
    BY <1>2, <2>1, <2>2
  <2>4. QED
    BY <2>1, <2>3
<1>5. QED
  BY <1>3, <1>4

\* Quadratic probing in a table of prime size visits more than half of it.
LEMMA QuadraticCoversHalf ==
  ASSUME NEW p \in Nat, Prime(p), NEW v \in Int,
         NEW t \in [0 .. (p - 1) -> Seq(Int)], Single(t), IsFiniteSet(Stored(t)),
         Blocked(t, p, "quadratic-probing", v)
  PROVE  2 * Cardinality(Stored(t)) >= p
<1> DEFINE m == p \div 2
           A == 0 .. m
           U == {b \in 0 .. (p - 1) : t[b] # <<>>}
           f == [a \in A |-> Spot(p, "quadratic-probing", v, a)]
           h == Home(p, v)
<1>1. p \in Nat \ {0} /\ p > 1
  BY DEF Prime
<1>2. m \in Nat /\ 2 * (m + 1) >= p /\ m <= p - 1
  BY <1>1
<1>3. h \in Int
  <2>1. 0 \in Nat
    OBVIOUS
  <2>2. h \in 0 .. (p - 1)
    BY <1>1, <2>1, SpotType
  <2>3. QED
    BY <2>2
<1>4. \A a : Spot(p, "quadratic-probing", v, a) = (h + a * a) % p
  BY DEF Spot
<1>5. ASSUME NEW a \in A PROVE Spot(p, "quadratic-probing", v, a) \in U
  <2>1. a \in 0 .. (p - 1) /\ a \in Nat
    BY <1>2
  <2>2. Spot(p, "quadratic-probing", v, a) \in 0 .. (p - 1)
    BY <1>1, <2>1, SpotType
  <2>3. t[Spot(p, "quadratic-probing", v, a)] # <<>>
    BY <2>1 DEF Blocked
  <2>4. QED
    BY <2>2, <2>3
<1>6. ASSUME NEW a \in A, NEW c \in A, a < c
      PROVE  Spot(p, "quadratic-probing", v, a) # Spot(p, "quadratic-probing", v, c)
  <2>1. (h + a * a) % p # (h + c * c) % p
    <3> HIDE DEF h
    <3>1. a \in 0 .. (p \div 2) /\ c \in 0 .. (p \div 2)
      OBVIOUS
    <3>2. QED
      BY <1>3, <1>6, <3>1, SquaresApart
  <2>2. QED
    BY <1>4, <2>1, Zenon
<1>7. f \in Injection(A, U)
  <2> DEFINE s(a) == Spot(p, "quadratic-probing", v, a)
  <2>1. f = [a \in A |-> s(a)]
    OBVIOUS
  <2>2. \A a \in A : s(a) \in U
    BY <1>5
  <2>3. \A a \in A, c \in A : a < c => s(a) # s(c)
    BY <1>6
  <2>4. \A a \in A, c \in A : a < c \/ c < a \/ a = c
    BY <1>2
  <2> HIDE DEF s, f, U, A
  <2>5. f \in [A -> U] /\ DOMAIN f = A /\ \A a \in A : f[a] = s(a)
    BY <2>1, <2>2
  <2>6. IsInjective(f)
    BY <2>3, <2>4, <2>5 DEF IsInjective
  <2>7. QED
    BY <2>5, <2>6 DEF Injection
<1>8. U \in SUBSET (0 .. (p - 1)) /\ \A b \in U : t[b] # <<>>
  OBVIOUS
<1>9. Cardinality(A) = m + 1
  <2> HIDE DEF m
  <2>1. 0 \in Int /\ m \in Int /\ ~(0 > m) /\ m - 0 + 1 = m + 1
    BY <1>2
  <2>2. QED
    BY <2>1, FS_Interval
<1> HIDE DEF m, A, U, f
<1>10. IsFiniteSet(U) /\ Cardinality(U) <= Cardinality(Stored(t))
  BY <1>1, <1>8, EachItsOwn
<1>11. IsFiniteSet(A) /\ Cardinality(A) <= Cardinality(U)
  BY <1>7, <1>10, FS_Injection
<1>12. Cardinality(U) \in Nat /\ Cardinality(Stored(t)) \in Nat
  BY <1>10, FS_CardinalityType
<1>13. QED
  BY <1>1, <1>2, <1>9, <1>10, <1>11, <1>12

\* Linear probing that finds no free bucket has seen them all taken.
LEMMA FullTable ==
  ASSUME NEW n \in Nat \ {0}, NEW v \in Int, NEW t, Table(t, n, "linear-probing"),
         IsFiniteSet(Stored(t)), Blocked(t, n, "linear-probing", v)
  PROVE  Cardinality(Stored(t)) = n
<1> DEFINE D == 0 .. (n - 1)
<1>1. t \in [D -> Seq(Int)] /\ Single(t) /\ Probed(t, n, "linear-probing")
  BY DEF Table
<1>2. \A b \in D : t[b] # <<>>
  <2>1. ASSUME NEW b \in D PROVE t[b] # <<>>
    <3>1. PICK a \in 0 .. (n - 1) : Spot(n, "linear-probing", v, a) = b
      BY LinearCovers
    <3>2. QED
      BY <3>1 DEF Blocked
  <2>2. QED
    BY <2>1
<1>3. \A b \in D : Len(t[b]) <= 1
  BY <1>1 DEF Probed
<1>4. Cardinality(Stored(t)) <= n
  BY <1>1, <1>3, NoMoreThanBuckets
<1>5. Cardinality(D) <= Cardinality(Stored(t))
  <2> DEFINE U == D
  <2>1. U \in SUBSET D /\ \A b \in U : t[b] # <<>>
    BY <1>2
  <2> HIDE DEF U
  <2>2. Cardinality(U) <= Cardinality(Stored(t))
    BY <1>1, <2>1, EachItsOwn
  <2>3. QED
    BY <2>2 DEF U
<1>6. Cardinality(D) = n
  <2>1. 0 \in Int /\ n - 1 \in Int /\ ~(0 > n - 1) /\ (n - 1) - 0 + 1 = n
    OBVIOUS
  <2>2. QED
    BY <2>1, FS_Interval
<1>7. Cardinality(Stored(t)) \in Nat
  BY FS_CardinalityType
<1>8. QED
  BY <1>4, <1>5, <1>6, <1>7

\* A bucket is one bucket.
LEMMA OneHolder ==
  ASSUME NEW b
  PROVE  Cardinality({b}) = 1
BY FS_Singleton

\* The invariant says at least what the property does.
LEMMA HashInvProperty == HashInv => HashTableKeepsValues
<1> SUFFICES ASSUME HashInv, pc # "start" PROVE HashTableKeepsValues
  BY DEF HashTableKeepsValues
<1>1. /\ values \in Seq(Int) /\ Len(values) \in Nat /\ strategy \in Strategies /\ size \in Nat \ {0}
      /\ next \in Nat /\ next <= Len(values)
      /\ Table(buckets, size, strategy) /\ buckets \in [0 .. (size - 1) -> Seq(Int)]
      /\ DOMAIN buckets = 0 .. (size - 1) /\ Single(buckets)
      /\ IsFiniteSet(Stored(buckets)) /\ stored = Cardinality(Stored(buckets))
      /\ FromTaken(buckets, values, next) /\ Accounted(buckets, rejected, values, next)
      /\ rejected # <<>> => \E v \in Int : Blocked(buckets, size, strategy, v)
  BY LenProperties DEF HashInv, Table
<1>2. \A x \in 1 .. next : x \in 1 .. Len(values)
  BY <1>1
<1>3. ToSet(SubSeq(values, 1, next)) = {values[x] : x \in 1 .. next}
  <2> DEFINE s == SubSeq(values, 1, next)
  <2>1. s \in Seq(Int) /\ Len(s) = next /\ \A x \in 1 .. next : s[x] = values[x]
    <3> DEFINE z == Slice(values, 0, next)
               zero == 0
    <3>1. zero \in 0 .. Len(values) /\ next \in zero .. Len(values)
      BY <1>1
    <3>2. s = Slice(values, zero, next) /\ next - zero = next /\ \A x \in 1 .. next : zero + x = x
      BY <1>1 DEF Slice
    <3> HIDE DEF zero, s
    <3>3. Slice(values, zero, next) \in Seq(Int) /\ Len(Slice(values, zero, next)) = next - zero
          /\ \A x \in 1 .. (next - zero) : Slice(values, zero, next)[x] = values[zero + x]
      BY <1>1, <3>1, SliceType, Zenon
    <3>4. QED
      BY <3>2, <3>3
  <2>2. DOMAIN s = 1 .. next
    BY <2>1
  <2> HIDE DEF s
  <2>3. {s[x] : x \in DOMAIN s} = {values[x] : x \in 1 .. next}
    BY <2>1, <2>2
  <2>4. QED
    BY <2>3 DEF ToSet, s
<1>4. \A v \in Int : Holders(v) # {} <=> v \in Stored(buckets)
  BY DEF Holders, Stored
<1>5. \A v, b : b \in Holders(v) => Holders(v) = {b}
  BY <1>1 DEF Single, Holders
<1>6. ASSUME NEW v \in ToSet(SubSeq(values, 1, next))
      PROVE  Cardinality(Holders(v)) = 1 \/ (Holders(v) = {} /\ Contains(rejected, v))
  <2>1. PICK x \in 1 .. next : v = values[x]
    BY <1>3
  <2>2. v \in Int
    BY <1>1, <1>2, <2>1
  <2>3. CASE Holders(v) # {}
    <3>1. PICK b \in Holders(v) : TRUE
      BY <2>3
    <3>2. Holders(v) = {b}
      BY <1>5
    <3>3. QED
      BY <3>2, OneHolder
  <2>4. CASE Holders(v) = {}
    <3>1. v \notin Stored(buckets)
      BY <1>4, <2>2, <2>4
    <3>2. Contains(rejected, v)
      BY <1>1, <2>1, <3>1 DEF Accounted
    <3>3. QED
      BY <2>4, <3>2
  <2>5. QED
    BY <2>3, <2>4
<1>7. stored = Cardinality({v \in ToSet(values) : Holders(v) # {}})
  <2>1. \A v \in ToSet(values) : v \in Int
    BY <1>1 DEF ToSet
  <2>2. ASSUME NEW v \in Stored(buckets) PROVE v \in ToSet(values)
    <3>1. PICK x \in 1 .. next : values[x] = v
      BY <1>1 DEF FromTaken
    <3>2. x \in DOMAIN values
      BY <1>1, <1>2
    <3>3. QED
      BY <3>1, <3>2 DEF ToSet
  <2>3. Stored(buckets) \in SUBSET Int
    BY DEF Stored
  <2>4. {v \in ToSet(values) : Holders(v) # {}} = Stored(buckets)
    BY <1>4, <2>1, <2>2, <2>3
  <2>5. QED
    BY <1>1, <2>4
<1>8. ASSUME strategy # "chaining", NEW b \in DOMAIN buckets
      PROVE  /\ Len(buckets[b]) <= 1
             /\ \A v \in ToSet(buckets[b]) : \E a \in 0 .. (size - 1) :
                  Bucket(v, a) = b /\ \A e \in 0 .. a : buckets[Bucket(v, e)] # <<>>
  <2>1. Probed(buckets, size, strategy)
    BY <1>1, <1>8 DEF Table
  <2>2. Len(buckets[b]) <= 1
    BY <1>8, <2>1 DEF Probed
  <2>3. ASSUME NEW v \in ToSet(buckets[b])
        PROVE  \E a \in 0 .. (size - 1) :
                  Bucket(v, a) = b /\ \A e \in 0 .. a : buckets[Bucket(v, e)] # <<>>
    <3>1. Contains(buckets[b], v)
      <4>1. buckets[b] \in Seq(Int)
        BY <1>1, <1>8
      <4>2. DOMAIN buckets[b] = 1 .. Len(buckets[b])
        BY <4>1
      <4>3. QED
        BY <4>2 DEF ToSet, Contains
    <3>2. ReachedFrom(buckets, size, strategy, v, b)
      BY <1>8, <2>1, <3>1 DEF Probed
    <3>3. \A a : Bucket(v, a) = Spot(size, strategy, v, a)
      BY DEF Bucket, Spot, HashValue, Home
    <3>4. QED
      BY <3>2, <3>3 DEF ReachedFrom
  <2>4. QED
    BY <2>2, <2>3
<1>9. strategy = "linear-probing" /\ rejected # <<>> => stored = size
  BY <1>1, FullTable
<1>10. ASSUME strategy = "quadratic-probing", Prime(size), 2 * stored < size
       PROVE  rejected = <<>>
  <2>1. SUFFICES ASSUME rejected # <<>> PROVE FALSE
    OBVIOUS
  <2>2. PICK v \in Int : Blocked(buckets, size, "quadratic-probing", v)
    BY <1>1, <1>10, <2>1
  <2>3. 2 * Cardinality(Stored(buckets)) >= size
    BY <1>1, <1>10, <2>2, QuadraticCoversHalf
  <2>4. Cardinality(Stored(buckets)) \in Nat
    BY <1>1, FS_CardinalityType
  <2>5. QED
    BY <1>1, <1>10, <2>3, <2>4
<1>11. QED
  BY <1>6, <1>7, <1>8, <1>9, <1>10 DEF HashTableKeepsValues

\* From such a state only the hash table's actions are possible.
LEMMA OnlyHashActions ==
  ASSUME HashInv, StructureNext
  PROVE  StartHash \/ HashNext \/ Probe
<1>1. algo = "hashTable" /\ pc \in {"start", "hash", "probe", "done"}
  BY DEF HashInv
<1>2. ~StartHeap /\ ~HeapInsert /\ ~StartTree /\ ~BstInsert /\ ~BstGrown
  BY <1>1 DEF StartHeap, HeapInsert, StartTree, BstInsert, BstGrown, TreeAlgos
<1>3. ~SiftUp /\ ~BuildHeap /\ ~Extract /\ ~ExtractSift
  BY <1>1 DEF SiftUp, BuildHeap, Extract, ExtractSift
<1>4. ~WalkDown /\ ~WalkEmit /\ ~WalkEnd /\ ~BstSearch
  BY <1>1 DEF WalkDown, WalkEmit, WalkEnd, BstSearch
<1>5. QED
  BY <1>2, <1>3, <1>4 DEF StructureNext

\* Every value taken is stored in one bucket or was rejected; probing for a stored
\* value meets no free bucket before it; linear probing rejects only when the table is
\* full, and quadratic probing never where the message promises a place, in a table of
\* prime size less than half full: hashTableSteps, on every array of integers and a
\* table of any size.
THEOREM StructureHashTableKeepsValues ==
  HashInit /\ [][StructureNext]_<<generator, structure>> => []HashTableKeepsValues
<1>1. HashInv /\ [StructureNext]_<<generator, structure>> => HashInv'
  <2> SUFFICES ASSUME HashInv, [StructureNext]_<<generator, structure>> PROVE HashInv'
    OBVIOUS
  <2>1. CASE StartHash
    BY <2>1, StartHashKeeps
  <2>2. CASE HashNext
    BY <2>2, HashNextKeeps
  <2>3. CASE Probe
    BY <2>3, ProbeKeeps
  <2>4. CASE UNCHANGED <<generator, structure>>
    BY <2>4 DEF HashInv, generator, structure, hashVars
  <2>5. QED
    BY <2>1, <2>2, <2>3, <2>4, OnlyHashActions
<1>2. QED
  BY <1>1, HashInvInit, HashInvProperty, PTL

-------------------------------------------------------------------------------
(* The search tree: the bounds of its nodes, and a leaf more. *)

\* Between which values a subtree's are: 0 for no bound.
Above(l, v) == l = 0 \/ l < v
Below(h, v) == h = 0 \/ v < h

Left(t, n) == t[n].left
Right(t, n) == t[n].right

\* Every node is between its bounds, which are nodes.
Bounded(D, lo, hi) ==
  \A n \in D :
    /\ n \in Int /\ n # 0
    /\ lo[n] \in D \cup {0} /\ hi[n] \in D \cup {0}
    /\ Above(lo[n], n) /\ Below(hi[n], n)

\* A child has its parent for a bound; where there is none, nothing is missing.
LeftFull(t, D, lo, hi) ==
  \A n \in D :
    IF Left(t, n) = 0 THEN \A v \in D : Above(lo[n], v) => v >= n
    ELSE Left(t, n) \in D /\ lo[Left(t, n)] = lo[n] /\ hi[Left(t, n)] = n

RightFull(t, D, lo, hi) ==
  \A n \in D :
    IF Right(t, n) = 0 THEN \A v \in D : Below(hi[n], v) => v <= n
    ELSE Right(t, n) \in D /\ lo[Right(t, n)] = n /\ hi[Right(t, n)] = hi[n]

\* A node that bounds another has a child on that side.
Turned(t, D, lo, hi) ==
  \A n \in D : /\ lo[n] # 0 => Right(t, lo[n]) # 0
               /\ hi[n] # 0 => Left(t, hi[n]) # 0

Records(t) == \A n \in DOMAIN t : t[n] \in [left : Int, right : Int]

Searchable(t, lo, hi) ==
  /\ Bounded(DOMAIN t, lo, hi)
  /\ LeftFull(t, DOMAIN t, lo, hi)
  /\ RightFull(t, DOMAIN t, lo, hi)
  /\ Turned(t, DOMAIN t, lo, hi)
  /\ Records(t)

\* u is t with a leaf w, and its bounds.
Grown(t, u, lo, lo2, hi, hi2, w) ==
  /\ DOMAIN u = DOMAIN t \cup {w}
  /\ Left(u, w) = 0 /\ Right(u, w) = 0
  /\ \A m \in DOMAIN t : lo2[m] = lo[m] /\ hi2[m] = hi[m]
  /\ Records(u)

\* u's node n has the child w more.
LeftMore(t, u, n, w) ==
  /\ Left(u, n) = w /\ \A m \in DOMAIN t : m # n => Left(u, m) = Left(t, m)
  /\ \A m \in DOMAIN t : Right(u, m) = Right(t, m)
RightMore(t, u, n, w) ==
  /\ Right(u, n) = w /\ \A m \in DOMAIN t : m # n => Right(u, m) = Right(t, m)
  /\ \A m \in DOMAIN t : Left(u, m) = Left(t, m)

\* A leaf put under a node's empty left side, between the node's bounds.
LEMMA GrowLeft ==
  ASSUME NEW t, NEW lo, NEW hi, Searchable(t, lo, hi),
         NEW n \in DOMAIN t, Left(t, n) = 0,
         NEW w \in Int, w # 0, w < n, Above(lo[n], w),
         NEW u, NEW lo2, NEW hi2, Grown(t, u, lo, lo2, hi, hi2, w),
         lo2[w] = lo[n], hi2[w] = n,
         LeftMore(t, u, n, w)
  PROVE  w \notin DOMAIN t /\ Searchable(u, lo2, hi2)
<1> DEFINE D == DOMAIN t
           E == DOMAIN u
<1>1. \A m \in D :
        /\ m \in Int /\ m # 0
        /\ lo[m] \in D \cup {0} /\ hi[m] \in D \cup {0}
        /\ Above(lo[m], m) /\ Below(hi[m], m)
  BY DEF Searchable, Bounded
<1>2. \A m \in D :
        IF Left(t, m) = 0 THEN \A v \in D : Above(lo[m], v) => v >= m
        ELSE Left(t, m) \in D /\ lo[Left(t, m)] = lo[m] /\ hi[Left(t, m)] = m
  BY DEF Searchable, LeftFull
<1>3. \A m \in D :
        IF Right(t, m) = 0 THEN \A v \in D : Below(hi[m], v) => v <= m
        ELSE Right(t, m) \in D /\ lo[Right(t, m)] = m /\ hi[Right(t, m)] = hi[m]
  BY DEF Searchable, RightFull
<1>4. \A m \in D : /\ lo[m] # 0 => Right(t, lo[m]) # 0
                   /\ hi[m] # 0 => Left(t, hi[m]) # 0
  BY DEF Searchable, Turned
<1>5. /\ E = D \cup {w}
      /\ Left(u, w) = 0 /\ Right(u, w) = 0
      /\ \A m \in D : lo2[m] = lo[m] /\ hi2[m] = hi[m]
  BY DEF Grown
<1>6. /\ n \in D
      /\ Left(u, n) = w /\ \A m \in D : m # n => Left(u, m) = Left(t, m)
      /\ \A m \in D : Right(u, m) = Right(t, m)
  BY DEF LeftMore
<1> HIDE DEF D, E
<1>7. \A v \in D : Above(lo[n], v) => v >= n
  BY <1>2, <1>6
<1>8. lo[n] \in D \cup {0} /\ n \in Int /\ n # 0
  BY <1>1, <1>6
<1>9. w \notin D
  BY <1>7, <1>8
<1>10. Bounded(E, lo2, hi2)
  <2>1. ASSUME NEW m \in E
        PROVE  /\ m \in Int /\ m # 0
               /\ lo2[m] \in E \cup {0} /\ hi2[m] \in E \cup {0}
               /\ Above(lo2[m], m) /\ Below(hi2[m], m)
    <3>1. CASE m \in D
      BY <1>1, <1>5, <3>1
    <3>2. CASE m = w
      BY <1>5, <1>6, <1>8, <3>2 DEF Below
    <3>3. QED
      BY <1>5, <3>1, <3>2
  <2>2. QED
    BY <2>1 DEF Bounded
<1>11. LeftFull(u, E, lo2, hi2)
  <2>1. ASSUME NEW m \in E
        PROVE  IF Left(u, m) = 0 THEN \A v \in E : Above(lo2[m], v) => v >= m
               ELSE Left(u, m) \in E /\ lo2[Left(u, m)] = lo2[m] /\ hi2[Left(u, m)] = m
    <3>1. CASE m = w
      <4>1. ASSUME NEW v \in E, Above(lo[n], v) PROVE v >= w
        <5>1. CASE v \in D
          <6>1. v >= n /\ v \in Int
            BY <1>1, <1>7, <4>1, <5>1
          <6>2. QED
            BY <1>8, <6>1
        <5>2. CASE v = w
          BY <5>2
        <5>3. QED
          BY <1>5, <5>1, <5>2
      <4>2. QED
        BY <1>5, <3>1, <4>1
    <3>2. CASE m = n
      BY <1>5, <1>6, <3>2
    <3>3. CASE m \in D /\ m # n /\ Left(t, m) # 0
      <4>1. Left(t, m) \in D /\ lo[Left(t, m)] = lo[m] /\ hi[Left(t, m)] = m
        BY <1>2, <3>3
      <4>2. QED
        BY <1>5, <1>6, <3>3, <4>1
    <3>4. CASE m \in D /\ m # n /\ Left(t, m) = 0
      <4>1. \A v \in D : Above(lo[m], v) => v >= m
        BY <1>2, <3>4
      <4>2. m \in Int /\ lo[m] \in D \cup {0} /\ (lo[m] # 0 => lo[m] \in Int)
        BY <1>1, <3>4
      <4>3. ASSUME Above(lo[m], w) PROVE w >= m
        <5>1. SUFFICES ASSUME w < m PROVE FALSE
          BY <4>2
        <5>2. n < m => Above(lo[m], n)
          BY <1>8, <4>2, <4>3 DEF Above
        <5>3. n < m => FALSE
          BY <1>6, <1>8, <4>1, <4>2, <5>2
        <5>4. m < n => Above(lo[n], m)
          BY <1>1, <1>6, <4>2, <5>1 DEF Above
        <5>5. m < n => FALSE
          BY <1>7, <1>8, <3>4, <4>2, <5>4
        <5>6. QED
          BY <1>8, <3>4, <4>2, <5>3, <5>5
      <4>4. QED
        BY <1>5, <1>6, <3>4, <4>1, <4>3
    <3>5. QED
      BY <1>5, <3>1, <3>2, <3>3, <3>4
  <2>2. QED
    BY <2>1 DEF LeftFull
<1>12. RightFull(u, E, lo2, hi2)
  <2>1. ASSUME NEW m \in E
        PROVE  IF Right(u, m) = 0 THEN \A v \in E : Below(hi2[m], v) => v <= m
               ELSE Right(u, m) \in E /\ lo2[Right(u, m)] = m /\ hi2[Right(u, m)] = hi2[m]
    <3>1. CASE m = w
      <4>1. ASSUME NEW v \in E, v < n PROVE v <= w
        <5>1. CASE v \in D
          <6>1. v \in Int /\ ~Above(lo[n], v)
            BY <1>1, <1>7, <1>8, <4>1, <5>1
          <6>2. lo[n] # 0 /\ lo[n] \in Int
            BY <1>1, <1>8, <6>1 DEF Above
          <6>3. QED
            BY <6>1, <6>2 DEF Above
        <5>2. CASE v = w
          BY <5>2
        <5>3. QED
          BY <1>5, <5>1, <5>2
      <4>2. \A v : Below(n, v) => v < n
        BY <1>8 DEF Below
      <4>3. QED
        BY <1>5, <3>1, <4>1, <4>2
    <3>2. CASE m \in D /\ Right(t, m) # 0
      <4>1. Right(t, m) \in D /\ lo[Right(t, m)] = m /\ hi[Right(t, m)] = hi[m]
        BY <1>3, <3>2
      <4>2. QED
        BY <1>5, <1>6, <3>2, <4>1
    <3>3. CASE m \in D /\ Right(t, m) = 0
      <4>1. \A v \in D : Below(hi[m], v) => v <= m
        BY <1>3, <3>3
      <4>2. m \in Int /\ (hi[m] # 0 => hi[m] \in Int)
        BY <1>1, <3>3
      <4>3. ASSUME Below(hi[m], w) PROVE w <= m
        <5>1. SUFFICES ASSUME m < w PROVE FALSE
          BY <4>2
        <5>2. lo[n] # 0 /\ lo[n] \in D /\ lo[n] \in Int /\ m <= lo[n] /\ lo[n] < w
          <6>1. m < n /\ ~(m >= n)
            BY <1>8, <4>2, <5>1
          <6>2. ~Above(lo[n], m)
            BY <1>7, <3>3, <6>1
          <6>3. lo[n] # 0 /\ lo[n] \in D /\ lo[n] \in Int
            BY <1>1, <1>8, <6>2 DEF Above
          <6>4. QED
            BY <4>2, <6>2, <6>3 DEF Above
        <5>3. Below(hi[m], lo[n])
          BY <4>2, <4>3, <5>2 DEF Below
        <5>4. lo[n] <= m
          BY <4>1, <5>2, <5>3
        <5>5. lo[n] = m
          BY <4>2, <5>2, <5>4
        <5>6. Right(t, m) # 0
          BY <1>4, <1>6, <5>2, <5>5
        <5>7. QED
          BY <3>3, <5>6
      <4>4. QED
        BY <1>5, <1>6, <3>3, <4>1, <4>3
    <3>4. QED
      BY <1>5, <3>1, <3>2, <3>3
  <2>2. QED
    BY <2>1 DEF RightFull
<1>13. Turned(u, E, lo2, hi2)
  <2>1. \A m \in D : Left(t, m) # 0 => Left(u, m) # 0
    BY <1>6
  <2>2. ASSUME NEW m \in D PROVE /\ lo[m] # 0 => Right(u, lo[m]) # 0
                                 /\ hi[m] # 0 => Left(u, hi[m]) # 0
    BY <1>1, <1>4, <1>6, <2>1
  <2>3. Left(u, n) # 0
    BY <1>6
  <2>4. ASSUME NEW m \in E PROVE /\ lo2[m] # 0 => Right(u, lo2[m]) # 0
                                 /\ hi2[m] # 0 => Left(u, hi2[m]) # 0
    BY <1>5, <1>6, <2>2, <2>3
  <2>5. QED
    BY <2>4 DEF Turned
<1>14. Records(u)
  BY DEF Grown
<1>15. QED
  BY <1>9, <1>10, <1>11, <1>12, <1>13, <1>14 DEF Searchable, D, E

\* The same on the right side.
LEMMA GrowRight ==
  ASSUME NEW t, NEW lo, NEW hi, Searchable(t, lo, hi),
         NEW n \in DOMAIN t, Right(t, n) = 0,
         NEW w \in Int, w # 0, w > n, Below(hi[n], w),
         NEW u, NEW lo2, NEW hi2, Grown(t, u, lo, lo2, hi, hi2, w),
         hi2[w] = hi[n], lo2[w] = n,
         RightMore(t, u, n, w)
  PROVE  w \notin DOMAIN t /\ Searchable(u, lo2, hi2)
<1> DEFINE D == DOMAIN t
           E == DOMAIN u
<1>1. \A m \in D :
        /\ m \in Int /\ m # 0
        /\ hi[m] \in D \cup {0} /\ lo[m] \in D \cup {0}
        /\ Below(hi[m], m) /\ Above(lo[m], m)
  BY DEF Searchable, Bounded
<1>2. \A m \in D :
        IF Right(t, m) = 0 THEN \A v \in D : Below(hi[m], v) => v <= m
        ELSE Right(t, m) \in D /\ hi[Right(t, m)] = hi[m] /\ lo[Right(t, m)] = m
  BY DEF Searchable, RightFull
<1>3. \A m \in D :
        IF Left(t, m) = 0 THEN \A v \in D : Above(lo[m], v) => v >= m
        ELSE Left(t, m) \in D /\ hi[Left(t, m)] = m /\ lo[Left(t, m)] = lo[m]
  BY DEF Searchable, LeftFull
<1>4. \A m \in D : /\ hi[m] # 0 => Left(t, hi[m]) # 0
                   /\ lo[m] # 0 => Right(t, lo[m]) # 0
  BY DEF Searchable, Turned
<1>5. /\ E = D \cup {w}
      /\ Right(u, w) = 0 /\ Left(u, w) = 0
      /\ \A m \in D : hi2[m] = hi[m] /\ lo2[m] = lo[m]
  BY DEF Grown
<1>6. /\ n \in D
      /\ Right(u, n) = w /\ \A m \in D : m # n => Right(u, m) = Right(t, m)
      /\ \A m \in D : Left(u, m) = Left(t, m)
  BY DEF RightMore
<1> HIDE DEF D, E
<1>7. \A v \in D : Below(hi[n], v) => v <= n
  BY <1>2, <1>6
<1>8. hi[n] \in D \cup {0} /\ n \in Int /\ n # 0
  BY <1>1, <1>6
<1>9. w \notin D
  BY <1>7, <1>8
<1>10. Bounded(E, lo2, hi2)
  <2>1. ASSUME NEW m \in E
        PROVE  /\ m \in Int /\ m # 0
               /\ hi2[m] \in E \cup {0} /\ lo2[m] \in E \cup {0}
               /\ Below(hi2[m], m) /\ Above(lo2[m], m)
    <3>1. CASE m \in D
      BY <1>1, <1>5, <3>1
    <3>2. CASE m = w
      BY <1>5, <1>6, <1>8, <3>2 DEF Above
    <3>3. QED
      BY <1>5, <3>1, <3>2
  <2>2. QED
    BY <2>1 DEF Bounded
<1>11. RightFull(u, E, lo2, hi2)
  <2>1. ASSUME NEW m \in E
        PROVE  IF Right(u, m) = 0 THEN \A v \in E : Below(hi2[m], v) => v <= m
               ELSE Right(u, m) \in E /\ hi2[Right(u, m)] = hi2[m] /\ lo2[Right(u, m)] = m
    <3>1. CASE m = w
      <4>1. ASSUME NEW v \in E, Below(hi[n], v) PROVE v <= w
        <5>1. CASE v \in D
          <6>1. v <= n /\ v \in Int
            BY <1>1, <1>7, <4>1, <5>1
          <6>2. QED
            BY <1>8, <6>1
        <5>2. CASE v = w
          BY <5>2
        <5>3. QED
          BY <1>5, <5>1, <5>2
      <4>2. QED
        BY <1>5, <3>1, <4>1
    <3>2. CASE m = n
      BY <1>5, <1>6, <3>2
    <3>3. CASE m \in D /\ m # n /\ Right(t, m) # 0
      <4>1. Right(t, m) \in D /\ hi[Right(t, m)] = hi[m] /\ lo[Right(t, m)] = m
        BY <1>2, <3>3
      <4>2. QED
        BY <1>5, <1>6, <3>3, <4>1
    <3>4. CASE m \in D /\ m # n /\ Right(t, m) = 0
      <4>1. \A v \in D : Below(hi[m], v) => v <= m
        BY <1>2, <3>4
      <4>2. m \in Int /\ hi[m] \in D \cup {0} /\ (hi[m] # 0 => hi[m] \in Int)
        BY <1>1, <3>4
      <4>3. ASSUME Below(hi[m], w) PROVE w <= m
        <5>1. SUFFICES ASSUME w > m PROVE FALSE
          BY <4>2
        <5>2. n > m => Below(hi[m], n)
          BY <1>8, <4>2, <4>3 DEF Below
        <5>3. n > m => FALSE
          BY <1>6, <1>8, <4>1, <4>2, <5>2
        <5>4. m > n => Below(hi[n], m)
          BY <1>1, <1>6, <4>2, <5>1 DEF Below
        <5>5. m > n => FALSE
          BY <1>7, <1>8, <3>4, <4>2, <5>4
        <5>6. QED
          BY <1>8, <3>4, <4>2, <5>3, <5>5
      <4>4. QED
        BY <1>5, <1>6, <3>4, <4>1, <4>3
    <3>5. QED
      BY <1>5, <3>1, <3>2, <3>3, <3>4
  <2>2. QED
    BY <2>1 DEF RightFull
<1>12. LeftFull(u, E, lo2, hi2)
  <2>1. ASSUME NEW m \in E
        PROVE  IF Left(u, m) = 0 THEN \A v \in E : Above(lo2[m], v) => v >= m
               ELSE Left(u, m) \in E /\ hi2[Left(u, m)] = m /\ lo2[Left(u, m)] = lo2[m]
    <3>1. CASE m = w
      <4>1. ASSUME NEW v \in E, v > n PROVE v >= w
        <5>1. CASE v \in D
          <6>1. v \in Int /\ ~Below(hi[n], v)
            BY <1>1, <1>7, <1>8, <4>1, <5>1
          <6>2. hi[n] # 0 /\ hi[n] \in Int
            BY <1>1, <1>8, <6>1 DEF Below
          <6>3. QED
            BY <6>1, <6>2 DEF Below
        <5>2. CASE v = w
          BY <5>2
        <5>3. QED
          BY <1>5, <5>1, <5>2
      <4>2. \A v : Above(n, v) => v > n
        BY <1>8 DEF Above
      <4>3. QED
        BY <1>5, <3>1, <4>1, <4>2
    <3>2. CASE m \in D /\ Left(t, m) # 0
      <4>1. Left(t, m) \in D /\ hi[Left(t, m)] = m /\ lo[Left(t, m)] = lo[m]
        BY <1>3, <3>2
      <4>2. QED
        BY <1>5, <1>6, <3>2, <4>1
    <3>3. CASE m \in D /\ Left(t, m) = 0
      <4>1. \A v \in D : Above(lo[m], v) => v >= m
        BY <1>3, <3>3
      <4>2. m \in Int /\ (lo[m] # 0 => lo[m] \in Int)
        BY <1>1, <3>3
      <4>3. ASSUME Above(lo[m], w) PROVE w >= m
        <5>1. SUFFICES ASSUME m > w PROVE FALSE
          BY <4>2
        <5>2. hi[n] # 0 /\ hi[n] \in D /\ hi[n] \in Int /\ m >= hi[n] /\ hi[n] > w
          <6>1. m > n /\ ~(m <= n)
            BY <1>8, <4>2, <5>1
          <6>2. ~Below(hi[n], m)
            BY <1>7, <3>3, <6>1
          <6>3. hi[n] # 0 /\ hi[n] \in D /\ hi[n] \in Int
            BY <1>1, <1>8, <6>2 DEF Below
          <6>4. QED
            BY <4>2, <6>2, <6>3 DEF Below
        <5>3. Above(lo[m], hi[n])
          BY <4>2, <4>3, <5>2 DEF Above
        <5>4. hi[n] >= m
          BY <4>1, <5>2, <5>3
        <5>5. hi[n] = m
          BY <4>2, <5>2, <5>4
        <5>6. Left(t, m) # 0
          BY <1>4, <1>6, <5>2, <5>5
        <5>7. QED
          BY <3>3, <5>6
      <4>4. QED
        BY <1>5, <1>6, <3>3, <4>1, <4>3
    <3>4. QED
      BY <1>5, <3>1, <3>2, <3>3
  <2>2. QED
    BY <2>1 DEF LeftFull
<1>13. Turned(u, E, lo2, hi2)
  <2>1. \A m \in D : Right(t, m) # 0 => Right(u, m) # 0
    BY <1>6
  <2>2. ASSUME NEW m \in D PROVE /\ hi[m] # 0 => Left(u, hi[m]) # 0
                                 /\ lo[m] # 0 => Right(u, lo[m]) # 0
    BY <1>1, <1>4, <1>6, <2>1
  <2>3. Right(u, n) # 0
    BY <1>6
  <2>4. ASSUME NEW m \in E PROVE /\ hi2[m] # 0 => Left(u, hi2[m]) # 0
                                 /\ lo2[m] # 0 => Right(u, lo2[m]) # 0
    BY <1>5, <1>6, <2>2, <2>3
  <2>5. QED
    BY <2>4 DEF Turned
<1>14. Records(u)
  BY DEF Grown
<1>15. QED
  BY <1>9, <1>10, <1>11, <1>12, <1>13, <1>14 DEF Searchable, D, E

\* What the tree holds: the values taken so far.
Taken(a, n) == {a[x] : x \in 1 .. n}

\* Down from n is where v is, or would be.
OnWay(t, lo, hi, n, v) == n \in DOMAIN t /\ Above(lo[n], v) /\ Below(hi[n], v)

\* The root is a node without bounds, unless there is none.
Rooted(t, r, lo, hi) ==
  /\ Searchable(t, lo, hi)
  /\ r = 0 => DOMAIN t = {}
  /\ r # 0 => r \in DOMAIN t /\ lo[r] = 0 /\ hi[r] = 0

\* A leaf put under a node.
Put(t, n, s, w) ==
  [m \in DOMAIN t \cup {w} |->
     IF m = w THEN Leaf ELSE IF m = n THEN [t[n] EXCEPT ![s] = w] ELSE t[m]]

LEMMA PutUnder ==
  ASSUME NEW t, Records(t), NEW n \in DOMAIN t,
         NEW w \in Int, w \notin DOMAIN t, NEW s \in {"left", "right"},
         NEW u, u = Put(t, n, s, w)
  PROVE  /\ DOMAIN u = DOMAIN t \cup {w}
         /\ Left(u, w) = 0 /\ Right(u, w) = 0
         /\ Records(u)
         /\ s = "left" => LeftMore(t, u, n, w)
         /\ s = "right" => RightMore(t, u, n, w)
<1> DEFINE D == DOMAIN t
           x == [t[n] EXCEPT ![s] = w]
<1>1. t[n] \in [left : Int, right : Int] /\ \A m \in D : t[m] \in [left : Int, right : Int]
  BY DEF Records
<1>2. x \in [left : Int, right : Int]
      /\ (s = "left" => x.left = w /\ x.right = t[n].right)
      /\ (s = "right" => x.right = w /\ x.left = t[n].left)
  BY <1>1
<1>3. u = [m \in D \cup {w} |-> IF m = w THEN Leaf ELSE IF m = n THEN x ELSE t[m]]
  BY DEF Put
<1>4. Leaf \in [left : Int, right : Int] /\ Leaf.left = 0 /\ Leaf.right = 0
  BY DEF Leaf
<1>5. n \in D /\ w \notin D
  OBVIOUS
<1> HIDE DEF D, x
<1>6. DOMAIN u = D \cup {w} /\ u[w] = Leaf /\ u[n] = x
      /\ \A m \in D : m # n => u[m] = t[m]
  BY <1>3, <1>5
<1>7. Records(u)
  BY <1>1, <1>2, <1>4, <1>6 DEF Records
<1>8. \A m \in D : m # n => Left(u, m) = Left(t, m) /\ Right(u, m) = Right(t, m)
  BY <1>6 DEF Left, Right
<1>9. ASSUME s = "left" PROVE LeftMore(t, u, n, w)
  <2>1. Left(u, n) = w /\ Right(u, n) = Right(t, n)
    BY <1>2, <1>6, <1>9 DEF Left, Right
  <2>2. QED
    BY <1>8, <2>1 DEF LeftMore, D
<1>10. ASSUME s = "right" PROVE RightMore(t, u, n, w)
  <2>1. Right(u, n) = w /\ Left(u, n) = Left(t, n)
    BY <1>2, <1>6, <1>10 DEF Left, Right
  <2>2. QED
    BY <1>8, <2>1 DEF RightMore, D
<1>11. Left(u, w) = 0 /\ Right(u, w) = 0
  BY <1>4, <1>6 DEF Left, Right
<1>12. QED
  BY <1>6, <1>7, <1>9, <1>10, <1>11 DEF D

\* On which side of n the value goes.
Side(w, n) == IF w < n THEN "left" ELSE "right"

\* n is where w belongs.
Vacant(t, r, lo, hi, n, w) ==
  /\ r # 0 /\ Rooted(t, r, lo, hi)
  /\ w \in Int /\ w # 0 /\ OnWay(t, lo, hi, n, w) /\ n # w
  /\ t[n][Side(w, n)] = 0

\* The tree can be searched from its root.
Findable(t, r) == \E lo, hi : Rooted(t, r, lo, hi)

\* u has w more, and can be searched from its root.
Gained(t, u, r, w) == DOMAIN u = DOMAIN t \cup {w} /\ Findable(u, r)

\* The value's place found: the tree with it can be searched too.
LEMMA PutInPlace ==
  ASSUME NEW t, NEW r, NEW lo, NEW hi, NEW w, NEW n, Vacant(t, r, lo, hi, n, w),
         NEW u, u = Put(t, n, Side(w, n), w)
  PROVE  Gained(t, u, r, w)
<1> DEFINE D == DOMAIN t
           s == Side(w, n)
<1>1. /\ Searchable(t, lo, hi) /\ Bounded(D, lo, hi)
      /\ LeftFull(t, D, lo, hi) /\ RightFull(t, D, lo, hi) /\ Records(t)
      /\ n \in D /\ Above(lo[n], w) /\ Below(hi[n], w)
      /\ r \in D /\ lo[r] = 0 /\ hi[r] = 0
      /\ r # 0 /\ w \in Int /\ w # 0 /\ n # w /\ t[n][s] = 0
  BY DEF Vacant, Rooted, OnWay, Searchable
<1>2. n \in Int /\ n # 0
  BY <1>1 DEF Bounded
<1>3. s = "left" => w < n /\ Left(t, n) = 0
  BY <1>1 DEF Left, Side
<1>4. s = "right" => w > n /\ Right(t, n) = 0
  BY <1>1, <1>2 DEF Right, Side
<1>5. s \in {"left", "right"} /\ u = Put(t, n, s, w)
  BY DEF Side
<1> HIDE DEF s
<1>6. w \notin D
  <2>1. CASE s = "left"
    <3>1. \A v \in D : Above(lo[n], v) => v >= n
      BY <1>1, <1>3, <2>1 DEF LeftFull
    <3>2. QED
      BY <1>1, <1>2, <1>3, <2>1, <3>1
  <2>2. CASE s = "right"
    <3>1. \A v \in D : Below(hi[n], v) => v <= n
      BY <1>1, <1>4, <2>2 DEF RightFull
    <3>2. QED
      BY <1>1, <1>2, <1>4, <2>2, <3>1
  <2>3. QED
    BY <1>5, <2>1, <2>2
<1>7. /\ DOMAIN u = D \cup {w}
      /\ Left(u, w) = 0 /\ Right(u, w) = 0
      /\ Records(u)
      /\ s = "left" => LeftMore(t, u, n, w)
      /\ s = "right" => RightMore(t, u, n, w)
  <2>1. n \in DOMAIN t /\ w \in Int /\ w \notin DOMAIN t /\ Records(t)
    BY <1>1, <1>6
  <2>2. QED
    BY <1>5, <2>1, PutUnder
<1> DEFINE lo2 == [m \in D \cup {w} |-> IF m = w THEN IF w < n THEN lo[n] ELSE n ELSE lo[m]]
           hi2 == [m \in D \cup {w} |-> IF m = w THEN IF w < n THEN n ELSE hi[n] ELSE hi[m]]
<1>8. /\ \A m \in D : lo2[m] = lo[m] /\ hi2[m] = hi[m]
      /\ w < n => lo2[w] = lo[n] /\ hi2[w] = n
      /\ ~(w < n) => lo2[w] = n /\ hi2[w] = hi[n]
  BY <1>6
<1> HIDE DEF lo2, hi2
<1>9. Grown(t, u, lo, lo2, hi, hi2, w)
  BY <1>7, <1>8 DEF Grown
<1>10. Searchable(u, lo2, hi2)
  <2>1. CASE s = "left"
    <3>1. w < n /\ Left(t, n) = 0 /\ lo2[w] = lo[n] /\ hi2[w] = n
      BY <1>3, <1>8, <2>1
    <3>2. LeftMore(t, u, n, w) /\ n \in DOMAIN t
      BY <1>1, <1>7, <2>1
    <3>3. QED
      BY <1>1, <1>9, <3>1, <3>2, GrowLeft
  <2>2. CASE s = "right"
    <3>1. w > n /\ Right(t, n) = 0 /\ lo2[w] = n /\ hi2[w] = hi[n]
      BY <1>1, <1>2, <1>4, <1>8, <2>2
    <3>2. RightMore(t, u, n, w) /\ n \in DOMAIN t
      BY <1>1, <1>7, <2>2
    <3>3. QED
      BY <1>1, <1>9, <3>1, <3>2, GrowRight
  <2>3. QED
    BY <1>5, <2>1, <2>2
<1>11. Rooted(u, r, lo2, hi2)
  BY <1>1, <1>7, <1>8, <1>10 DEF Rooted
<1>12. QED
  BY <1>7, <1>11 DEF Findable, Gained

\* One level down, towards v.
LEMMA StepDown ==
  ASSUME NEW t, NEW lo, NEW hi, Searchable(t, lo, hi),
         NEW v \in Int, NEW n, OnWay(t, lo, hi, n, v), n # v,
         NEW c, c = IF v < n THEN Left(t, n) ELSE Right(t, n)
  PROVE  /\ c # 0 => /\ OnWay(t, lo, hi, c, v)
                     /\ v < n => lo[c] = lo[n] /\ hi[c] = n
                     /\ ~(v < n) => lo[c] = n /\ hi[c] = hi[n]
         /\ c = 0 => v \notin DOMAIN t
<1>1. n \in DOMAIN t /\ n \in Int /\ n # 0 /\ Above(lo[n], v) /\ Below(hi[n], v)
  BY DEF OnWay, Searchable, Bounded
<1>2. CASE v < n
  <2>1. IF c = 0 THEN \A x \in DOMAIN t : Above(lo[n], x) => x >= n
        ELSE c \in DOMAIN t /\ lo[c] = lo[n] /\ hi[c] = n
    BY <1>1, <1>2 DEF Searchable, LeftFull
  <2>2. QED
    BY <1>1, <1>2, <2>1 DEF OnWay, Below
<1>3. CASE ~(v < n)
  <2>1. IF c = 0 THEN \A x \in DOMAIN t : Below(hi[n], x) => x <= n
        ELSE c \in DOMAIN t /\ lo[c] = n /\ hi[c] = hi[n]
    BY <1>1, <1>3 DEF Searchable, RightFull
  <2>2. QED
    BY <1>1, <1>3, <2>1 DEF OnWay, Above
<1>4. QED
  BY <1>2, <1>3

\* The first value is the root.
LEMMA FirstRoot ==
  ASSUME NEW w \in Int, w # 0, NEW u, u = [m \in {w} |-> Leaf]
  PROVE  DOMAIN u = {w} /\ Findable(u, w)
<1> DEFINE z == [m \in {w} |-> 0]
<1>1. u = [m \in {w} |-> Leaf]
  OBVIOUS
<1>2. /\ DOMAIN u = {w} /\ u[w] = Leaf /\ z[w] = 0
      /\ Leaf \in [left : Int, right : Int] /\ Leaf.left = 0 /\ Leaf.right = 0
  BY <1>1 DEF Leaf
<1>3. Left(u, w) = 0 /\ Right(u, w) = 0
  BY <1>2 DEF Left, Right
<1> HIDE DEF z
<1>4. Bounded({w}, z, z) /\ LeftFull(u, {w}, z, z) /\ RightFull(u, {w}, z, z) /\ Turned(u, {w}, z, z)
  BY <1>2, <1>3 DEF Bounded, LeftFull, RightFull, Turned, Above, Below
<1>5. Rooted(u, w, z, z)
  BY <1>2, <1>4 DEF Rooted, Searchable, Records
<1>6. QED
  BY <1>2, <1>5 DEF Findable

-------------------------------------------------------------------------------
(* The walk, from one node to the next. *)

\* The innermost of the walk's open nodes.
Innermost(p) == IF p = <<>> THEN 0 ELSE p[Len(p)]

\* Each open node is in the left subtree of the one before it, and under no other.
Spine(D, hi, p) ==
  \A y \in 1 .. Len(p) : p[y] \in D /\ hi[p[y]] = IF y = 1 THEN 0 ELSE p[y - 1]

\* What the walk has emitted when it is at node n, inside b.
Visited(D, lo, n, b, v) == v \in D /\ IF n = 0 THEN Below(b, v) ELSE ~Above(lo[n], v)

\* InOrder, of the tree's nodes.
Ascending(s, D) ==
  \A x \in 1 .. Len(s) :
    s[x] \in D /\ \A v \in D : v < s[x] <=> \E y \in 1 .. x - 1 : s[y] = v

\* A path's last node and the rest.
LEMMA LastPart ==
  ASSUME NEW p \in Seq(Int), p # <<>>
  PROVE  /\ Len(p) \in Nat \ {0} /\ Last(p) = p[Len(p)] /\ Innermost(p) = Last(p)
         /\ Front(p) \in Seq(Int) /\ Len(Front(p)) = Len(p) - 1
         /\ \A x \in 1 .. (Len(p) - 1) : Front(p)[x] = p[x]
         /\ Last(p) \in Int
<1>1. Len(p) \in Nat \ {0}
  BY LenProperties, EmptySeq
<1>2. Last(p) = p[Len(p)]
  BY DEF Last
<1>3. Front(p) = SubSeq(p, 1, Len(p) - 1)
  BY DEF Front
<1> DEFINE n == Len(p) - 1
<1>4. n \in Nat /\ n <= Len(p) /\ n \in Int
  BY <1>1
<1> HIDE DEF n
<1>5. /\ SubSeq(p, 1, n) \in Seq(Int) /\ Len(SubSeq(p, 1, n)) = n
      /\ \A x \in 1 .. n : SubSeq(p, 1, n)[x] = p[x]
  BY <1>1, <1>4
<1>6. p[Len(p)] \in Int
  BY <1>1
<1>7. QED
  BY <1>1, <1>2, <1>3, <1>5, <1>6 DEF n, Innermost

\* A node opened, and a node closed.
LEMMA SpineMore ==
  ASSUME NEW D \in SUBSET Int, NEW hi, NEW p \in Seq(Int), Spine(D, hi, p),
         NEW n \in D, hi[n] = Innermost(p)
  PROVE  Spine(D, hi, Append(p, n)) /\ Innermost(Append(p, n)) = n
<1> DEFINE q == Append(p, n)
           m == Len(p)
<1>1. /\ n \in Int /\ q \in Seq(Int) /\ Len(q) = m + 1 /\ m \in Nat
      /\ \A x \in 1 .. (m + 1) : q[x] = IF x <= m THEN p[x] ELSE n
  BY AppendParts
<1>2. hi[n] = IF m = 0 THEN 0 ELSE p[m]
  <2>1. m = 0 <=> p = <<>>
    BY EmptySeq
  <2>2. QED
    BY <2>1 DEF Innermost
<1>3. \A y \in 1 .. m : p[y] \in D /\ hi[p[y]] = IF y = 1 THEN 0 ELSE p[y - 1]
  BY DEF Spine
<1>4. q # <<>>
  BY <1>1, EmptySeq
<1> HIDE DEF q, m
<1>5. ASSUME NEW y \in 1 .. (m + 1)
      PROVE  q[y] \in D /\ hi[q[y]] = IF y = 1 THEN 0 ELSE q[y - 1]
  <2>1. y = 1 \/ (y - 1 \in 1 .. (m + 1) /\ y - 1 <= m /\ q[y - 1] = p[y - 1])
    BY <1>1
  <2>2. CASE y <= m
    <3>1. y \in 1 .. m /\ q[y] = p[y]
      BY <1>1, <2>2
    <3>2. QED
      BY <1>3, <2>1, <3>1
  <2>3. CASE ~(y <= m)
    <3>1. y = m + 1 /\ q[y] = n
      BY <1>1, <2>3
    <3>2. QED
      BY <1>1, <1>2, <2>1, <3>1
  <2>4. QED
    BY <2>2, <2>3
<1>6. q[m + 1] = n
  BY <1>1
<1>7. QED
  BY <1>1, <1>4, <1>5, <1>6 DEF Spine, Innermost, q

LEMMA SpineLess ==
  ASSUME NEW D, NEW hi, NEW p \in Seq(Int), p # <<>>, Spine(D, hi, p)
  PROVE  /\ Last(p) \in D /\ hi[Last(p)] = Innermost(Front(p))
         /\ Spine(D, hi, Front(p))
<1> DEFINE q == Front(p)
           m == Len(p) - 1
<1>1. /\ Len(p) = m + 1 /\ m \in Nat /\ Last(p) = p[m + 1]
      /\ q \in Seq(Int) /\ Len(q) = m /\ \A x \in 1 .. m : q[x] = p[x]
  BY LastPart
<1>2. \A y \in 1 .. (m + 1) : p[y] \in D /\ hi[p[y]] = IF y = 1 THEN 0 ELSE p[y - 1]
  BY <1>1 DEF Spine
<1>3. q = <<>> <=> m = 0
  BY <1>1, EmptySeq
<1> HIDE DEF q, m
<1>4. m + 1 \in 1 .. (m + 1) /\ (m + 1) - 1 = m
  BY <1>1
<1>5. Last(p) \in D /\ hi[Last(p)] = IF m = 0 THEN 0 ELSE p[m]
  BY <1>1, <1>2, <1>4
<1>6. Innermost(q) = IF m = 0 THEN 0 ELSE p[m]
  <2>1. m # 0 => q[m] = p[m]
    BY <1>1
  <2>2. QED
    BY <1>1, <1>3, <2>1 DEF Innermost
<1>7. ASSUME NEW y \in 1 .. m PROVE q[y] \in D /\ hi[q[y]] = IF y = 1 THEN 0 ELSE q[y - 1]
  <2>1. y \in 1 .. (m + 1) /\ q[y] = p[y]
    BY <1>1
  <2>2. y # 1 => q[y - 1] = p[y - 1]
    BY <1>1
  <2>3. QED
    BY <1>2, <2>1, <2>2
<1>8. QED
  BY <1>1, <1>5, <1>6, <1>7 DEF Spine, q

\* Going to the left child, the walk has emitted nothing new.
LEMMA DownVisits ==
  ASSUME NEW t, NEW lo, NEW hi, Searchable(t, lo, hi), NEW n \in DOMAIN t, NEW b
  PROVE  /\ Left(t, n) # 0 => Left(t, n) \in DOMAIN t /\ hi[Left(t, n)] = n
         /\ \A v : Visited(DOMAIN t, lo, n, b, v) <=> Visited(DOMAIN t, lo, Left(t, n), n, v)
<1> DEFINE D == DOMAIN t
           c == Left(t, n)
<1>1. \A v \in D : v \in Int /\ v # 0
  BY DEF Searchable, Bounded
<1>2. n \in D /\ n \in Int /\ n # 0 /\ lo[n] \in D \cup {0} /\ Above(lo[n], n)
  BY DEF Searchable, Bounded
<1>3. IF c = 0 THEN \A v \in D : Above(lo[n], v) => v >= n
      ELSE c \in D /\ lo[c] = lo[n] /\ hi[c] = n
  BY <1>2 DEF Searchable, LeftFull
<1> HIDE DEF D, c
<1>4. CASE c = 0
  <2>1. ASSUME NEW v \in D PROVE ~Above(lo[n], v) <=> v < n
    BY <1>1, <1>2, <1>3, <1>4 DEF Above
  <2>2. \A v : Below(n, v) <=> v < n
    BY <1>2 DEF Below
  <2>3. QED
    BY <1>2, <1>4, <2>1, <2>2 DEF Visited, D, c
<1>5. CASE c # 0
  BY <1>2, <1>3, <1>5 DEF Visited, D, c
<1>6. QED
  BY <1>4, <1>5

\* A node emitted, the walk goes on in its right subtree.
LEMMA UpVisits ==
  ASSUME NEW t, NEW lo, NEW hi, Searchable(t, lo, hi), NEW n \in DOMAIN t
  PROVE  /\ Right(t, n) # 0 => Right(t, n) \in DOMAIN t /\ hi[Right(t, n)] = hi[n]
         /\ \A v : Visited(DOMAIN t, lo, 0, n, v) \/ v = n
                     <=> Visited(DOMAIN t, lo, Right(t, n), hi[n], v)
         /\ \A v : Visited(DOMAIN t, lo, 0, n, v) <=> v \in DOMAIN t /\ v < n
<1> DEFINE D == DOMAIN t
           c == Right(t, n)
<1>1. \A v \in D : v \in Int /\ v # 0
  BY DEF Searchable, Bounded
<1>2. n \in D /\ n \in Int /\ n # 0 /\ hi[n] \in D \cup {0} /\ Below(hi[n], n)
  BY DEF Searchable, Bounded
<1>3. IF c = 0 THEN \A v \in D : Below(hi[n], v) => v <= n
      ELSE c \in D /\ lo[c] = n /\ hi[c] = hi[n]
  BY <1>2 DEF Searchable, RightFull
<1> HIDE DEF D, c
<1>4. \A v : Visited(D, lo, 0, n, v) <=> v \in D /\ v < n
  BY <1>2 DEF Visited, Below
<1>5. CASE c = 0
  <2>1. ASSUME NEW v \in D PROVE Below(hi[n], v) <=> (v < n \/ v = n)
    BY <1>1, <1>2, <1>3, <1>5 DEF Below
  <2>2. \A v : Visited(D, lo, 0, n, v) \/ v = n <=> Visited(D, lo, c, hi[n], v)
    BY <1>2, <1>4, <1>5, <2>1 DEF Visited
  <2>3. QED
    BY <1>4, <1>5, <2>2 DEF D, c
<1>6. CASE c # 0
  <2>1. ASSUME NEW v \in D PROVE ~Above(lo[c], v) <=> (v < n \/ v = n)
    BY <1>1, <1>2, <1>3, <1>6 DEF Above
  <2>2. \A v : Visited(D, lo, 0, n, v) \/ v = n <=> Visited(D, lo, c, hi[n], v)
    BY <1>2, <1>4, <1>6, <2>1 DEF Visited
  <2>3. QED
    BY <1>3, <1>4, <1>6, <2>2 DEF D, c
<1>7. QED
  BY <1>5, <1>6

\* The next node in order emitted.
LEMMA AscendingMore ==
  ASSUME NEW D \in SUBSET Int, NEW s \in Seq(Int), Ascending(s, D), NEW n \in D,
         \A v : Contains(s, v) <=> v \in D /\ v < n
  PROVE  Ascending(Append(s, n), D)
<1> DEFINE u == Append(s, n)
           m == Len(s)
<1>1. /\ n \in Int /\ Len(u) = m + 1 /\ m \in Nat
      /\ \A x \in 1 .. (m + 1) : u[x] = IF x <= m THEN s[x] ELSE n
  BY AppendParts
<1>2. \A x \in 1 .. m : s[x] \in D /\ \A v \in D : v < s[x] <=> \E y \in 1 .. x - 1 : s[y] = v
  BY DEF Ascending
<1>3. \A v : (\E y \in 1 .. m : s[y] = v) <=> v \in D /\ v < n
  BY DEF Contains
<1> HIDE DEF u, m
<1>4. \A x \in 1 .. m : x \in 1 .. (m + 1) /\ u[x] = s[x]
  BY <1>1
<1>5. ASSUME NEW x \in 1 .. (m + 1)
      PROVE  u[x] \in D /\ \A v \in D : v < u[x] <=> \E y \in 1 .. x - 1 : u[y] = v
  <2>1. \A y \in 1 .. x - 1 : y \in 1 .. m /\ u[y] = s[y]
    BY <1>1, <1>4
  <2>2. CASE x <= m
    <3>1. x \in 1 .. m /\ u[x] = s[x]
      BY <1>1, <1>4, <2>2
    <3>2. u[x] \in D
      BY <1>2, <3>1
    <3>3. ASSUME NEW v \in D PROVE v < u[x] <=> \E y \in 1 .. x - 1 : u[y] = v
      <4>1. v < s[x] <=> \E y \in 1 .. x - 1 : s[y] = v
        BY <1>2, <3>1
      <4>2. (\E y \in 1 .. x - 1 : s[y] = v) <=> \E y \in 1 .. x - 1 : u[y] = v
        BY <2>1
      <4>3. QED
        BY <3>1, <4>1, <4>2
    <3>4. QED
      BY <3>2, <3>3
  <2>3. CASE ~(x <= m)
    <3>1. x = m + 1 /\ u[x] = n /\ x - 1 = m
      BY <1>1, <2>3
    <3>2. QED
      BY <1>3, <2>1, <3>1
  <2>4. QED
    BY <2>2, <2>3
<1>6. QED
  BY <1>1, <1>5 DEF Ascending, u

-------------------------------------------------------------------------------
(* The search, from one node to the next. *)

\* The comparison with an earlier node p of the search's path, which is not the target,
\* bounds what is below n on the target's side.
Narrowed(lo, hi, n, p, v) ==
  /\ p # v
  /\ v < p => hi[n] # 0 /\ hi[n] <= p
  /\ p < v => lo[n] # 0 /\ p <= lo[n]

\* No node of a path is met twice or lies beyond what an earlier one ruled out.
Straight(p, v) ==
  \A x, y \in 1 .. Len(p) : x < y => p[x] # p[y] /\ ((p[y] < p[x]) <=> (v < p[x]))

\* Every node of the path has bounded what is below n.
AllNarrowed(D, lo, hi, n, p, v) ==
  \A y \in 1 .. Len(p) : p[y] \in D /\ p[y] # v /\ (n # 0 => Narrowed(lo, hi, n, p[y], v))

\* A node within the bounds makes no detour.
LEMMA StraightMore ==
  ASSUME NEW t, NEW lo, NEW hi, Searchable(t, lo, hi), NEW v \in Int,
         NEW p \in Seq(Int), Straight(p, v), NEW n \in DOMAIN t, n # 0,
         AllNarrowed(DOMAIN t, lo, hi, n, p, v)
  PROVE  Straight(Append(p, n), v)
<1> DEFINE q == Append(p, n)
           m == Len(p)
<1>1. n \in Int /\ Above(lo[n], n) /\ Below(hi[n], n)
      /\ lo[n] \in DOMAIN t \cup {0} /\ hi[n] \in DOMAIN t \cup {0}
      /\ \A u \in DOMAIN t : u \in Int
  BY DEF Searchable, Bounded
<1>2. /\ Len(q) = m + 1 /\ m \in Nat
      /\ \A x \in 1 .. (m + 1) : q[x] = IF x <= m THEN p[x] ELSE n
  BY <1>1, AppendParts
<1>3. \A x, y \in 1 .. m : x < y => p[x] # p[y] /\ ((p[y] < p[x]) <=> (v < p[x]))
  BY DEF Straight
<1>4. \A y \in 1 .. m : p[y] \in Int /\ Narrowed(lo, hi, n, p[y], v)
  BY <1>1 DEF AllNarrowed
<1>5. ASSUME NEW y \in 1 .. m PROVE p[y] # n /\ ((n < p[y]) <=> (v < p[y]))
  <2>1. CASE v < p[y]
    <3>1. hi[n] # 0 /\ hi[n] <= p[y] /\ hi[n] \in Int
      BY <1>1, <1>4, <2>1 DEF Narrowed
    <3>2. n < hi[n]
      BY <1>1, <3>1 DEF Below
    <3>3. QED
      BY <1>1, <1>4, <2>1, <3>1, <3>2
  <2>2. CASE p[y] < v
    <3>1. lo[n] # 0 /\ p[y] <= lo[n] /\ lo[n] \in Int
      BY <1>1, <1>4, <2>2 DEF Narrowed
    <3>2. lo[n] < n
      BY <1>1, <3>1 DEF Above
    <3>3. QED
      BY <1>1, <1>4, <2>2, <3>1, <3>2
  <2>3. p[y] # v /\ p[y] \in Int
    BY <1>4 DEF Narrowed
  <2>4. QED
    BY <2>1, <2>2, <2>3
<1> HIDE DEF q, m
<1>6. ASSUME NEW x \in 1 .. (m + 1), NEW y \in 1 .. (m + 1), x < y
      PROVE  q[x] # q[y] /\ ((q[y] < q[x]) <=> (v < q[x]))
  <2>1. x \in 1 .. m /\ q[x] = p[x]
    BY <1>2, <1>6
  <2>2. CASE y <= m
    <3>1. y \in 1 .. m /\ q[y] = p[y]
      BY <1>2, <2>2
    <3>2. QED
      BY <1>3, <1>6, <2>1, <3>1
  <2>3. CASE ~(y <= m)
    <3>1. q[y] = n
      BY <1>2, <2>3
    <3>2. QED
      BY <1>5, <2>1, <3>1
  <2>4. QED
    BY <2>2, <2>3
<1>7. QED
  BY <1>2, <1>6 DEF Straight, q

\* One level down the search keeps within what its path has left.
LEMMA NarrowedMore ==
  ASSUME NEW t, NEW lo, NEW hi, Searchable(t, lo, hi), NEW v \in Int,
         NEW p \in Seq(Int), NEW n, OnWay(t, lo, hi, n, v), n # v, n # 0,
         AllNarrowed(DOMAIN t, lo, hi, n, p, v),
         NEW c, c = IF v < n THEN Left(t, n) ELSE Right(t, n)
  PROVE  AllNarrowed(DOMAIN t, lo, hi, c, Append(p, n), v)
<1> DEFINE q == Append(p, n)
           m == Len(p)
           D == DOMAIN t
<1>1. /\ n \in D /\ n \in Int /\ Above(lo[n], n) /\ Below(hi[n], n)
      /\ lo[n] \in D \cup {0} /\ hi[n] \in D \cup {0}
      /\ \A u \in D : u \in Int
  BY DEF OnWay, Searchable, Bounded
<1>2. /\ Len(q) = m + 1 /\ m \in Nat
      /\ \A x \in 1 .. (m + 1) : q[x] = IF x <= m THEN p[x] ELSE n
  BY <1>1, AppendParts
<1>3. \A y \in 1 .. m : p[y] \in D /\ p[y] # v /\ Narrowed(lo, hi, n, p[y], v)
  BY DEF AllNarrowed
<1>4. c # 0 => /\ v < n => lo[c] = lo[n] /\ hi[c] = n
               /\ ~(v < n) => lo[c] = n /\ hi[c] = hi[n]
  BY StepDown
<1> HIDE DEF q, m, D
<1>5. ASSUME NEW y \in 1 .. m, c # 0 PROVE Narrowed(lo, hi, c, p[y], v)
  <2>1. p[y] \in Int /\ Narrowed(lo, hi, n, p[y], v)
    BY <1>1, <1>3
  <2>2. CASE v < p[y]
    <3>1. hi[n] # 0 /\ hi[n] <= p[y] /\ hi[n] \in Int
      BY <1>1, <2>1, <2>2 DEF Narrowed
    <3>2. n < hi[n]
      BY <1>1, <3>1 DEF Below
    <3>3. hi[c] # 0 /\ hi[c] <= p[y]
      BY <1>1, <1>4, <1>5, <2>1, <3>1, <3>2
    <3>4. QED
      BY <2>1, <2>2, <3>3 DEF Narrowed
  <2>3. CASE p[y] < v
    <3>1. lo[n] # 0 /\ p[y] <= lo[n] /\ lo[n] \in Int
      BY <1>1, <2>1, <2>3 DEF Narrowed
    <3>2. lo[n] < n
      BY <1>1, <3>1 DEF Above
    <3>3. lo[c] # 0 /\ p[y] <= lo[c]
      BY <1>1, <1>4, <1>5, <2>1, <3>1, <3>2
    <3>4. QED
      BY <2>1, <2>3, <3>3 DEF Narrowed
  <2>4. QED
    BY <1>3, <2>1, <2>2, <2>3
<1>6. ASSUME c # 0 PROVE Narrowed(lo, hi, c, n, v)
  BY <1>1, <1>4, <1>6 DEF Narrowed
<1>7. ASSUME NEW y \in 1 .. (m + 1)
      PROVE  q[y] \in D /\ q[y] # v /\ (c # 0 => Narrowed(lo, hi, c, q[y], v))
  <2>1. CASE y <= m
    <3>1. y \in 1 .. m /\ q[y] = p[y]
      BY <1>2, <2>1
    <3>2. QED
      BY <1>3, <1>5, <3>1
  <2>2. CASE ~(y <= m)
    <3>1. q[y] = n
      BY <1>2, <2>2
    <3>2. QED
      BY <1>1, <1>6, <3>1
  <2>3. QED
    BY <2>1, <2>2
<1>8. QED
  BY <1>2, <1>7 DEF AllNarrowed, q, D

-------------------------------------------------------------------------------
(* The steps of the tree's generators. *)

\* The start of the tree's generators, on any array and any target.
TreeInit ==
  /\ algo \in TreeAlgos /\ pc = "start"
  /\ values \in Seq(Int \ {0}) /\ target \in Int
  /\ StructureIdle

\* Growing, the place of the next value is below the node reached.
GrowInv(lo, hi) ==
  index # 0 => next < Len(values) /\ OnWay(tree, lo, hi, index, values[next + 1])

\* Walking, what has been emitted is what lies before the place reached.
WalkInv(lo, hi) ==
  /\ algo = "bstInOrder"
  /\ Spine(DOMAIN tree, hi, path)
  /\ index # 0 => index \in DOMAIN tree /\ hi[index] = Innermost(path)
  /\ \A v : Contains(extracted, v) <=> Visited(DOMAIN tree, lo, index, Innermost(path), v)

\* Searching, the target is below the node reached or nowhere.
SeekInv(lo, hi) ==
  /\ algo = "bstSearch"
  /\ index # 0 => OnWay(tree, lo, hi, index, target)
  /\ index = 0 => target \notin DOMAIN tree
  /\ AllNarrowed(DOMAIN tree, lo, hi, index, path, target)

TreeShape(lo, hi) ==
  /\ Rooted(tree, root, lo, hi)
  /\ pc = "grow" => GrowInv(lo, hi)
  /\ pc = "walk" => WalkInv(lo, hi)
  /\ pc = "seek" => SeekInv(lo, hi)

\* At the end everything has been emitted, or the target been decided.
TreeDone ==
  /\ algo = "bstInOrder" => \A v : Contains(extracted, v) <=> v \in DOMAIN tree
  /\ algo = "bstSearch" =>
       (target \in DOMAIN tree <=> (path # <<>> /\ Last(path) = target))

\* The inductive invariant.
TreeInv ==
  /\ algo \in TreeAlgos /\ pc \in {"start", "grow", "walk", "seek", "done"}
  /\ values \in Seq(Int \ {0}) /\ target \in Int /\ path \in Seq(Int) /\ extracted \in Seq(Int)
  /\ next \in Nat /\ next <= Len(values) /\ DOMAIN tree = Taken(values, next)
  /\ pc \in {"start", "grow"} => path = <<>> /\ extracted = <<>>
  /\ pc = "start" => index = 0
  /\ pc \notin {"start", "grow"} => next = Len(values)
  /\ pc = "done" => TreeDone
  /\ Ascending(extracted, DOMAIN tree)
  /\ algo = "bstSearch" => Straight(path, target)
  /\ \E lo, hi : TreeShape(lo, hi)

\* The values taken: none, one more, and all of them.
LEMMA TakenParts ==
  ASSUME NEW a \in Seq(Int \ {0})
  PROVE  /\ Taken(a, 0) = {}
         /\ \A n \in 0 .. (Len(a) - 1) :
              Taken(a, n + 1) = Taken(a, n) \cup {a[n + 1]} /\ a[n + 1] \in Int /\ a[n + 1] # 0
         /\ Taken(a, Len(a)) = ToSet(a)
         /\ \A n \in 0 .. Len(a) : Taken(a, n) \in SUBSET Int
<1>1. Len(a) \in Nat /\ DOMAIN a = 1 .. Len(a) /\ \A x \in 1 .. Len(a) : a[x] \in Int /\ a[x] # 0
  BY LenProperties
<1> DEFINE m == Len(a)
<1> HIDE DEF m
<1>2. Taken(a, 0) = {}
  BY DEF Taken
<1>3. ASSUME NEW n \in 0 .. (m - 1)
      PROVE  Taken(a, n + 1) = Taken(a, n) \cup {a[n + 1]} /\ a[n + 1] \in Int /\ a[n + 1] # 0
  <2>1. n + 1 \in 1 .. m /\ (1 .. (n + 1)) = (1 .. n) \cup {n + 1}
    BY <1>1 DEF m
  <2>2. QED
    BY <1>1, <2>1 DEF Taken, m
<1>4. Taken(a, m) = ToSet(a)
  BY <1>1 DEF Taken, ToSet, m
<1>5. \A n \in 0 .. m : Taken(a, n) \in SUBSET Int
  BY <1>1 DEF Taken, m
<1>6. QED
  BY <1>2, <1>3, <1>4, <1>5 DEF m

\* Nothing emitted, nothing searched.
LEMMA NoPath ==
  /\ \A v : ~Contains(<<>>, v)
  /\ \A D : Ascending(<<>>, D)
  /\ \A D, hi : Spine(D, hi, <<>>)
  /\ \A v : Straight(<<>>, v)
  /\ \A D, lo, hi, n, v : AllNarrowed(D, lo, hi, n, <<>>, v)
  /\ Innermost(<<>>) = 0
<1>1. Len(<<>>) = 0 /\ (1 .. 0) = {}
  OBVIOUS
<1>2. QED
  BY <1>1 DEF Contains, Ascending, Spine, Straight, AllNarrowed, Innermost

\* The empty tree.
LEMMA TreeInvInit == TreeInit => TreeInv
<1> SUFFICES ASSUME TreeInit PROVE TreeInv
  OBVIOUS
<1>1. /\ algo \in TreeAlgos /\ pc = "start" /\ values \in Seq(Int \ {0}) /\ target \in Int
      /\ next = 0 /\ index = 0 /\ extracted = <<>> /\ tree = <<>> /\ root = 0 /\ path = <<>>
  BY DEF TreeInit, StructureIdle
<1>2. DOMAIN tree = {}
  BY <1>1
<1>3. Len(values) \in Nat /\ Taken(values, 0) = {} /\ <<>> \in Seq(Int)
  BY <1>1, LenProperties, TakenParts
<1>4. Rooted(tree, root, tree, tree)
  BY <1>1, <1>2 DEF Rooted, Searchable, Bounded, LeftFull, RightFull, Turned, Records
<1>5. TreeShape(tree, tree)
  BY <1>1, <1>4 DEF TreeShape
<1>6. QED
  BY <1>1, <1>2, <1>3, <1>5, NoPath DEF TreeInv

LEMMA StartTreeKeeps ==
  ASSUME TreeInv, StartTree
  PROVE  TreeInv'
<1>1. /\ algo' = algo /\ values' = values /\ next' = next /\ index' = index
      /\ extracted' = extracted /\ tree' = tree /\ root' = root /\ path' = path
      /\ target' = target /\ pc = "start" /\ pc' = "grow"
  BY DEF StartTree, heapVars, treeVars
<1>2. PICK lo, hi : TreeShape(lo, hi)
  BY DEF TreeInv
<1>3. index = 0
  BY <1>1 DEF TreeInv
<1>4. TreeShape(lo, hi)'
  BY <1>1, <1>2, <1>3 DEF TreeShape, GrowInv
<1>5. QED
  BY <1>1, <1>4 DEF TreeInv

\* Where an insertion is.
Here == IF index = 0 THEN root ELSE index

\* A value taken: the tree is still to be searched from its root, and no insertion is on
\* its way.
LEMMA NextValue ==
  ASSUME TreeInv, pc = "grow", next < Len(values), next' = next + 1, index' = 0,
         UNCHANGED <<algo, values, pc, heapVars, path, target>>,
         DOMAIN tree' = DOMAIN tree \cup {values[next + 1]}, Findable(tree', root')
  PROVE  TreeInv'
<1>1. /\ algo' = algo /\ values' = values /\ pc' = pc /\ extracted' = extracted
      /\ path' = path /\ target' = target
  BY DEF heapVars
<1>2. values \in Seq(Int \ {0}) /\ next \in Nat /\ path = <<>> /\ extracted = <<>>
      /\ DOMAIN tree = Taken(values, next) /\ Len(values) \in Nat
  BY LenProperties DEF TreeInv
<1>3. Taken(values, next + 1) = Taken(values, next) \cup {values[next + 1]}
  <2>1. next \in 0 .. (Len(values) - 1)
    BY <1>2
  <2>2. QED
    BY <1>2, <2>1, TakenParts
<1>4. PICK lo, hi : Rooted(tree', root', lo, hi)
  BY DEF Findable
<1>5. TreeShape(lo, hi)'
  BY <1>1, <1>4 DEF TreeShape, GrowInv
<1>6. QED
  BY <1>1, <1>2, <1>3, <1>5, NoPath DEF TreeInv

LEMMA BstInsertKeeps ==
  ASSUME TreeInv, BstInsert
  PROVE  TreeInv'
<1> DEFINE w == values[next + 1]
<1>1. /\ algo' = algo /\ values' = values /\ pc' = pc /\ extracted' = extracted
      /\ path' = path /\ target' = target /\ pc = "grow" /\ next < Len(values)
      /\ UNCHANGED <<algo, values, pc, heapVars, path, target>>
  BY DEF BstInsert, heapVars
<1>2. \/ /\ root = 0
         /\ root' = w
         /\ tree' = [n \in {w} |-> Leaf]
         /\ next' = next + 1 /\ index' = 0
      \/ /\ root # 0 /\ Here = w
         /\ next' = next + 1 /\ index' = 0
         /\ tree' = tree /\ root' = root
      \/ /\ root # 0 /\ Here # w /\ Child(Here, w) # 0
         /\ index' = Child(Here, w)
         /\ tree' = tree /\ root' = root /\ next' = next
      \/ /\ root # 0 /\ Here # w /\ Child(Here, w) = 0
         /\ tree' = Put(tree, Here, Side(w, Here), w)
         /\ next' = next + 1 /\ index' = 0
         /\ root' = root
  BY DEF BstInsert, At, Here, Put, Side
<1>3. PICK lo, hi : TreeShape(lo, hi)
  BY DEF TreeInv
<1>4. /\ Rooted(tree, root, lo, hi) /\ GrowInv(lo, hi)
      /\ values \in Seq(Int \ {0}) /\ next \in Nat /\ path = <<>> /\ extracted = <<>>
      /\ DOMAIN tree = Taken(values, next) /\ Len(values) \in Nat
  BY <1>1, <1>3, LenProperties DEF TreeShape, TreeInv
<1>5. w \in Int /\ w # 0
  <2>1. next \in 0 .. (Len(values) - 1)
    BY <1>1, <1>4
  <2>2. QED
    BY <1>4, <2>1, TakenParts
<1> HIDE DEF w
<1>6. ASSUME root # 0 PROVE OnWay(tree, lo, hi, Here, w)
  <2>1. CASE index = 0
    BY <1>4, <1>6, <2>1 DEF Here, Rooted, OnWay, Above, Below
  <2>2. CASE index # 0
    BY <1>4, <2>2 DEF Here, GrowInv, w
  <2>3. QED
    BY <2>1, <2>2
<1>7. Searchable(tree, lo, hi) /\ Findable(tree, root)
  BY <1>4 DEF Rooted, Findable
<1>8. ASSUME root # 0 PROVE Child(Here, w) = IF w < Here THEN Left(tree, Here) ELSE Right(tree, Here)
  BY DEF Child, Left, Right
<1>9. CASE root = 0
  <2>1. root' = w /\ tree' = [n \in {w} |-> Leaf] /\ next' = next + 1 /\ index' = 0
    BY <1>2, <1>9
  <2>2. DOMAIN tree' = {w} /\ Findable(tree', root')
    BY <1>5, <2>1, FirstRoot
  <2>3. DOMAIN tree = {}
    BY <1>4, <1>9 DEF Rooted
  <2>4. QED
    BY <1>1, <2>1, <2>2, <2>3, NextValue DEF w
<1>10. CASE root # 0 /\ Here = w
  <2>1. next' = next + 1 /\ index' = 0 /\ tree' = tree /\ root' = root
    BY <1>2, <1>10
  <2>2. w \in DOMAIN tree
    BY <1>6, <1>10 DEF OnWay
  <2>3. DOMAIN tree' = DOMAIN tree \cup {w} /\ Findable(tree', root')
    BY <1>7, <2>1, <2>2
  <2>4. QED
    BY <1>1, <2>1, <2>3, NextValue DEF w
<1>11. CASE root # 0 /\ Here # w /\ Child(Here, w) # 0
  <2>1. index' = Child(Here, w) /\ tree' = tree /\ root' = root /\ next' = next
    BY <1>2, <1>11
  <2>2. OnWay(tree, lo, hi, Child(Here, w), w)
    <3> DEFINE n == Here
               c == Child(Here, w)
    <3>1. OnWay(tree, lo, hi, n, w) /\ n # w /\ c # 0
          /\ c = IF w < n THEN Left(tree, n) ELSE Right(tree, n)
      BY <1>6, <1>8, <1>11
    <3> HIDE DEF n, c
    <3>2. OnWay(tree, lo, hi, c, w)
      BY <1>5, <1>7, <3>1, StepDown
    <3>3. QED
      BY <3>2 DEF c
  <2>3. GrowInv(lo, hi)'
    BY <1>1, <2>1, <2>2 DEF GrowInv, w
  <2>4. TreeShape(lo, hi)'
    BY <1>1, <1>4, <2>1, <2>3 DEF TreeShape
  <2>5. QED
    BY <1>1, <2>1, <2>4 DEF TreeInv
<1>12. CASE root # 0 /\ Here # w /\ Child(Here, w) = 0
  <2>1. tree' = Put(tree, Here, Side(w, Here), w) /\ next' = next + 1 /\ index' = 0 /\ root' = root
    BY <1>2, <1>12
  <2>2. DOMAIN tree' = DOMAIN tree \cup {w} /\ Findable(tree', root')
    <3>1. tree[Here][Side(w, Here)] = 0
      BY <1>8, <1>12 DEF Left, Right, Side
    <3>2. Vacant(tree, root, lo, hi, Here, w)
      BY <1>4, <1>5, <1>6, <1>12, <3>1 DEF Vacant
    <3>3. Gained(tree, tree', root, w)
      BY <2>1, <3>2, PutInPlace
    <3>4. QED
      BY <2>1, <3>3 DEF Gained
  <2>3. QED
    BY <1>1, <2>1, <2>2, NextValue DEF w
<1>13. QED
  BY <1>9, <1>10, <1>11, <1>12

\* All values taken, the walk or the search starts from the root.
LEMMA BstGrownKeeps ==
  ASSUME TreeInv, BstGrown
  PROVE  TreeInv'
<1>1. /\ algo' = algo /\ values' = values /\ next' = next /\ extracted' = extracted
      /\ tree' = tree /\ root' = root /\ path' = path /\ target' = target
      /\ pc = "grow" /\ index' = root /\ next = Len(values) /\ algo \in TreeAlgos
  BY DEF BstGrown, heapVars, treeVars
<1>2. /\ pc' \in {"walk", "seek", "done"}
      /\ pc' = "walk" => algo = "bstInOrder"
      /\ pc' = "seek" => algo = "bstSearch"
      /\ pc' = "done" => algo = "bstInsert"
  BY DEF BstGrown, TreeAlgos
<1>3. PICK lo, hi : TreeShape(lo, hi)
  BY DEF TreeInv
<1>4. Rooted(tree, root, lo, hi) /\ path = <<>> /\ extracted = <<>>
  BY <1>1, <1>3 DEF TreeShape, TreeInv
<1>5. ASSUME pc' = "walk" PROVE WalkInv(lo, hi)'
  <2>1. root # 0 => root \in DOMAIN tree /\ hi[root] = 0 /\ lo[root] = 0
    BY <1>4 DEF Rooted
  <2>2. \A v : ~Visited(DOMAIN tree, lo, root, 0, v)
    <3>1. CASE root = 0
      BY <1>4, <3>1 DEF Rooted, Visited
    <3>2. CASE root # 0
      BY <2>1, <3>2 DEF Visited, Above
    <3>3. QED
      BY <3>1, <3>2
  <2>3. QED
    BY <1>1, <1>2, <1>4, <1>5, <2>1, <2>2, NoPath DEF WalkInv
<1>6. ASSUME pc' = "seek" PROVE SeekInv(lo, hi)'
  <2>1. root # 0 => OnWay(tree, lo, hi, root, target)
    BY <1>4 DEF Rooted, OnWay, Above, Below
  <2>2. root = 0 => target \notin DOMAIN tree
    BY <1>4 DEF Rooted
  <2>3. QED
    BY <1>1, <1>2, <1>4, <1>6, <2>1, <2>2, NoPath DEF SeekInv
<1>7. TreeShape(lo, hi)'
  BY <1>1, <1>2, <1>4, <1>5, <1>6 DEF TreeShape
<1>8. pc' = "done" => TreeDone'
  BY <1>1, <1>2 DEF TreeDone
<1>9. QED
  BY <1>1, <1>2, <1>7, <1>8 DEF TreeInv

LEMMA WalkDownKeeps ==
  ASSUME TreeInv, WalkDown
  PROVE  TreeInv'
<1>1. /\ algo' = algo /\ values' = values /\ pc' = pc /\ next' = next
      /\ extracted' = extracted /\ tree' = tree /\ root' = root /\ target' = target
      /\ pc = "walk" /\ index # 0 /\ path' = Append(path, index)
      /\ index' = Left(tree, index)
  BY DEF WalkDown, heapVars, Left
<1>2. PICK lo, hi : TreeShape(lo, hi)
  BY DEF TreeInv
<1>3. /\ Rooted(tree, root, lo, hi) /\ WalkInv(lo, hi) /\ path \in Seq(Int)
      /\ Searchable(tree, lo, hi)
      /\ algo = "bstInOrder" /\ values \in Seq(Int \ {0}) /\ DOMAIN tree = Taken(values, next)
  BY <1>1, <1>2 DEF TreeShape, TreeInv, Rooted, WalkInv
<1>4. index \in DOMAIN tree /\ hi[index] = Innermost(path) /\ Spine(DOMAIN tree, hi, path)
      /\ \A v : Contains(extracted, v) <=> Visited(DOMAIN tree, lo, index, Innermost(path), v)
  BY <1>1, <1>3 DEF WalkInv
<1>5. DOMAIN tree \in SUBSET Int
  BY <1>3 DEF Searchable, Bounded
<1>6. path' \in Seq(Int)
  BY <1>1, <1>3, <1>4, <1>5, AppendParts
<1>7. Spine(DOMAIN tree, hi, path') /\ Innermost(path') = index
  BY <1>1, <1>3, <1>4, <1>5, SpineMore
<1>8. /\ index' # 0 => index' \in DOMAIN tree /\ hi[index'] = index
      /\ \A v : Visited(DOMAIN tree, lo, index, Innermost(path), v)
                  <=> Visited(DOMAIN tree, lo, index', index, v)
  BY <1>1, <1>3, <1>4, DownVisits
<1>9. WalkInv(lo, hi)'
  BY <1>1, <1>3, <1>4, <1>7, <1>8 DEF WalkInv
<1>10. TreeShape(lo, hi)'
  BY <1>1, <1>3, <1>9 DEF TreeShape
<1>11. algo' # "bstSearch"
  BY <1>1, <1>3
<1>12. QED
  BY <1>1, <1>6, <1>10, <1>11 DEF TreeInv

LEMMA WalkEmitKeeps ==
  ASSUME TreeInv, WalkEmit
  PROVE  TreeInv'
<1> DEFINE n == Last(path)
<1>1. /\ algo' = algo /\ values' = values /\ pc' = pc /\ next' = next
      /\ tree' = tree /\ root' = root /\ target' = target
      /\ pc = "walk" /\ index = 0 /\ path # <<>> /\ path' = Front(path)
      /\ index' = Right(tree, n) /\ extracted' = Append(extracted, n)
  BY DEF WalkEmit, Right
<1>2. PICK lo, hi : TreeShape(lo, hi)
  BY DEF TreeInv
<1>3. /\ Rooted(tree, root, lo, hi) /\ WalkInv(lo, hi) /\ path \in Seq(Int)
      /\ Searchable(tree, lo, hi) /\ extracted \in Seq(Int) /\ Ascending(extracted, DOMAIN tree)
      /\ algo = "bstInOrder"
  BY <1>1, <1>2 DEF TreeShape, TreeInv, Rooted, WalkInv
<1>4. /\ Innermost(path) = n /\ n \in DOMAIN tree /\ hi[n] = Innermost(path')
      /\ Spine(DOMAIN tree, hi, path') /\ path' \in Seq(Int)
  BY <1>1, <1>3, LastPart, SpineLess DEF WalkInv
<1>5. \A v : Contains(extracted, v) <=> Visited(DOMAIN tree, lo, 0, n, v)
  BY <1>1, <1>3, <1>4 DEF WalkInv
<1>6. DOMAIN tree \in SUBSET Int
  BY <1>3 DEF Searchable, Bounded
<1> HIDE DEF n
<1>7. /\ index' # 0 => index' \in DOMAIN tree /\ hi[index'] = hi[n]
      /\ \A v : Visited(DOMAIN tree, lo, 0, n, v) \/ v = n
                  <=> Visited(DOMAIN tree, lo, index', hi[n], v)
      /\ \A v : Visited(DOMAIN tree, lo, 0, n, v) <=> v \in DOMAIN tree /\ v < n
  BY <1>1, <1>3, <1>4, UpVisits
<1>8. Ascending(extracted', DOMAIN tree)
  BY <1>1, <1>3, <1>4, <1>5, <1>6, <1>7, AscendingMore
<1>9. extracted' \in Seq(Int) /\ \A v : Contains(extracted', v) <=> Contains(extracted, v) \/ v = n
  BY <1>1, <1>3, <1>4, <1>6, AppendParts, AppendContains
<1>10. WalkInv(lo, hi)'
  BY <1>1, <1>3, <1>4, <1>5, <1>7, <1>9 DEF WalkInv
<1>11. TreeShape(lo, hi)'
  BY <1>1, <1>3, <1>10 DEF TreeShape
<1>12. algo' # "bstSearch"
  BY <1>1, <1>3
<1>13. QED
  BY <1>1, <1>4, <1>8, <1>9, <1>11, <1>12 DEF TreeInv

LEMMA WalkEndKeeps ==
  ASSUME TreeInv, WalkEnd
  PROVE  TreeInv'
<1>1. /\ algo' = algo /\ values' = values /\ next' = next /\ index' = index
      /\ extracted' = extracted /\ tree' = tree /\ root' = root /\ path' = path
      /\ target' = target /\ pc = "walk" /\ index = 0 /\ path = <<>> /\ pc' = "done"
  BY DEF WalkEnd, Finish, structure, heapVars, treeVars
<1>2. PICK lo, hi : TreeShape(lo, hi)
  BY DEF TreeInv
<1>3. Rooted(tree, root, lo, hi) /\ WalkInv(lo, hi)
  BY <1>1, <1>2 DEF TreeShape
<1>4. \A v : Contains(extracted, v) <=> v \in DOMAIN tree
  BY <1>1, <1>3, NoPath DEF WalkInv, Visited, Below
<1>5. TreeDone'
  BY <1>1, <1>3, <1>4 DEF TreeDone, WalkInv
<1>6. TreeShape(lo, hi)'
  BY <1>1, <1>3 DEF TreeShape
<1>7. QED
  BY <1>1, <1>5, <1>6 DEF TreeInv

LEMMA BstSearchKeeps ==
  ASSUME TreeInv, BstSearch
  PROVE  TreeInv'
<1>1. /\ algo' = algo /\ values' = values /\ next' = next /\ extracted' = extracted
      /\ tree' = tree /\ root' = root /\ target' = target /\ pc = "seek"
  BY DEF BstSearch, heapVars
<1>2. PICK lo, hi : TreeShape(lo, hi)
  BY DEF TreeInv
<1>3. /\ Rooted(tree, root, lo, hi) /\ SeekInv(lo, hi) /\ path \in Seq(Int)
      /\ Searchable(tree, lo, hi) /\ algo = "bstSearch" /\ target \in Int
      /\ Straight(path, target) /\ AllNarrowed(DOMAIN tree, lo, hi, index, path, target)
  BY <1>1, <1>2 DEF TreeShape, TreeInv, Rooted, SeekInv
<1>4. CASE index = 0
  <2>1. pc' = "done" /\ index' = index /\ path' = path
    BY <1>4 DEF BstSearch
  <2>2. target \notin DOMAIN tree
    BY <1>3, <1>4 DEF SeekInv
  <2>3. path # <<>> => Last(path) # target
    <3> SUFFICES ASSUME path # <<>> PROVE Last(path) # target
      OBVIOUS
    <3>1. Len(path) \in 1 .. Len(path) /\ Last(path) = path[Len(path)]
      BY <1>3, LastPart
    <3>2. QED
      BY <1>3, <3>1 DEF AllNarrowed
  <2>4. TreeDone'
    BY <1>1, <1>3, <2>1, <2>2, <2>3 DEF TreeDone
  <2>5. TreeShape(lo, hi)'
    BY <1>1, <1>3, <2>1 DEF TreeShape
  <2>6. QED
    BY <1>1, <2>1, <2>4, <2>5 DEF TreeInv
<1>5. CASE index # 0
  <2>1. path' = Append(path, index)
    BY <1>5 DEF BstSearch
  <2>2. OnWay(tree, lo, hi, index, target) /\ index \in DOMAIN tree /\ index \in Int
    BY <1>3, <1>5 DEF SeekInv, OnWay, Searchable, Bounded
  <2>3. Straight(path', target) /\ path' \in Seq(Int)
    BY <1>3, <1>5, <2>1, <2>2, StraightMore, AppendParts
  <2>4. CASE index = target
    <3>1. pc' = "done"
      BY <1>5, <2>4 DEF BstSearch
    <3>2. path' # <<>> /\ Last(path') = target
      <4>1. Len(path') = Len(path) + 1 /\ Len(path) \in Nat /\ path'[Len(path) + 1] = index
        <5>1. /\ Len(path') = Len(path) + 1 /\ Len(path) \in Nat
              /\ \A x \in 1 .. (Len(path) + 1) : path'[x] = IF x <= Len(path) THEN path[x] ELSE index
          BY <1>3, <2>1, <2>2, AppendParts
        <5>2. QED
          BY <5>1
      <4>2. path' # <<>>
        BY <4>1, EmptySeq
      <4>3. QED
        BY <2>4, <4>1, <4>2 DEF Last
    <3>3. TreeDone'
      BY <1>1, <1>3, <2>2, <2>4, <3>2 DEF TreeDone
    <3>4. TreeShape(lo, hi)'
      BY <1>1, <1>3, <3>1 DEF TreeShape
    <3>5. QED
      BY <1>1, <2>3, <3>1, <3>3, <3>4 DEF TreeInv
  <2>5. CASE index # target
    <3>1. pc' = pc /\ index' = IF target < index THEN Left(tree, index) ELSE Right(tree, index)
      BY <1>5, <2>5 DEF BstSearch, Child, Left, Right
    <3>2. AllNarrowed(DOMAIN tree, lo, hi, index', path', target)
      BY <1>3, <1>5, <2>1, <2>2, <2>5, <3>1, NarrowedMore
    <3>3. /\ index' # 0 => OnWay(tree, lo, hi, index', target)
          /\ index' = 0 => target \notin DOMAIN tree
      BY <1>3, <2>2, <2>5, <3>1, StepDown
    <3>4. SeekInv(lo, hi)'
      BY <1>1, <1>3, <3>2, <3>3 DEF SeekInv
    <3>5. TreeShape(lo, hi)'
      BY <1>1, <1>3, <3>1, <3>4 DEF TreeShape
    <3>6. QED
      BY <1>1, <2>3, <3>1, <3>5 DEF TreeInv
  <2>6. QED
    BY <2>4, <2>5
<1>6. QED
  BY <1>4, <1>5

\* The invariant says at least what the property does.
LEMMA TreeInvProperty == TreeInv => TreesKeepOrder
<1> SUFFICES ASSUME TreeInv PROVE TreesKeepOrder
  OBVIOUS
<1> DEFINE D == DOMAIN tree
<1>1. /\ values \in Seq(Int \ {0}) /\ next \in 0 .. Len(values) /\ D = Taken(values, next)
      /\ path \in Seq(Int) /\ extracted \in Seq(Int) /\ Ascending(extracted, D)
      /\ algo = "bstSearch" => Straight(path, target)
      /\ pc \in {"start", "grow"} => path = <<>> /\ extracted = <<>>
      /\ pc \notin {"start", "grow"} => next = Len(values)
      /\ pc = "done" => TreeDone
      /\ Len(values) \in Nat
  BY LenProperties DEF TreeInv
<1>2. D = ToSet(SubSeq(values, 1, next))
  <2> DEFINE s == SubSeq(values, 1, next)
             n == next
  <2>1. n \in Nat /\ n <= Len(values) /\ n \in Int
    BY <1>1
  <2>2. s \in Seq(Int \ {0}) /\ Len(s) = n /\ \A x \in 1 .. n : s[x] = values[x]
    BY <1>1, <2>1
  <2>3. DOMAIN s = 1 .. n
    BY <2>2
  <2> HIDE DEF s, n
  <2>4. ToSet(s) = Taken(values, n)
    BY <2>2, <2>3 DEF ToSet, Taken
  <2>5. QED
    BY <1>1, <2>4 DEF s, n
<1>3. pc \notin {"start", "grow"} => D = ToSet(values)
  BY <1>1, TakenParts
<1> DEFINE V == ToSet(values)
<1>4. DOMAIN extracted = 1 .. Len(extracted) /\ DOMAIN path = 1 .. Len(path)
  BY <1>1
<1> HIDE DEF D, V
<1>5. InOrder(extracted)
  <2>1. CASE pc \in {"start", "grow"}
    <3>1. DOMAIN extracted = {}
      <4>1. extracted = <<>>
        BY <1>1, <2>1
      <4>2. QED
        BY <4>1
    <3>2. QED
      BY <3>1 DEF InOrder
  <2>2. CASE pc \notin {"start", "grow"}
    BY <1>1, <1>3, <1>4, <2>2 DEF InOrder, Ascending
  <2>3. QED
    BY <2>1, <2>2
<1>6. ASSUME algo = "bstInOrder", pc = "done" PROVE ToSet(extracted) = ToSet(values)
  <2>1. \A v : Contains(extracted, v) <=> v \in V
    BY <1>1, <1>3, <1>6 DEF TreeDone, D, V
  <2>2. \A v : v \in ToSet(extracted) <=> Contains(extracted, v)
    BY <1>4 DEF ToSet, Contains
  <2>3. ToSet(extracted) = V
    BY <2>1, <2>2
  <2>4. QED
    BY <2>3 DEF V
<1>7. ASSUME algo = "bstSearch", pc = "done"
      PROVE  (target \in ToSet(values)) <=> (path # <<>> /\ Last(path) = target)
  BY <1>1, <1>3, <1>7 DEF TreeDone, D
<1>8. ASSUME algo = "bstSearch", NEW x \in DOMAIN path, NEW y \in DOMAIN path, x < y
      PROVE  path[x] # path[y] /\ ((path[y] < path[x]) <=> (target < path[x]))
  BY <1>1, <1>4, <1>8 DEF Straight
<1>9. QED
  BY <1>2, <1>5, <1>6, <1>7, <1>8 DEF TreesKeepOrder, D

\* From such a state only the tree's actions are possible.
LEMMA OnlyTreeActions ==
  ASSUME TreeInv, StructureNext
  PROVE  StartTree \/ BstInsert \/ BstGrown \/ WalkDown \/ WalkEmit \/ WalkEnd \/ BstSearch
<1>1. algo \in {"bstInsert", "bstInOrder", "bstSearch"}
      /\ pc \in {"start", "grow", "walk", "seek", "done"}
  BY DEF TreeInv, TreeAlgos
<1>2. ~StartHeap /\ ~HeapInsert /\ ~StartHash /\ ~HashNext /\ ~Probe
  BY <1>1 DEF StartHeap, HeapInsert, StartHash, HashNext, Probe
<1>3. ~SiftUp /\ ~BuildHeap /\ ~Extract /\ ~ExtractSift
  BY <1>1 DEF SiftUp, BuildHeap, Extract, ExtractSift
<1>4. QED
  BY <1>2, <1>3 DEF StructureNext

\* The tree holds exactly the values taken, the in-order walk emits them in ascending
\* order with nothing left out, and a search ends at the target exactly if it is there,
\* on a path that looks at no value an earlier comparison has ruled out: bstInsertSteps,
\* bstInOrderSteps and bstSearchSteps, on every array of integers.
THEOREM StructureTreesKeepOrder ==
  TreeInit /\ [][StructureNext]_<<generator, structure>> => []TreesKeepOrder
<1>1. TreeInv /\ [StructureNext]_<<generator, structure>> => TreeInv'
  <2> SUFFICES ASSUME TreeInv, [StructureNext]_<<generator, structure>> PROVE TreeInv'
    OBVIOUS
  <2>1. CASE StartTree
    BY <2>1, StartTreeKeeps
  <2>2. CASE BstInsert
    BY <2>2, BstInsertKeeps
  <2>3. CASE BstGrown
    BY <2>3, BstGrownKeeps
  <2>4. CASE WalkDown
    BY <2>4, WalkDownKeeps
  <2>5. CASE WalkEmit
    BY <2>5, WalkEmitKeeps
  <2>6. CASE WalkEnd
    BY <2>6, WalkEndKeeps
  <2>7. CASE BstSearch
    BY <2>7, BstSearchKeeps
  <2>8. CASE UNCHANGED <<generator, structure>>
    <3>1. /\ algo' = algo /\ values' = values /\ pc' = pc /\ next' = next /\ index' = index
          /\ extracted' = extracted /\ tree' = tree /\ root' = root /\ path' = path
          /\ target' = target
      BY <2>8 DEF generator, structure, heapVars, treeVars
    <3>2. QED
      BY <3>1 DEF TreeInv, TreeShape, TreeDone, GrowInv, WalkInv, SeekInv
  <2>9. QED
    BY <2>1, <2>2, <2>3, <2>4, <2>5, <2>6, <2>7, <2>8, OnlyTreeActions
<1>2. QED
  BY <1>1, TreeInvInit, TreeInvProperty, PTL

===============================================================================
