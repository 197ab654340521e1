------------------------------ MODULE AuditProofs -----------------------------
(***************************************************************************)
(* Proofs about AuditTrail: its type invariant, that ids are never reused, *)
(* and that an export is exact whatever is written and pruned around it.   *)
(***************************************************************************)
EXTENDS AuditTrail, FiniteSetTheorems, WellFoundedInduction, TLAPS

USE AuditAssumption

-------------------------------------------------------------------------------
(* Least and greatest elements. *)

LEMMA HasLeast ==
  ASSUME NEW T \in SUBSET Nat, T # {}
  PROVE  \E i \in T : \A j \in T : i <= j
<1>1. \E i \in T : \A j \in T : ~(<<j, i>> \in OpToRel(<, Nat))
  BY WFMin, NatLessThanWellFounded
<1>2. PICK i \in T : \A j \in T : ~(<<j, i>> \in OpToRel(<, Nat))
  BY <1>1
<1>3. \A j \in T : ~(j < i)
  BY <1>2 DEF OpToRel
<1>4. QED
  BY <1>3

LEMMA HasGreatest ==
  ASSUME NEW n \in Nat, NEW T \in SUBSET (0..n), T # {}
  PROVE  \E i \in T : \A j \in T : j <= i
<1> DEFINE U == {n - i : i \in T}
<1>1. U \in SUBSET Nat /\ U # {}
  <2>1. \A i \in T : n - i \in Nat
    OBVIOUS
  <2>2. QED
    BY <2>1
<1>2. PICK k \in U : \A l \in U : k <= l
  BY <1>1, HasLeast
<1>3. PICK i \in T : k = n - i
  OBVIOUS
<1>4. \A j \in T : n - i <= n - j
  BY <1>2, <1>3
<1>5. QED
  BY <1>4

-------------------------------------------------------------------------------
(* What one query returns. *)

LEMMA BeyondType ==
  ASSUME TypeOK, NEW c \in Nat
  PROVE  /\ Beyond(c) \subseteq Matching
         /\ Matching \subseteq trail
         /\ IsFiniteSet(Beyond(c))
         /\ IsFiniteSet(Matching)
         /\ Page(c) \subseteq Beyond(c)
         /\ IsFiniteSet(Page(c))
         /\ Matching \subseteq Event
<1>1. /\ Matching \subseteq trail
      /\ Beyond(c) \subseteq Matching
      /\ Page(c) \subseteq Beyond(c)
      /\ trail \subseteq Event
  BY DEF Matching, Beyond, Page, TypeOK
<1>2. IsFiniteSet(trail)
  BY DEF TypeOK
<1>3. IsFiniteSet(Matching)
  BY <1>1, <1>2, FS_Subset
<1>4. IsFiniteSet(Beyond(c))
  BY <1>1, <1>3, FS_Subset
<1>5. IsFiniteSet(Page(c))
  BY <1>1, <1>4, FS_Subset
<1>6. QED
  BY <1>1, <1>3, <1>4, <1>5

\* The page is the newest part of what the cursor leaves.
LEMMA PageIsNewest ==
  ASSUME TypeOK, NEW c \in Nat, NEW r \in Page(c), NEW q \in Beyond(c), q.id > r.id
  PROVE  q \in Page(c)
<1> DEFINE Newer(e) == {p \in Beyond(c) : p.id > e.id}
<1>1. r \in Event /\ q \in Event /\ Beyond(c) \subseteq Event
  BY BeyondType
<1>2. Newer(q) \subseteq Newer(r)
  BY <1>1 DEF Event
<1>3. IsFiniteSet(Newer(r))
  BY BeyondType, FS_Subset
<1>4. Cardinality(Newer(q)) <= Cardinality(Newer(r))
  BY <1>2, <1>3, FS_Subset
<1>5. Cardinality(Newer(r)) \in Nat /\ Cardinality(Newer(q)) \in Nat
  BY <1>2, <1>3, FS_Subset, FS_CardinalityType
<1>6. Cardinality(Newer(r)) < PageSize
  BY DEF Page
<1>7. QED
  BY <1>4, <1>5, <1>6 DEF Page

\* A query that finds something returns something.
LEMMA PageIsNonempty ==
  ASSUME TypeOK, NEW c \in Nat, Beyond(c) # {}
  PROVE  Page(c) # {}
<1> DEFINE T == {r.id : r \in Beyond(c)}
<1>1. \A r \in Beyond(c) : r.id \in 0..lastId
  BY BeyondType DEF TypeOK, Event
<1>2. T \in SUBSET (0..lastId) /\ T # {} /\ lastId \in Nat
  BY <1>1 DEF TypeOK
<1>3. PICK i \in T : \A j \in T : j <= i
  BY <1>2, HasGreatest
<1>4. PICK r \in Beyond(c) : r.id = i
  OBVIOUS
<1>5. {q \in Beyond(c) : q.id > r.id} = {}
  BY <1>1, <1>3, <1>4
<1>6. QED
  BY <1>4, <1>5, FS_EmptySet DEF Page

\* When there is a next page its cursor is the id of this page's oldest record, and
\* this page is what there was from that id on.
LEMMA NextCursorMeaning ==
  ASSUME TypeOK, NEW c \in Nat
  PROVE  /\ NextCursor(c) \in Nat
         /\ NextCursor(c) = 0 => Page(c) = Beyond(c)
         /\ NextCursor(c) # 0 =>
              /\ \E r \in Page(c) : r.id = NextCursor(c)
              /\ \A r \in Page(c) : r.id >= NextCursor(c)
              /\ \A r \in Beyond(c) : r.id > NextCursor(c) => r \in Page(c)
<1> DEFINE T == {r.id : r \in Page(c)}
           n == NextCursor(c)
<1>1. \A r \in Beyond(c) : r.id \in Nat \ {0}
  BY BeyondType DEF Event
<1>2. CASE Beyond(c) = Page(c)
  BY <1>2 DEF NextCursor
<1>3. CASE Beyond(c) # Page(c)
  <2>1. Page(c) # {}
    BY <1>3, PageIsNonempty
  <2>2. T \in SUBSET Nat /\ T # {}
    BY <1>1, <2>1, BeyondType
  <2>3. \E i \in T : \A j \in T : i <= j
    BY <2>2, HasLeast
  <2>4. n \in T /\ \A r \in Page(c) : n <= r.id
    BY <1>3, <2>3 DEF NextCursor
  <2>5. PICK r \in Page(c) : r.id = n
    BY <2>4
  <2>6. n \in Nat \ {0}
    BY <1>1, <2>5, BeyondType
  <2>7. \A q \in Beyond(c) : q.id > n => q \in Page(c)
    BY <2>5, PageIsNewest
  <2>8. \A q \in Page(c) : q.id >= n
    BY <1>1, <2>4, <2>6, BeyondType
  <2>9. QED
    BY <2>5, <2>6, <2>7, <2>8
<1>4. QED
  BY <1>2, <1>3

-------------------------------------------------------------------------------
(* The type invariant. *)

LEMMA InitAudit == Init => TypeOK
BY FS_EmptySet DEF Init, TypeOK

\* Whatever the environment does, it leaves a well typed trail.
LEMMA KeptType ==
  ASSUME TypeOK
  PROVE  Kept \subseteq trail /\ IsFiniteSet(Kept)
<1>1. Kept \subseteq trail
  BY DEF Kept
<1>2. QED
  BY <1>1, FS_Subset DEF TypeOK

LEMMA NextAudit == TypeOK /\ [Next]_vars => TypeOK'
<1> SUFFICES ASSUME TypeOK, [Next]_vars
             PROVE  TypeOK'
  OBVIOUS
<1>1. ASSUME NEW hit \in BOOLEAN, Record(hit)
      PROVE  TypeOK'
  <2> DEFINE e == [id |-> lastId + 1, at |-> today, hit |-> hit]
  <2>1. e \in Event /\ lastId' = lastId + 1 /\ trail' = trail \union {e}
    BY <1>1 DEF Record, Event, TypeOK
  <2>2. IsFiniteSet(trail')
    BY <2>1, FS_AddElement DEF TypeOK
  <2>3. \A r \in trail' : r.id <= lastId' /\ r.at <= today
    <3>1. \A r \in trail : r.id \in Nat
      BY DEF TypeOK, Event
    <3>2. QED
      BY <2>1, <3>1 DEF TypeOK
  <2>4. QED
    BY <1>1, <2>1, <2>2, <2>3 DEF Record, exportVars, TypeOK
<1>2. CASE Prune
  BY <1>2, KeptType DEF Prune, exportVars, TypeOK
<1>3. CASE Tick
  <2>1. \A r \in trail : r.at <= today'
    BY <1>3 DEF Tick, TypeOK, Event
  <2>2. QED
    BY <1>3, <2>1 DEF Tick, exportVars, TypeOK
<1>4. CASE Restart
  BY <1>4, KeptType DEF Restart, TypeOK
<1>5. ASSUME NEW x \in Exports, Ask(x) \/ GiveUp(x) \/ Disconnect(x)
      PROVE  TypeOK'
  BY <1>5 DEF Ask, GiveUp, Disconnect, Goto, Show, TypeOK
<1>6. ASSUME NEW x \in Exports, WritePage(x)
      PROVE  TypeOK'
  <2> DEFINE c == cursor[x]
  <2>1. c \in Nat
    BY DEF TypeOK
  <2>2. /\ IsFiniteSet(Matching) /\ Matching \subseteq Event
        /\ IsFiniteSet(Page(c)) /\ Page(c) \subseteq Event
    BY <2>1, BeyondType
  <2>3. Cardinality(Page(c)) \in Nat
    BY <2>2, FS_CardinalityType
  <2>4. rows' \in [Exports -> Nat] /\ cursor' \in [Exports -> Nat]
    BY <1>6, <2>1, <2>3, NextCursorMeaning DEF WritePage, TypeOK
  <2>5. /\ csv' \in [Exports -> SUBSET Event]
        /\ started' \in [Exports -> SUBSET Event]
    BY <1>6, <2>2 DEF WritePage, TypeOK
  <2>6. ASSUME NEW y \in Exports
        PROVE  IsFiniteSet(csv'[y]) /\ IsFiniteSet(started'[y])
    <3>1. IsFiniteSet(csv[x] \union Page(c))
      BY <2>2, FS_Union DEF TypeOK
    <3>2. csv'[y] = csv[y] \/ csv'[y] = csv[x] \union Page(c)
      BY <1>6 DEF WritePage, TypeOK
    <3>3. started'[y] = started[y] \/ started'[y] = Matching
      BY <1>6 DEF WritePage, TypeOK
    <3>4. QED
      BY <2>2, <3>1, <3>2, <3>3 DEF TypeOK
  <2>7. /\ pc' \in [Exports -> {"idle", "paging", "done", "failed"}]
        /\ response' \in [Exports -> {"open", "ended", "cut"}]
    BY <1>6 DEF WritePage, Goto, Show, TypeOK
  <2>8. UNCHANGED <<trail, lastId, today>>
    BY <1>6 DEF WritePage
  <2>9. QED
    BY <2>4, <2>5, <2>6, <2>7, <2>8 DEF TypeOK
<1>7. CASE UNCHANGED vars
  BY <1>7 DEF vars, exportVars, TypeOK
<1>8. QED
  BY <1>1, <1>2, <1>3, <1>4, <1>5, <1>6, <1>7 DEF Next, Export

\* The trail, and every export over it, is always well typed and finite.
THEOREM AuditTypeOK == Spec => []TypeOK
BY InitAudit, NextAudit, PTL DEF Spec

-------------------------------------------------------------------------------
(* An export in progress. *)

\* What it wrote is what it started with, down to the cursor; what it has still to
\* read is what it started with, below the cursor.
Walking(x) ==
  /\ csv[x] \subseteq started[x]
  /\ rows[x] = Cardinality(csv[x])
  /\ \A r \in started[x] : r.hit /\ r.id <= lastId
  /\ cursor[x] <= lastId
  /\ pc[x] = "idle" => cursor[x] = 0
  /\ pc[x] \in {"idle", "paging"} /\ cursor[x] = 0 => csv[x] = {} /\ started[x] = {}
  /\ pc[x] = "paging" /\ cursor[x] # 0 =>
       /\ \A r \in csv[x] : r.id >= cursor[x]
       /\ \A r \in started[x] \intersect trail : r.id >= cursor[x] => r \in csv[x]
       /\ \A r \in Matching : r.id < cursor[x] => r \in started[x]
  /\ pc[x] = "done" => Missing(x) = {}

\* No two records, present or exported, share an id.
Distinct ==
  /\ \A r, q \in trail : r.id = q.id => r = q
  /\ \A x \in Exports : \A r \in trail \union started[x], q \in started[x] :
       r.id = q.id => r = q

ExportInv == Distinct /\ \A x \in Exports : Walking(x)

LEMMA InitExport == Init => ExportInv
BY FS_EmptySet DEF Init, ExportInv, Distinct, Walking, Missing, Matching

\* A step that only deletes records, or adds newer ones, disturbs no export.
LEMMA TrailMoves ==
  ASSUME TypeOK, TypeOK', NEW x \in Exports, Walking(x),
         lastId <= lastId',
         \A r \in trail' : r \in trail \/ r.id > lastId,
         cursor'[x] = cursor[x], started'[x] = started[x], csv'[x] = csv[x],
         rows'[x] = rows[x],
         \/ pc'[x] = pc[x]
         \/ pc[x] = "idle" /\ pc'[x] = "paging"
         \/ pc'[x] = "failed"
  PROVE  Walking(x)'
<1>1. /\ lastId \in Nat /\ lastId' \in Nat
      /\ cursor[x] \in Nat
      /\ started[x] \subseteq Event /\ trail' \subseteq Event
  BY DEF TypeOK
<1>2. \A r \in started[x] \union trail' : r.id \in Nat
  BY <1>1 DEF Event
<1>3. /\ csv'[x] \subseteq started'[x]
      /\ rows'[x] = Cardinality(csv'[x])
      /\ \A r \in started'[x] : r.hit /\ r.id <= lastId'
      /\ cursor'[x] <= lastId'
  BY <1>1, <1>2 DEF Walking
<1>4. \A r \in started[x] \intersect trail' : r \in trail
  BY <1>1, <1>2 DEF Walking
<1>5. \A r \in Matching' : r.id < cursor[x] => r \in Matching
  BY <1>1, <1>2 DEF Walking, Matching
<1>6. pc'[x] = "done" => Missing(x)' = {}
  BY <1>4 DEF Walking, Missing
<1>7. pc'[x] = "paging" /\ cursor'[x] # 0 =>
        /\ \A r \in csv'[x] : r.id >= cursor'[x]
        /\ \A r \in started'[x] \intersect trail' : r.id >= cursor'[x] => r \in csv'[x]
        /\ \A r \in Matching' : r.id < cursor'[x] => r \in started'[x]
  BY <1>4, <1>5 DEF Walking
<1>8. QED
  BY <1>3, <1>6, <1>7 DEF Walking

\* One page: what it adds was not written before, and moves the frontier down.
LEMMA PageWalks ==
  ASSUME TypeOK, Distinct, NEW x \in Exports, Walking(x), WritePage(x)
  PROVE  Walking(x)' /\ started'[x] \subseteq trail \union started[x]
<1> DEFINE c == cursor[x]
           n == NextCursor(c)
           P == Page(c)
<1>1. /\ c \in Nat /\ lastId \in Nat /\ pc[x] = "paging"
      /\ trail' = trail /\ lastId' = lastId
      /\ csv'[x] = csv[x] \union P
      /\ rows'[x] = rows[x] + Cardinality(P)
      /\ cursor'[x] = n
      /\ started'[x] = IF c = 0 THEN Matching ELSE started[x]
      /\ pc'[x] = IF n = 0 THEN "done" ELSE "paging"
  BY DEF WritePage, Goto, Show, TypeOK
<1>2. /\ P \subseteq Beyond(c) /\ Beyond(c) \subseteq Matching
      /\ Matching \subseteq trail
      /\ IsFiniteSet(P) /\ IsFiniteSet(csv[x])
  BY <1>1, BeyondType DEF TypeOK
<1>3. \A r \in trail \union started[x] \union csv[x] : r.id \in Nat \ {0}
  BY DEF TypeOK, Event
<1>4. /\ n \in Nat
      /\ n = 0 => P = Beyond(c)
      /\ n # 0 => /\ \E r \in P : r.id = n
                  /\ \A r \in P : r.id >= n
                  /\ \A r \in Beyond(c) : r.id > n => r \in P
  BY <1>1, NextCursorMeaning
<1>5. Beyond(c) \subseteq started'[x]
  BY <1>1, <1>2 DEF Walking, Beyond
<1>6. csv[x] \subseteq started'[x]
  BY <1>1 DEF Walking
<1>7. P \intersect csv[x] = {}
  <2>1. CASE c = 0
    BY <1>1, <2>1 DEF Walking
  <2>2. CASE c # 0
    <3>1. \A r \in P : r.id < c
      BY <1>2, <2>2 DEF Beyond
    <3>2. \A r \in csv[x] : r.id >= c
      BY <1>1, <2>2 DEF Walking
    <3>3. QED
      BY <1>1, <1>3, <3>1, <3>2
  <2>3. QED
    BY <2>1, <2>2
<1>8. rows'[x] = Cardinality(csv'[x])
  <2>1. Cardinality(csv[x] \intersect P) = 0
    BY <1>7, FS_EmptySet
  <2>2. Cardinality(csv[x]) \in Nat /\ Cardinality(P) \in Nat
    BY <1>2, FS_CardinalityType
  <2>3. Cardinality(csv[x] \union P) = Cardinality(csv[x]) + Cardinality(P)
    <3> HIDE DEF P
    <3>1. Cardinality(csv[x] \union P)
            = Cardinality(csv[x]) + Cardinality(P) - Cardinality(csv[x] \intersect P)
      BY <1>2, FS_Union
    <3>2. QED
      BY <2>1, <2>2, <3>1
  <2>4. QED
    BY <1>1, <2>3 DEF Walking
<1>9. \A r \in started'[x] : r.hit /\ r.id <= lastId
  BY <1>1, <1>2 DEF Walking, TypeOK, Matching
<1>10. n <= lastId
  BY <1>1, <1>2, <1>4 DEF TypeOK
<1>11. ASSUME NEW r \in started'[x] \intersect trail, n = 0 \/ r.id >= n
       PROVE  r \in csv'[x]
  <2>1. r \in Beyond(c) \/ r \in csv[x]
    <3>1. CASE c = 0
      BY <1>1, <3>1, <1>11 DEF Beyond
    <3>2. CASE c # 0 /\ r.id >= c
      BY <1>1, <1>11, <3>2 DEF Walking
    <3>3. CASE c # 0 /\ r.id < c
      BY <1>1, <1>11, <3>3 DEF Walking, Beyond, Matching
    <3>4. QED
      BY <1>1, <1>3, <1>11, <3>1, <3>2, <3>3
  <2>2. r \in Beyond(c) => r \in P
    <3>1. CASE n = 0
      BY <1>4, <3>1
    <3>2. CASE n # 0 /\ r.id > n
      BY <1>4, <3>2
    <3>3. CASE n # 0 /\ r.id = n
      <4>1. PICK q \in P : q.id = n
        BY <1>4, <3>3
      <4>2. q = r
        BY <1>2, <1>11, <3>3, <4>1 DEF Distinct
      <4>3. QED
        BY <4>1, <4>2
    <3>4. QED
      BY <1>3, <1>4, <1>11, <3>1, <3>2, <3>3
  <2>3. QED
    BY <1>1, <2>1, <2>2
<1>12. n # 0 /\ c # 0 => n < c
  BY <1>2, <1>4 DEF Beyond
<1>13. n # 0 => \A r \in csv'[x] : r.id >= n
  <2>1. \A r \in csv[x] : n # 0 => r.id >= n
    BY <1>1, <1>3, <1>4, <1>12 DEF Walking
  <2>2. QED
    BY <1>1, <1>4, <2>1
<1>14. n # 0 => \A r \in Matching : r.id < n => r \in started'[x]
  BY <1>1, <1>2, <1>3, <1>4, <1>12 DEF Walking
<1>15. Matching' = Matching
  BY <1>1 DEF Matching
<1>16. n = 0 => Missing(x)' = {}
  BY <1>1, <1>11 DEF Missing
<1>17. QED
  BY <1>1, <1>2, <1>5, <1>6, <1>8, <1>9, <1>10, <1>11, <1>13, <1>14, <1>15, <1>16
     DEF Walking

LEMMA NextExport == TypeOK /\ ExportInv /\ [Next]_vars => ExportInv'
<1> SUFFICES ASSUME TypeOK, ExportInv, [Next]_vars
             PROVE  ExportInv'
  OBVIOUS
<1> USE DEF ExportInv
<1>1. TypeOK'
  BY NextAudit
<1>2. ASSUME NEW hit \in BOOLEAN, Record(hit)
      PROVE  ExportInv'
  <2> DEFINE e == [id |-> lastId + 1, at |-> today, hit |-> hit]
  <2>1. /\ lastId' = lastId + 1 /\ trail' = trail \union {e}
        /\ UNCHANGED exportVars
    BY <1>2 DEF Record
  <2>2. \A x \in Exports : Walking(x)'
    BY <1>1, <2>1, TrailMoves DEF exportVars, TypeOK
  <2>3. /\ \A r \in trail : r.id \in Nat /\ r.id <= lastId
        /\ \A x \in Exports : \A r \in started[x] : r.id \in Nat /\ r.id <= lastId
        /\ lastId \in Nat
    BY DEF TypeOK, Event, Walking
  <2>4. Distinct'
    BY <2>1, <2>3 DEF Distinct, exportVars
  <2>5. QED
    BY <2>2, <2>4
<1>3. CASE Prune \/ Tick \/ Restart
  <2>1. /\ trail' \subseteq trail /\ lastId' = lastId
        /\ UNCHANGED <<cursor, started, csv, rows>>
    BY <1>3, KeptType DEF Prune, Tick, Restart, exportVars
  <2>2. \A x \in Exports : pc'[x] = pc[x] \/ pc'[x] = "failed"
    BY <1>3 DEF Prune, Tick, Restart, exportVars, TypeOK
  <2>3. \A x \in Exports : Walking(x)'
    BY <1>1, <2>1, <2>2, TrailMoves DEF TypeOK
  <2>4. Distinct'
    BY <2>1 DEF Distinct
  <2>5. QED
    BY <2>3, <2>4
<1>4. ASSUME NEW x \in Exports, Ask(x) \/ GiveUp(x) \/ Disconnect(x)
      PROVE  ExportInv'
  <2>1. UNCHANGED <<trail, lastId, cursor, started, csv, rows>>
    BY <1>4 DEF Ask, GiveUp, Disconnect
  <2>2. \A y \in Exports : \/ pc'[y] = pc[y]
                           \/ pc[y] = "idle" /\ pc'[y] = "paging"
                           \/ pc'[y] = "failed"
    BY <1>4 DEF Ask, GiveUp, Disconnect, Goto, TypeOK
  <2>3. \A y \in Exports : Walking(y)'
    BY <1>1, <2>1, <2>2, TrailMoves DEF TypeOK
  <2>4. QED
    BY <2>1, <2>3 DEF Distinct
<1>5. ASSUME NEW x \in Exports, WritePage(x)
      PROVE  ExportInv'
  <2>1. Walking(x)' /\ started'[x] \subseteq trail \union started[x]
    BY <1>5, PageWalks
  <2>2. UNCHANGED <<trail, lastId>>
    BY <1>5 DEF WritePage
  <2>3. \A y \in Exports \ {x} :
          /\ cursor'[y] = cursor[y] /\ started'[y] = started[y]
          /\ csv'[y] = csv[y] /\ rows'[y] = rows[y] /\ pc'[y] = pc[y]
    BY <1>5 DEF WritePage, Goto, TypeOK
  <2>4. \A y \in Exports : Walking(y)'
    BY <1>1, <2>1, <2>2, <2>3, TrailMoves DEF TypeOK
  <2>5. Distinct'
    <3>1. \A y \in Exports : started'[y] \subseteq trail \/ started'[y] = started[y]
      BY <1>5, <2>3, BeyondType DEF WritePage, TypeOK
    <3>2. QED
      BY <2>2, <3>1 DEF Distinct
  <2>6. QED
    BY <2>4, <2>5
<1>6. CASE UNCHANGED vars
  BY <1>6 DEF vars, exportVars, Distinct, Walking, Missing, Matching
<1>7. QED
  BY <1>2, <1>3, <1>4, <1>5, <1>6 DEF Next, Export

\* An export writes each record it started with exactly once, but for those pruned
\* before it got to them, and nothing else: keyset paging is exact under appends,
\* prunes and restarts, whatever the page size.
THEOREM AuditExportIsExact == Spec => []ExportIsExact
<1>1. TypeOK /\ ExportInv => ExportIsExact
  BY DEF ExportInv, Walking, ExportIsExact
<1>2. QED
  BY InitAudit, NextAudit, InitExport, NextExport, <1>1, PTL DEF Spec

\* An id means one record for ever.
THEOREM AuditIdsAreNeverReused == Spec => []IdsAreNeverReused
<1>1. TypeOK /\ ExportInv => IdsAreNeverReused
  BY DEF ExportInv, Walking, Distinct, IdsAreNeverReused
<1>2. QED
  BY InitAudit, NextAudit, InitExport, NextExport, <1>1, PTL DEF Spec
===============================================================================
