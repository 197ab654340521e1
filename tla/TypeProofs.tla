------------------------------- MODULE TypeProofs ------------------------------
(***************************************************************************)
(* The type generator: the declarations generated from a sample read it    *)
(* back, in every language, for every sample the generator accepts and     *)
(* however names collide.                                                  *)
(*                                                                         *)
(* Values and shapes come in levels, by how deep they nest, and what       *)
(* recurses into them is a function for each level: first, that these      *)
(* functions exist and are what their definitions say. Then, from each     *)
(* level to the next: the shape inferred describes the value unless a      *)
(* merge forgets something; naming gives every record a name of its own    *)
(* and leaves null and unions where they were; and what is rendered of a   *)
(* shape reads what the shape describes.                                   *)
(***************************************************************************)
EXTENDS TypeGeneration, SequenceTheorems, FiniteSetTheorems, WellFoundedInduction, TLAPS

\* A set of numbers has a least one.
LEMMA LeastNumber ==
  ASSUME NEW T \in SUBSET Nat, T # {}
  PROVE  \E x \in T : \A y \in T : x <= y
<1>1. IsWellFoundedOn(OpToRel(<, Nat), Nat)
  BY NatLessThanWellFounded
<1>2. PICK x \in T : \A y \in T : <<y, x>> \notin OpToRel(<, Nat)
  BY <1>1, WFMin
<1>3. \A y \in T : ~(y < x)
  BY <1>2 DEF OpToRel
<1>4. x \in Nat /\ \A y \in T : y \in Nat
  OBVIOUS
<1>5. \A y \in T : x <= y
  BY <1>3, <1>4
<1>6. QED
  BY <1>5

\* What holds of 0, and of every number when it does of the one before.
LEMMA UpTo ==
  ASSUME NEW D \in Nat, NEW T, 0 \in T, \A n \in 1 .. D : n - 1 \in T => n \in T
  PROVE  \A n \in 0 .. D : n \in T
<1>1. SUFFICES ASSUME \E n \in 0 .. D : n \notin T PROVE FALSE
  OBVIOUS
<1>2. PICK n \in {i \in 0 .. D : i \notin T} : \A i \in {i \in 0 .. D : i \notin T} : n <= i
  <2>1. {i \in 0 .. D : i \notin T} \in SUBSET Nat /\ {i \in 0 .. D : i \notin T} # {}
    BY <1>1
  <2>2. QED
    BY <2>1, LeastNumber
<1>3. n \in 1 .. D /\ n - 1 \in 0 .. D /\ ~(n <= n - 1)
  BY <1>2
<1>4. n - 1 \in T
  BY <1>2, <1>3
<1>5. QED
  BY <1>2, <1>3, <1>4

\* f starts from b, and each value is what G makes of the one before.
Steps(f, D, b, G) == f = [n \in 0 .. D |-> IF n = 0 THEN b ELSE G[n][f[n - 1]]]

\* A function whose values are given each by the one before exists.
LEMMA StepByStep ==
  ASSUME NEW D \in Nat, NEW S, NEW b, b \in S[0], NEW G, \A n \in 1 .. D : \A v \in S[n - 1] : G[n][v] \in S[n]
  PROVE  \E f : Steps(f, D, b, G) /\ \A n \in 0 .. D : f[n] \in S[n]
<1> DEFINE Table(f, d) == Steps(f, d, b, G) /\ \A n \in 0 .. d : f[n] \in S[n]
           T == {d \in 0 .. D : \E f : Table(f, d)}
<1>1. 0 \in T
  <2> DEFINE g == [n \in 0 .. 0 |-> b]
  <2>1. \A n \in 0 .. 0 : n = 0
    OBVIOUS
  <2>2. Table(g, 0)
    BY <2>1 DEF Steps
  <2>3. \E f : Table(f, 0)
    <3> HIDE DEF g, Table
    <3>1. QED
      BY <2>2
  <2>4. QED
    BY <2>3
<1>2. ASSUME NEW d \in 1 .. D, d - 1 \in T PROVE d \in T
  <2>1. PICK f : Table(f, d - 1)
    BY <1>2
  <2> DEFINE g == [n \in 0 .. d |-> IF n = d THEN G[d][f[d - 1]] ELSE f[n]]
  <2>2. \A n \in 0 .. d : n # d => n \in 0 .. d - 1
    OBVIOUS
  <2>3. \A n \in 0 .. d : g[n] = IF n = 0 THEN b ELSE G[n][g[n - 1]]
    <3>1. SUFFICES ASSUME NEW n \in 0 .. d PROVE g[n] = IF n = 0 THEN b ELSE G[n][g[n - 1]]
      OBVIOUS
    <3>2. CASE n = d
      <4>1. d # 0 /\ d - 1 \in 0 .. d /\ d - 1 # d
        OBVIOUS
      <4>2. g[d - 1] = f[d - 1] /\ g[d] = G[d][f[d - 1]]
        BY <4>1
      <4>3. QED
        BY <3>2, <4>1, <4>2
    <3>3. CASE n # d
      <4>1. n \in 0 .. d - 1 /\ (n # 0 => n - 1 \in 0 .. d /\ n - 1 # d)
        BY <3>3
      <4>2. g[n] = f[n] /\ (n # 0 => g[n - 1] = f[n - 1])
        BY <3>3, <4>1
      <4>3. f[n] = IF n = 0 THEN b ELSE G[n][f[n - 1]]
        BY <2>1, <4>1 DEF Steps
      <4>4. QED
        BY <4>2, <4>3
    <3>4. QED
      BY <3>2, <3>3
  <2>4. \A n \in 0 .. d : g[n] \in S[n]
    <3>1. f[d - 1] \in S[d - 1] /\ \A n \in 0 .. d - 1 : f[n] \in S[n]
      BY <2>1
    <3>2. G[d][f[d - 1]] \in S[d]
      BY <3>1
    <3>3. QED
      BY <2>2, <3>1, <3>2
  <2>5. Table(g, d)
    BY <2>3, <2>4 DEF Steps
  <2>6. \E t : Table(t, d)
    <3> HIDE DEF g, Table
    <3>1. QED
      BY <2>5
  <2>7. QED
    BY <2>6
<1>3. \A n \in 1 .. D : n - 1 \in T => n \in T
  BY <1>2
<1>4. D \in T
  <2> HIDE DEF T
  <2>1. \A n \in 0 .. D : n \in T
    BY <1>1, <1>3, UpTo
  <2>2. QED
    BY <2>1
<1>5. PICK f : Table(f, D)
  BY <1>4
<1>6. QED
  BY <1>5

-------------------------------------------------------------------------------
(* The levels of values and of shapes *)

\* The values, and the shapes, a level above some.
JsonInside(inner) ==
  Leaves \cup [kind : {"array"}, items : Seq(inner)]
  \cup [kind : {"object"}, fields : [Keys -> inner \cup {Absent}]]

ShapesInside(inner) == Plain(inner) \cup [kind : {"union"}, options : Seq(Plain(inner))]

\* f is the table of the levels of values up to d; the same for shapes below.
JsonTable(f, d) == f = [n \in 0 .. d |-> IF n = 0 THEN {} ELSE JsonInside(f[n - 1])]

\* The levels of JSON values exist.
LEMMA JsonExist ==
  \E f : JsonTable(f, Top)
<1> DEFINE T == {d \in Depths : \E f : JsonTable(f, d)}
<1>1. Top \in Nat /\ Depths = 0 .. Top
  BY TypeGenerationAssumption DEF Top, Depths
<1>2. 0 \in T
  <2> DEFINE g == [n \in 0 .. 0 |-> {}]
  <2>1. \A n \in 0 .. 0 : n = 0
    OBVIOUS
  <2>2. JsonTable(g, 0)
    BY <2>1 DEF JsonTable
  <2>3. \E f : JsonTable(f, 0)
    <3> HIDE DEF g
    <3>1. QED
      BY <2>2
  <2>4. QED
    BY <1>1, <2>3
<1>3. ASSUME NEW d \in 1 .. Top, d - 1 \in T PROVE d \in T
  <2>1. PICK f : JsonTable(f, d - 1)
    BY <1>3
  <2>2. d \in Nat /\ d \in Depths /\ \A n \in 0 .. d : n # d => n \in 0 .. d - 1
    BY <1>1
  <2> DEFINE g == [n \in 0 .. d |-> IF n = d THEN JsonInside(f[d - 1]) ELSE f[n]]
  <2>3. ASSUME NEW n \in 0 .. d PROVE g[n] = IF n = 0 THEN {} ELSE JsonInside(g[n - 1])
    <3>1. CASE n = d
      <4>1. d # 0 /\ d - 1 \in 0 .. d /\ d - 1 # d
        BY <2>2
      <4>2. g[d - 1] = f[d - 1] /\ g[d] = JsonInside(f[d - 1])
        BY <4>1
      <4> HIDE DEF g
      <4>3. QED
        BY <3>1, <4>1, <4>2
    <3>2. CASE n # d
      <4>1. n \in 0 .. d - 1 /\ (n # 0 => n - 1 \in 0 .. d /\ n - 1 # d)
        BY <2>2, <3>2
      <4>2. g[n] = f[n] /\ (n # 0 => g[n - 1] = f[n - 1])
        BY <3>2, <4>1
      <4>3. f[n] = IF n = 0 THEN {} ELSE JsonInside(f[n - 1])
        BY <2>1, <4>1 DEF JsonTable
      <4> HIDE DEF g
      <4>4. QED
        BY <4>2, <4>3
    <3>3. QED
      BY <3>1, <3>2
  <2>4. DOMAIN g = 0 .. d /\ g = [n \in 0 .. d |-> g[n]]
    OBVIOUS
  <2>5. JsonTable(g, d)
    <3> HIDE DEF g
    <3>1. QED
      BY <2>3, <2>4 DEF JsonTable
  <2>6. \E h : JsonTable(h, d)
    <3> HIDE DEF g
    <3>1. QED
      BY <2>5
  <2>7. QED
    BY <2>2, <2>6
<1>4. \A n \in 1 .. Top : n - 1 \in T => n \in T
  BY <1>3
<1>5. Top \in T
  <2> HIDE DEF T
  <2>1. QED
    BY <1>1, <1>2, <1>4, UpTo
<1>6. QED
  BY <1>5

\* Each level of values, from the one below.
LEMMA JsonValuesAre ==
  /\ JsonValues[0] = {}
  /\ \A n \in 1 .. Top : JsonValues[n] = JsonInside(JsonValues[n - 1])
<1>1. Top \in Nat /\ Depths = 0 .. Top
  BY TypeGenerationAssumption DEF Top, Depths
<1>2. PICK f : JsonTable(f, Top)
  BY JsonExist
<1>3. f = [n \in Depths |-> IF n = 0 THEN {} ELSE
             LET inner == f[n - 1]
             IN Leaves \cup [kind : {"array"}, items : Seq(inner)]
                \cup [kind : {"object"}, fields : [Keys -> inner \cup {Absent}]]]
  BY <1>1, <1>2 DEF JsonTable, JsonInside
<1>4. JsonValues = [n \in Depths |-> IF n = 0 THEN {} ELSE
             LET inner == JsonValues[n - 1]
             IN Leaves \cup [kind : {"array"}, items : Seq(inner)]
                \cup [kind : {"object"}, fields : [Keys -> inner \cup {Absent}]]]
  BY <1>3 DEF JsonValues
<1>5. ASSUME NEW n \in Depths PROVE JsonValues[n] = IF n = 0 THEN {} ELSE JsonInside(JsonValues[n - 1])
  BY <1>4 DEF JsonInside
<1>6. 0 \in Depths /\ \A n \in 1 .. Top : n \in Depths /\ n # 0
  BY <1>1
<1>7. QED
  BY <1>5, <1>6

ShapeTable(f, d) == f = [n \in 0 .. d |-> IF n = 0 THEN {Unknown} ELSE ShapesInside(f[n - 1])]

\* The levels of shapes exist.
LEMMA ShapeExist ==
  \E f : ShapeTable(f, Top)
<1> DEFINE T == {d \in Depths : \E f : ShapeTable(f, d)}
<1>1. Top \in Nat /\ Depths = 0 .. Top
  BY TypeGenerationAssumption DEF Top, Depths
<1>2. 0 \in T
  <2> DEFINE g == [n \in 0 .. 0 |-> {Unknown}]
  <2>1. \A n \in 0 .. 0 : n = 0
    OBVIOUS
  <2>2. ShapeTable(g, 0)
    BY <2>1 DEF ShapeTable
  <2>3. \E f : ShapeTable(f, 0)
    <3> HIDE DEF g
    <3>1. QED
      BY <2>2
  <2>4. QED
    BY <1>1, <2>3
<1>3. ASSUME NEW d \in 1 .. Top, d - 1 \in T PROVE d \in T
  <2>1. PICK f : ShapeTable(f, d - 1)
    BY <1>3
  <2>2. d \in Nat /\ d \in Depths /\ \A n \in 0 .. d : n # d => n \in 0 .. d - 1
    BY <1>1
  <2> DEFINE g == [n \in 0 .. d |-> IF n = d THEN ShapesInside(f[d - 1]) ELSE f[n]]
  <2>3. ASSUME NEW n \in 0 .. d PROVE g[n] = IF n = 0 THEN {Unknown} ELSE ShapesInside(g[n - 1])
    <3>1. CASE n = d
      <4>1. d # 0 /\ d - 1 \in 0 .. d /\ d - 1 # d
        BY <2>2
      <4>2. g[d - 1] = f[d - 1] /\ g[d] = ShapesInside(f[d - 1])
        BY <4>1
      <4> HIDE DEF g
      <4>3. QED
        BY <3>1, <4>1, <4>2
    <3>2. CASE n # d
      <4>1. n \in 0 .. d - 1 /\ (n # 0 => n - 1 \in 0 .. d /\ n - 1 # d)
        BY <2>2, <3>2
      <4>2. g[n] = f[n] /\ (n # 0 => g[n - 1] = f[n - 1])
        BY <3>2, <4>1
      <4>3. f[n] = IF n = 0 THEN {Unknown} ELSE ShapesInside(f[n - 1])
        BY <2>1, <4>1 DEF ShapeTable
      <4> HIDE DEF g
      <4>4. QED
        BY <4>2, <4>3
    <3>3. QED
      BY <3>1, <3>2
  <2>4. DOMAIN g = 0 .. d /\ g = [n \in 0 .. d |-> g[n]]
    OBVIOUS
  <2>5. ShapeTable(g, d)
    <3> HIDE DEF g
    <3>1. QED
      BY <2>3, <2>4 DEF ShapeTable
  <2>6. \E h : ShapeTable(h, d)
    <3> HIDE DEF g
    <3>1. QED
      BY <2>5
  <2>7. QED
    BY <2>2, <2>6
<1>4. \A n \in 1 .. Top : n - 1 \in T => n \in T
  BY <1>3
<1>5. Top \in T
  <2> HIDE DEF T
  <2>1. QED
    BY <1>1, <1>2, <1>4, UpTo
<1>6. QED
  BY <1>5

\* Each level of shapes, from the one below.
LEMMA ShapesAre ==
  /\ Shapes[0] = {Unknown}
  /\ \A n \in 1 .. Top : Shapes[n] = ShapesInside(Shapes[n - 1])
<1>1. Top \in Nat /\ Depths = 0 .. Top
  BY TypeGenerationAssumption DEF Top, Depths
<1>2. PICK f : ShapeTable(f, Top)
  BY ShapeExist
<1>3. f = [n \in Depths |-> IF n = 0 THEN {Unknown} ELSE
             LET plain == Plain(f[n - 1]) IN plain \cup [kind : {"union"}, options : Seq(plain)]]
  BY <1>1, <1>2 DEF ShapeTable, ShapesInside
<1>4. Shapes = [n \in Depths |-> IF n = 0 THEN {Unknown} ELSE
             LET plain == Plain(Shapes[n - 1]) IN plain \cup [kind : {"union"}, options : Seq(plain)]]
  BY <1>3 DEF Shapes
<1>5. ASSUME NEW n \in Depths PROVE Shapes[n] = IF n = 0 THEN {Unknown} ELSE ShapesInside(Shapes[n - 1])
  BY <1>4 DEF ShapesInside
<1>6. 0 \in Depths /\ \A n \in 1 .. Top : n \in Depths /\ n # 0
  BY <1>1
<1>7. QED
  BY <1>5, <1>6

\* The fields there are when the shapes below are those of a set, and that set for
\* the shapes of n levels.
FieldsOver(inner) == [Keys -> [shape : inner \cup {Absent}, required : BOOLEAN]]
\* The shapes inside those of a level; there are none inside the lowest.
Below(n) == IF n = 0 THEN {} ELSE Shapes[n - 1]

LeafKinds == {"null", "boolean", "integer", "number", "string"}

\* There is a level for every depth the generator accepts.
LEMMA DepthsAre == Top \in Nat /\ Top > 0 /\ Depths = 0 .. Top
BY TypeGenerationAssumption DEF Top, Depths

\* What a shape that is no union is made of, by its kind.
LEMMA PlainIs ==
  ASSUME NEW inner, NEW s \in Plain(inner)
  PROVE  /\ s.kind \in LeafKinds \cup {"unknown", "named", "array", "object"}
         /\ s.kind = "array" => s = List(s.items) /\ s.items \in inner
         /\ s.kind = "object" => s = [kind |-> "object", fields |-> s.fields] /\ s.fields \in FieldsOver(inner)
         /\ s.kind = "named" => s = Named(s.name) /\ s.name \in TypeNames
         /\ s.kind \in LeafKinds \cup {"unknown"} => s = Kind(s.kind)
<1>1. CASE s \in Leaves \cup {Unknown}
  BY <1>1 DEF Leaves, Unknown, Kind, LeafKinds
<1>2. CASE s \in [kind : {"named"}, name : TypeNames]
  BY <1>2 DEF Named, LeafKinds
<1>3. CASE s \in [kind : {"array"}, items : inner]
  BY <1>3 DEF List, LeafKinds
<1>4. CASE s \in [kind : {"object"}, fields : [Keys -> [shape : inner \cup {Absent}, required : BOOLEAN]]]
  BY <1>4 DEF FieldsOver, LeafKinds
<1>5. QED
  BY <1>1, <1>2, <1>3, <1>4 DEF Plain

\* And what it may be made of.
LEMMA PlainHas ==
  ASSUME NEW inner
  PROVE  /\ Unknown \in Plain(inner)
         /\ \A kind \in LeafKinds : Kind(kind) \in Plain(inner)
         /\ \A name \in TypeNames : Named(name) \in Plain(inner)
         /\ \A s \in inner : List(s) \in Plain(inner)
         /\ \A fields \in FieldsOver(inner) : [kind |-> "object", fields |-> fields] \in Plain(inner)
BY DEF Plain, Leaves, Named, List, FieldsOver, LeafKinds

\* More shapes inside make more shapes.
LEMMA PlainGrows ==
  ASSUME NEW A, NEW B, A \subseteq B
  PROVE  Plain(A) \subseteq Plain(B) /\ FieldsOver(A) \subseteq FieldsOver(B)
<1>1. FieldsOver(A) \subseteq FieldsOver(B)
  BY DEF FieldsOver
<1>2. QED
  BY <1>1 DEF Plain, FieldsOver

\* A shape of n levels is plain, or a union of plain ones.
LEMMA ShapeIs ==
  ASSUME NEW n \in Depths, NEW s \in Shapes[n]
  PROVE  /\ s \in Plain(Below(n)) \/ (s.kind = "union" /\ s = Union(s.options) /\ s.options \in Seq(Plain(Below(n))))
         /\ s \in Plain(Below(n)) => s.kind # "union"
         /\ s.kind # "absent"
<1>1. CASE n = 0
  <2>1. s = Unknown
    BY <1>1, ShapesAre
  <2>2. QED
    BY <2>1, PlainHas DEF Unknown, Kind
<1>2. CASE n # 0
  <2>1. n \in 1 .. Top /\ Below(n) = Shapes[n - 1]
    BY <1>2, DepthsAre DEF Below
  <2>2. s \in Plain(Below(n)) \/ s \in [kind : {"union"}, options : Seq(Plain(Below(n)))]
    BY <2>1, ShapesAre DEF ShapesInside
  <2>3. s \in Plain(Below(n)) => s.kind # "union" /\ s.kind # "absent"
    BY PlainIs DEF LeafKinds
  <2>4. QED
    BY <2>2, <2>3 DEF Union
<1>3. QED
  BY <1>1, <1>2

\* What a level of shapes is made of.
LEMMA ShapesHave ==
  ASSUME NEW n \in 1 .. Top
  PROVE  /\ Below(n) = Shapes[n - 1] /\ n - 1 \in Depths /\ n \in Depths
         /\ Plain(Shapes[n - 1]) \subseteq Shapes[n]
         /\ \A options \in Seq(Plain(Shapes[n - 1])) : Union(options) \in Shapes[n]
<1>1. n - 1 \in Depths /\ n \in Depths /\ n # 0
  BY DepthsAre
<1>2. QED
  BY <1>1, ShapesAre DEF Below, ShapesInside, Union

\* Whatever is of some levels is of more.
LEMMA ShapesGrow ==
  /\ \A n \in Depths : \A m \in 0 .. n : Shapes[m] \subseteq Shapes[n]
  /\ \A n \in Depths : Unknown \in Shapes[n] /\ Absent \notin Shapes[n]
<1>1. Shapes[0] = {Unknown} /\ Top \in Nat /\ Depths = 0 .. Top
  BY ShapesAre, DepthsAre
<1>2. ASSUME NEW n \in 1 .. Top, n - 1 = 0 \/ Shapes[n - 2] \subseteq Shapes[n - 1]
      PROVE  Shapes[n - 1] \subseteq Shapes[n]
  <2>1. CASE n - 1 = 0
    BY <1>1, <2>1, ShapesHave, PlainHas
  <2>2. CASE n - 1 # 0
    <3>1. n - 1 \in 1 .. Top /\ n - 1 - 1 = n - 2
      BY <1>1, <2>2
    <3>2. Plain(Shapes[n - 2]) \subseteq Plain(Shapes[n - 1])
      BY <1>2, <2>2, PlainGrows
    <3>3. Seq(Plain(Shapes[n - 2])) \subseteq Seq(Plain(Shapes[n - 1]))
      BY <3>2
    <3>4. Shapes[n - 1] = ShapesInside(Shapes[n - 2]) /\ Shapes[n] = ShapesInside(Shapes[n - 1])
      BY <3>1, ShapesAre
    <3>5. [kind : {"union"}, options : Seq(Plain(Shapes[n - 2]))]
            \subseteq [kind : {"union"}, options : Seq(Plain(Shapes[n - 1]))]
      BY <3>3
    <3>6. QED
      BY <3>2, <3>4, <3>5 DEF ShapesInside
  <2>3. QED
    BY <2>1, <2>2
<1>3. \A n \in 0 .. Top : n \in {k \in 0 .. Top : k = 0 \/ Shapes[k - 1] \subseteq Shapes[k]}
  <2> DEFINE T == {n \in 0 .. Top : n = 0 \/ Shapes[n - 1] \subseteq Shapes[n]}
  <2>1. 0 \in T
    BY <1>1
  <2>2. ASSUME NEW n \in 1 .. Top, n - 1 \in T PROVE n \in T
    <3>1. n - 1 - 1 = n - 2 /\ n \in 0 .. Top
      BY <1>1
    <3>2. n - 1 = 0 \/ Shapes[n - 2] \subseteq Shapes[n - 1]
      BY <2>2, <3>1
    <3>3. Shapes[n - 1] \subseteq Shapes[n]
      BY <1>2, <3>2
    <3>4. QED
      BY <3>1, <3>3
  <2> HIDE DEF T
  <2>3. \A n \in 0 .. Top : n \in T
    BY <1>1, <2>1, <2>2, UpTo
  <2>4. QED
    BY <2>3 DEF T
<1>4. \A n \in 0 .. Top : \A m \in 0 .. n : Shapes[m] \subseteq Shapes[n]
  <2> DEFINE T == {n \in 0 .. Top : \A m \in 0 .. n : Shapes[m] \subseteq Shapes[n]}
  <2>1. 0 \in T
    BY <1>1
  <2>2. ASSUME NEW n \in 1 .. Top, n - 1 \in T PROVE n \in T
    <3>1. Shapes[n - 1] \subseteq Shapes[n]
      BY <1>1, <1>3
    <3>2. \A m \in 0 .. n : m \in 0 .. n - 1 \/ m = n
      BY <1>1
    <3>3. \A m \in 0 .. n - 1 : Shapes[m] \subseteq Shapes[n - 1]
      BY <2>2
    <3>4. \A m \in 0 .. n : Shapes[m] \subseteq Shapes[n]
      BY <3>1, <3>2, <3>3
    <3>5. QED
      BY <1>1, <3>4
  <2> HIDE DEF T
  <2>3. \A n \in 0 .. Top : n \in T
    BY <1>1, <2>1, <2>2, UpTo
  <2>4. QED
    BY <2>3 DEF T
<1>5. ASSUME NEW n \in Depths PROVE Unknown \in Shapes[n] /\ Absent \notin Shapes[n]
  <2>1. 0 \in 0 .. n
    BY <1>1
  <2>2. QED
    BY <1>1, <1>4, <2>1, ShapeIs DEF Absent, Kind
<1>6. QED
  BY <1>1, <1>4, <1>5

\* What FlattenUnion makes of a shape: the options of a union, or itself.
LEMMA Options ==
  ASSUME NEW n \in Depths, NEW s \in Shapes[n]
  PROVE  /\ FlattenUnion(s) \in Seq(Plain(Below(n)))
         /\ s.kind = "union" => FlattenUnion(s) = s.options /\ s = Union(s.options)
         /\ s.kind # "union" => FlattenUnion(s) = <<s>> /\ s \in Plain(Below(n))
BY ShapeIs DEF FlattenUnion

\* What a JSON value of n levels is made of.
LEMMA ValueIs ==
  ASSUME NEW n \in Depths, NEW v \in JsonValues[n]
  PROVE  /\ n \in 1 .. Top /\ n - 1 \in Depths /\ v # Absent
         /\ v.kind = "array" => v.items \in Seq(JsonValues[n - 1])
         /\ v.kind = "object" => v.fields \in [Keys -> JsonValues[n - 1] \cup {Absent}]
         /\ v.kind \notin {"array", "object"} => v \in Leaves /\ v.kind \in LeafKinds /\ v = Kind(v.kind)
<1>1. n \in 1 .. Top /\ n - 1 \in Depths
  BY DepthsAre, JsonValuesAre
<1>2. v \in JsonInside(JsonValues[n - 1])
  BY <1>1, JsonValuesAre
<1>3. CASE v \in Leaves
  BY <1>1, <1>3 DEF Leaves, LeafKinds, Kind, Absent
<1>4. CASE v \in [kind : {"array"}, items : Seq(JsonValues[n - 1])]
  BY <1>1, <1>4 DEF Absent, Kind
<1>5. CASE v \in [kind : {"object"}, fields : [Keys -> JsonValues[n - 1] \cup {Absent}]]
  BY <1>1, <1>5 DEF Absent, Kind
<1>6. QED
  BY <1>2, <1>3, <1>4, <1>5 DEF JsonInside

\* A function whose values are given each by the one before has values of the sets
\* that each step leads to.
LEMMA StepsStay ==
  ASSUME NEW D \in Nat, NEW S, NEW G, \A n \in 1 .. D : \A v \in S[n - 1] : G[n][v] \in S[n],
         NEW f, f[0] \in S[0], \A n \in 1 .. D : f[n - 1] \in S[n - 1] => f[n] = G[n][f[n - 1]]
  PROVE  \A n \in 0 .. D : f[n] \in S[n]
<1> DEFINE T == {n \in 0 .. D : f[n] \in S[n]}
<1>1. 0 \in T
  OBVIOUS
<1>2. ASSUME NEW n \in 1 .. D, n - 1 \in T PROVE n \in T
  <2>1. n \in 0 .. D /\ f[n - 1] \in S[n - 1]
    BY <1>2
  <2>2. QED
    BY <2>1
<1>3. \A n \in 0 .. D : n \in T
  <2> HIDE DEF T
  <2>1. QED
    BY <1>1, <1>2, UpTo
<1>4. QED
  BY <1>3

\* Dedupe keeps each of the shapes, if it takes only equal ones for the same.
LEMMA DedupeKeeps ==
  ASSUME NEW P, NEW shapes \in Seq(P)
  PROVE  /\ Dedupe(shapes) \in Seq(P)
         /\ (\A i, j \in DOMAIN shapes : SameShape[shapes[i]][shapes[j]] => shapes[i] = shapes[j])
              => \A i \in DOMAIN shapes : \E j \in DOMAIN Dedupe(shapes) : Dedupe(shapes)[j] = shapes[i]
<1> DEFINE D == Len(shapes)
           R == {shapes[j] : j \in 1 .. D}
           Add(out, shape) ==
             IF \E i \in DOMAIN out : SameShape[out[i]][shape] THEN out ELSE Append(out, shape)
           S == [i \in 0 .. D |-> Seq(R)]
           G == [i \in 1 .. D |-> [out \in Seq(R) |-> Add(out, shapes[i])]]
           Outs(f) == f = [i \in 0 .. D |-> IF i = 0 THEN <<>> ELSE Add(f[i - 1], shapes[i])]
<1>1. D \in Nat /\ DOMAIN shapes = 1 .. D /\ R \subseteq P
  BY LenProperties
<1>2. \A i \in 1 .. D : \A out \in Seq(R) : Add(out, shapes[i]) \in Seq(R)
  BY AppendProperties
<1>3. \A i \in 1 .. D : i \in 0 .. D /\ i - 1 \in 0 .. D /\ i # 0
  BY <1>1
<1>4. \A i \in 1 .. D : \A out \in S[i - 1] : G[i][out] \in S[i] /\ G[i][out] = Add(out, shapes[i])
  <2> HIDE DEF Add, R
  <2>1. QED
    BY <1>2, <1>3
<1>5. <<>> \in S[0]
  BY <1>1
<1>6. \E f : Outs(f)
  <2> HIDE DEF Add, R
  <2>1. PICK f : Steps(f, D, <<>>, G) /\ \A i \in 0 .. D : f[i] \in S[i]
    <3>1. D \in Nat /\ \A i \in 1 .. D : \A out \in S[i - 1] : G[i][out] \in S[i]
      BY <1>1, <1>4
    <3> HIDE DEF S, G, D
    <3>2. QED
      BY <1>5, <3>1, StepByStep
  <2>2. \A i \in 0 .. D : i # 0 => i \in 1 .. D /\ i - 1 \in 0 .. D
    BY <1>1
  <2>3. Outs(f)
    <3> HIDE DEF S, G, D
    <3>1. QED
      BY <1>4, <2>1, <2>2 DEF Steps
  <2> HIDE DEF Outs
  <2>4. QED
    BY <2>3
<1> DEFINE out == CHOOSE f : Outs(f)
<1>7. Outs(out)
  <2> HIDE DEF Outs
  <2>1. QED
    BY <1>6
<1>8. Dedupe(shapes) = out[D]
  BY DEF Dedupe
<1> HIDE DEF out
<1>9. out[0] = <<>> /\ \A i \in 1 .. D : out[i] = Add(out[i - 1], shapes[i])
  <2> HIDE DEF Add
  <2>1. QED
    BY <1>1, <1>3, <1>7
<1>10. \A i \in 0 .. D : out[i] \in Seq(R)
  <2>1. \A i \in 0 .. D : out[i] \in S[i]
    <3>1. out[0] \in S[0] /\ \A i \in 1 .. D : out[i - 1] \in S[i - 1] => out[i] = G[i][out[i - 1]]
      <4> HIDE DEF S, G, Add
      <4>1. QED
        BY <1>4, <1>5, <1>9
    <3>2. D \in Nat /\ \A i \in 1 .. D : \A v \in S[i - 1] : G[i][v] \in S[i]
      BY <1>1, <1>4
    <3> HIDE DEF S, G, Add, D, R
    <3>3. QED
      BY <3>1, <3>2, StepsStay
  <2>2. QED
    BY <2>1
<1>11. ASSUME \A i, j \in DOMAIN shapes : SameShape[shapes[i]][shapes[j]] => shapes[i] = shapes[j]
       PROVE  \A n \in 0 .. D : \A i \in 1 .. n : \E j \in DOMAIN out[n] : out[n][j] = shapes[i]
  <2> DEFINE T == {n \in 0 .. D : \A i \in 1 .. n : \E j \in DOMAIN out[n] : out[n][j] = shapes[i]}
  <2>1. 0 \in T
    BY <1>1
  <2>2. ASSUME NEW n \in 1 .. D, n - 1 \in T PROVE n \in T
    <3>1. n - 1 \in 0 .. D /\ n \in 0 .. D /\ out[n - 1] \in Seq(R) /\ out[n] = Add(out[n - 1], shapes[n])
      BY <1>3, <1>9, <1>10
    <3>2. \A i \in 1 .. n : i \in 1 .. n - 1 \/ i = n
      BY <1>1
    <3>3. \A i \in 1 .. n - 1 : \E j \in DOMAIN out[n - 1] : out[n - 1][j] = shapes[i]
      BY <2>2
    <3>4. CASE \E i \in DOMAIN out[n - 1] : SameShape[out[n - 1][i]][shapes[n]]
      <4>1. PICK j \in DOMAIN out[n - 1] : SameShape[out[n - 1][j]][shapes[n]]
        BY <3>4
      <4>2. out[n - 1][j] \in R
        <5> HIDE DEF R
        <5>1. j \in 1 .. Len(out[n - 1])
          BY <3>1, LenProperties
        <5>2. QED
          BY <3>1, <5>1, ElementOfSeq
      <4>3. PICK k \in 1 .. D : out[n - 1][j] = shapes[k]
        BY <4>2
      <4>4. out[n - 1][j] = shapes[n]
        BY <1>1, <1>11, <4>1, <4>3
      <4>5. out[n] = out[n - 1]
        BY <3>1, <3>4
      <4> HIDE DEF D, Add, R
      <4>6. QED
        BY <3>1, <3>2, <3>3, <4>4, <4>5
    <3>5. CASE ~\E i \in DOMAIN out[n - 1] : SameShape[out[n - 1][i]][shapes[n]]
      <4>1. out[n] = Append(out[n - 1], shapes[n])
        BY <3>1, <3>5
      <4>2. shapes[n] \in R
        OBVIOUS
      <4> HIDE DEF R, Add
      <4>3. /\ DOMAIN out[n - 1] = 1 .. Len(out[n - 1]) /\ DOMAIN out[n] = 1 .. Len(out[n - 1]) + 1
            /\ \A j \in 1 .. Len(out[n - 1]) : out[n][j] = out[n - 1][j]
            /\ out[n][Len(out[n - 1]) + 1] = shapes[n] /\ Len(out[n - 1]) \in Nat
        BY <3>1, <4>1, <4>2, AppendProperties, LenProperties
      <4>4. \A j \in DOMAIN out[n - 1] : j \in DOMAIN out[n] /\ out[n][j] = out[n - 1][j]
        BY <4>3
      <4>5. Len(out[n - 1]) + 1 \in DOMAIN out[n]
        BY <4>3
      <4> HIDE DEF D
      <4>6. QED
        BY <3>1, <3>2, <3>3, <4>3, <4>4, <4>5
    <3>6. QED
      BY <3>4, <3>5
  <2>3. \A n \in 0 .. D : n \in T
    <3> HIDE DEF T, D
    <3>1. QED
      BY <1>1, <2>1, <2>2, UpTo
  <2>4. QED
    BY <2>3
<1>12. D \in 0 .. D
  BY <1>1
<1>13. out[D] \in Seq(P)
  <2> HIDE DEF R
  <2>1. QED
    BY <1>1, <1>10, <1>12, SeqMonotonic
<1> HIDE DEF D, Add, Outs, R, G, S
<1>14. QED
  BY <1>1, <1>8, <1>11, <1>12, <1>13

\* What there is at a key of the fields over some shapes.
LEMMA FieldIs ==
  ASSUME NEW inner, NEW fields \in FieldsOver(inner), NEW key \in Keys
  PROVE  /\ fields[key].required \in BOOLEAN /\ fields[key].shape \in inner \cup {Absent}
         /\ HasField(fields, key) => fields[key].shape \in inner
         /\ fields[key] = Field(fields[key].shape, fields[key].required)
BY DEF FieldsOver, HasField, Field

\* The options of both of two shapes.
LEMMA BothOptionsAre ==
  ASSUME NEW n \in 1 .. Top, NEW a \in Shapes[n], NEW b \in Shapes[n]
  PROVE  /\ BothOptions(a, b) \in Seq(Plain(Shapes[n - 1]))
         /\ \A i \in DOMAIN FlattenUnion(a) : \E j \in DOMAIN BothOptions(a, b) : BothOptions(a, b)[j] = FlattenUnion(a)[i]
         /\ \A i \in DOMAIN FlattenUnion(b) : \E j \in DOMAIN BothOptions(a, b) : BothOptions(a, b)[j] = FlattenUnion(b)[i]
<1> DEFINE P == Plain(Shapes[n - 1])
<1>1. FlattenUnion(a) \in Seq(P) /\ FlattenUnion(b) \in Seq(P)
  BY ShapesHave, Options
<1> HIDE DEF P
<1>2. ASSUME NEW s \in Seq(P), NEW t \in Seq(P)
      PROVE  /\ s \o t \in Seq(P)
             /\ \A i \in DOMAIN s : \E j \in DOMAIN (s \o t) : (s \o t)[j] = s[i]
             /\ \A i \in DOMAIN t : \E j \in DOMAIN (s \o t) : (s \o t)[j] = t[i]
  <2>1. /\ s \o t \in Seq(P) /\ Len(s \o t) = Len(s) + Len(t) /\ DOMAIN s = 1 .. Len(s) /\ DOMAIN t = 1 .. Len(t)
        /\ Len(s) \in Nat /\ Len(t) \in Nat /\ DOMAIN (s \o t) = 1 .. Len(s) + Len(t)
    BY ConcatProperties, LenProperties
  <2>2. \A i \in 1 .. Len(s) + Len(t) : (s \o t)[i] = IF i <= Len(s) THEN s[i] ELSE t[i - Len(s)]
    BY ConcatProperties
  <2>3. ASSUME NEW i \in DOMAIN s PROVE i \in DOMAIN (s \o t) /\ (s \o t)[i] = s[i]
    BY <2>1, <2>2
  <2>4. ASSUME NEW i \in DOMAIN t PROVE i + Len(s) \in DOMAIN (s \o t) /\ (s \o t)[i + Len(s)] = t[i]
    <3>1. i + Len(s) \in 1 .. Len(s) + Len(t) /\ ~(i + Len(s) <= Len(s)) /\ i + Len(s) - Len(s) = i
      BY <2>1
    <3>2. QED
      BY <2>1, <2>2, <3>1
  <2>5. QED
    BY <2>1, <2>3, <2>4
<1>3. CASE b.kind = "null"
  <2>1. BothOptions(a, b) = FlattenUnion(b) \o FlattenUnion(a)
    BY <1>3 DEF BothOptions
  <2> DEFINE s == FlattenUnion(a)
             t == FlattenUnion(b)
  <2>2. s \in Seq(P) /\ t \in Seq(P) /\ BothOptions(a, b) = t \o s
    BY <1>1, <2>1
  <2> HIDE DEF s, t
  <2>3. /\ t \o s \in Seq(P)
        /\ \A i \in DOMAIN s : \E j \in DOMAIN (t \o s) : (t \o s)[j] = s[i]
        /\ \A i \in DOMAIN t : \E j \in DOMAIN (t \o s) : (t \o s)[j] = t[i]
    BY <1>2, <2>2
  <2>4. QED
    BY <2>2, <2>3 DEF P, s, t
<1>4. CASE b.kind # "null"
  <2>1. BothOptions(a, b) = FlattenUnion(a) \o FlattenUnion(b)
    BY <1>4 DEF BothOptions
  <2> DEFINE s == FlattenUnion(a)
             t == FlattenUnion(b)
  <2>2. s \in Seq(P) /\ t \in Seq(P) /\ BothOptions(a, b) = s \o t
    BY <1>1, <2>1
  <2> HIDE DEF s, t
  <2>3. /\ s \o t \in Seq(P)
        /\ \A i \in DOMAIN s : \E j \in DOMAIN (s \o t) : (s \o t)[j] = s[i]
        /\ \A i \in DOMAIN t : \E j \in DOMAIN (s \o t) : (s \o t)[j] = t[i]
    BY <1>2, <2>2
  <2>4. QED
    BY <2>2, <2>3 DEF P, s, t
<1>5. QED
  BY <1>3, <1>4

\* Merges of two shapes of a level to one.
Merges(n) == [Shapes[n] -> [Shapes[n] -> Shapes[n]]]

\* Shapes merge into a shape of as many levels.
LEMMA MergeTwoIsShape ==
  ASSUME NEW n \in 1 .. Top, NEW merge \in Merges(n - 1), NEW a \in Shapes[n], NEW b \in Shapes[n]
  PROVE  /\ MergeTwo(merge, a, b) \in Shapes[n]
         /\ a.kind = "object" /\ b.kind = "object" =>
              /\ MergeTwo(merge, a, b) = [kind |-> "object", fields |-> MergedFields(merge, a.fields, b.fields)]
              /\ MergedFields(merge, a.fields, b.fields) \in FieldsOver(Shapes[n - 1])
<1> DEFINE P == Plain(Shapes[n - 1])
<1>1. P \subseteq Shapes[n] /\ \A options \in Seq(P) : Union(options) \in Shapes[n]
  BY ShapesHave
<1>2. \A s, t \in Shapes[n - 1] : merge[s][t] \in Shapes[n - 1]
  BY DEF Merges
<1>3. \A s \in {a, b} : s.kind # "union" => s \in P
  BY ShapesHave, Options
<1>4. Dedupe(BothOptions(a, b)) \in Seq(P)
  BY BothOptionsAre, DedupeKeeps
<1>5. CASE a.kind = "object" /\ b.kind = "object"
  <2>1. /\ a = [kind |-> "object", fields |-> a.fields] /\ a.fields \in FieldsOver(Shapes[n - 1])
        /\ b.fields \in FieldsOver(Shapes[n - 1])
    BY <1>3, <1>5, PlainIs
  <2> DEFINE F == MergedFields(merge, a.fields, b.fields)
  <2>2. F \in FieldsOver(Shapes[n - 1])
    <3>1. ASSUME NEW key \in Keys PROVE F[key] \in [shape : Shapes[n - 1] \cup {Absent}, required : BOOLEAN]
      <4>1. /\ a.fields[key].shape \in Shapes[n - 1] \cup {Absent} /\ b.fields[key].shape \in Shapes[n - 1] \cup {Absent}
            /\ HasField(a.fields, key) => a.fields[key].shape \in Shapes[n - 1]
            /\ HasField(b.fields, key) => b.fields[key].shape \in Shapes[n - 1]
        BY <2>1, FieldIs
      <4>2. F[key] = IF ~HasField(b.fields, key) THEN Field(a.fields[key].shape, FALSE)
                     ELSE IF ~HasField(a.fields, key) THEN Field(b.fields[key].shape, FALSE)
                     ELSE Field(merge[a.fields[key].shape][b.fields[key].shape],
                                a.fields[key].required /\ b.fields[key].required)
        BY DEF MergedFields
      <4>3. \A shape \in Shapes[n - 1] \cup {Absent}, required \in BOOLEAN :
              Field(shape, required) \in [shape : Shapes[n - 1] \cup {Absent}, required : BOOLEAN]
        BY DEF Field
      <4>4. CASE ~HasField(b.fields, key) \/ ~HasField(a.fields, key)
        <5> HIDE DEF F
        <5>1. QED
          BY <4>1, <4>2, <4>3, <4>4
      <4>5. CASE HasField(b.fields, key) /\ HasField(a.fields, key)
        <5>1. merge[a.fields[key].shape][b.fields[key].shape] \in Shapes[n - 1]
          BY <1>2, <4>1, <4>5
        <5>2. (a.fields[key].required /\ b.fields[key].required) \in BOOLEAN
          OBVIOUS
        <5> HIDE DEF F
        <5>3. QED
          BY <4>2, <4>3, <4>5, <5>1, <5>2
      <4>6. QED
        BY <4>4, <4>5
    <3>2. F = [key \in Keys |-> F[key]]
      BY DEF MergedFields
    <3> HIDE DEF F
    <3>3. QED
      BY <3>1, <3>2 DEF FieldsOver
  <2>3. MergeTwo(merge, a, b) = [a EXCEPT !.fields = F]
    BY <1>5 DEF MergeTwo
  <2>4. [a EXCEPT !.fields = F] = [kind |-> "object", fields |-> F]
    <3> HIDE DEF F
    <3>1. QED
      BY <2>1
  <2>5. [kind |-> "object", fields |-> F] \in P
    <3> HIDE DEF F
    <3>1. QED
      BY <2>2, PlainHas
  <2>6. QED
    BY <1>1, <2>2, <2>3, <2>4, <2>5
<1>6. CASE a.kind = "array" /\ b.kind = "array"
  <2>1. a.items \in Shapes[n - 1] /\ b.items \in Shapes[n - 1]
    BY <1>3, <1>6, PlainIs
  <2>2. MergeTwo(merge, a, b) = List(merge[a.items][b.items])
    BY <1>6 DEF MergeTwo
  <2>3. List(merge[a.items][b.items]) \in P
    BY <1>2, <2>1, PlainHas
  <2>4. QED
    BY <1>1, <1>6, <2>2, <2>3
<1>7. CASE ~(a.kind = "object" /\ b.kind = "object") /\ ~(a.kind = "array" /\ b.kind = "array")
  <2>1. Kind("number") \in P
    BY PlainHas DEF LeafKinds
  <2>2. MergeTwo(merge, a, b) \in {a, b, Kind("number"), Union(Dedupe(BothOptions(a, b)))}
    BY <1>7 DEF MergeTwo
  <2> HIDE DEF P
  <2>3. QED
    BY <1>1, <1>4, <1>7, <2>1, <2>2
<1>8. QED
  BY <1>5, <1>6, <1>7

\* What MergeShapes is at each level.
LEMMA MergesAre ==
  /\ \A n \in Depths : MergeShapes[n] \in Merges(n)
  /\ \A n \in 1 .. Top : \A a, b \in Shapes[n] : MergeShapes[n][a][b] = MergeTwo(MergeShapes[n - 1], a, b)
<1> DEFINE b0 == [a \in Shapes[0] |-> [b \in Shapes[0] |-> Unknown]]
           S == [n \in 0 .. Top |-> Merges(n)]
           Next1(n, m) == [a \in Shapes[n] |-> [b \in Shapes[n] |-> MergeTwo(m, a, b)]]
           G == [n \in 1 .. Top |-> [m \in Merges(n - 1) |-> Next1(n, m)]]
           Table(f) == f = [n \in Depths |-> [a \in Shapes[n] |-> [b \in Shapes[n] |->
                              IF n = 0 THEN Unknown ELSE MergeTwo(f[n - 1], a, b)]]]
<1>1. Top \in Nat /\ Depths = 0 .. Top /\ \A n \in 1 .. Top : n \in 0 .. Top /\ n - 1 \in 0 .. Top /\ n # 0
  BY DepthsAre
<1>2. b0 \in S[0]
  BY <1>1, ShapesGrow DEF Merges
<1>3. \A n \in 1 .. Top : \A m \in Merges(n - 1) : Next1(n, m) \in Merges(n)
  BY MergeTwoIsShape DEF Merges
<1>4. \A n \in 1 .. Top : \A m \in S[n - 1] : G[n][m] \in S[n] /\ G[n][m] = Next1(n, m)
  <2> HIDE DEF Next1
  <2>1. QED
    BY <1>1, <1>3
<1>5. \A n \in 1 .. Top : \A m \in S[n - 1] : G[n][m] \in S[n]
  BY <1>4
<1>6. \E f : Table(f)
  <2>1. PICK f : Steps(f, Top, b0, G) /\ \A n \in 0 .. Top : f[n] \in S[n]
    <3> HIDE DEF S, G, b0
    <3>1. QED
      BY <1>1, <1>2, <1>5, StepByStep
  <2>2. ASSUME NEW n \in 0 .. Top
        PROVE  f[n] = [a \in Shapes[n] |-> [b \in Shapes[n] |-> IF n = 0 THEN Unknown ELSE MergeTwo(f[n - 1], a, b)]]
    <3>1. CASE n = 0
      <4>1. f[n] = b0
        BY <2>1, <3>1 DEF Steps
      <4>2. QED
        BY <3>1, <4>1
    <3>2. CASE n # 0
      <4>1. n \in 1 .. Top /\ n - 1 \in 0 .. Top
        BY <1>1, <3>2
      <4>2. f[n] = G[n][f[n - 1]]
        <5> HIDE DEF G
        <5>1. QED
          BY <2>1, <3>2 DEF Steps
      <4>3. f[n] = Next1(n, f[n - 1])
        <5> HIDE DEF G, S, Next1
        <5>1. QED
          BY <1>4, <2>1, <4>1, <4>2
      <4>4. QED
        BY <3>2, <4>3
    <3>3. QED
      BY <3>1, <3>2
  <2>3. f = [n \in 0 .. Top |-> f[n]]
    <3> HIDE DEF G
    <3>1. QED
      BY <2>1 DEF Steps
  <2>4. Table(f)
    BY <1>1, <2>2, <2>3
  <2> HIDE DEF Table
  <2>5. QED
    BY <2>4
<1>7. Table(MergeShapes)
  <2>1. MergeShapes = CHOOSE f : Table(f)
    BY DEF MergeShapes
  <2> HIDE DEF Table
  <2>2. QED
    BY <1>6, <2>1
<1>8. \A n \in 1 .. Top : MergeShapes[n] = Next1(n, MergeShapes[n - 1])
  BY <1>1, <1>7
<1>9. MergeShapes[0] = b0
  BY <1>1, <1>7
<1> HIDE DEF Table
<1>10. \A n \in 0 .. Top : MergeShapes[n] \in S[n]
  <2>1. MergeShapes[0] \in S[0] /\ \A n \in 1 .. Top : MergeShapes[n - 1] \in S[n - 1] => MergeShapes[n] = G[n][MergeShapes[n - 1]]
    <3> HIDE DEF S, G, Next1, b0
    <3>1. QED
      BY <1>2, <1>4, <1>8, <1>9
  <2> HIDE DEF S, G
  <2>2. QED
    BY <1>1, <1>5, <2>1, StepsStay
<1>11. \A n \in Depths : MergeShapes[n] \in Merges(n)
  BY <1>1, <1>10
<1>12. \A n \in 1 .. Top : \A a, b \in Shapes[n] : MergeShapes[n][a][b] = MergeTwo(MergeShapes[n - 1], a, b)
  <2>1. SUFFICES ASSUME NEW n \in 1 .. Top, NEW a \in Shapes[n], NEW b \in Shapes[n]
                 PROVE  MergeShapes[n][a][b] = MergeTwo(MergeShapes[n - 1], a, b)
    OBVIOUS
  <2>2. MergeShapes[n] = Next1(n, MergeShapes[n - 1])
    BY <1>8
  <2>3. QED
    BY <2>2
<1>13. QED
  BY <1>11, <1>12

\* The levels with something in them.
Levels == 1 .. Top

\* Where a level lies among the depths.
LEMMA LevelsAre ==
  /\ Top \in Nat /\ Depths = 0 .. Top /\ JsonValues[0] = {} /\ 0 \in Depths
  /\ \A n \in Levels : n \in 0 .. Top /\ n \in Depths /\ n - 1 \in 0 .. Top /\ n - 1 \in Depths /\ n # 0 /\ n \in 1 .. Top
  /\ \A n \in Depths : n # 0 => n \in Levels
BY DepthsAre, JsonValuesAre DEF Levels

\* What a shape has been observed of. Nothing was observed of an unknown one.
Describes[n \in Depths] ==
  [shape \in Shapes[Top] |-> [value \in JsonValues[n] |->
     \E i \in DOMAIN FlattenUnion(shape) : IsOf(Describes[n - 1], {}, FlattenUnion(shape)[i], value)]]

\* A shape describes a value when one of its options does.
LEMMA DescribesIs ==
  \A n \in Levels : \A shape \in Shapes[Top], value \in JsonValues[n] :
    Describes[n][shape][value] <=>
      \E i \in DOMAIN FlattenUnion(shape) : IsOf(Describes[n - 1], {}, FlattenUnion(shape)[i], value)
<1> DEFINE Has(d, shape, value) ==
             \E i \in DOMAIN FlattenUnion(shape) : IsOf(d, {}, FlattenUnion(shape)[i], value)
           Kinds(n) == [Shapes[Top] -> [JsonValues[n] -> BOOLEAN]]
           Level(n, d) == [shape \in Shapes[Top] |-> [value \in JsonValues[n] |-> Has(d, shape, value)]]
           b0 == [shape \in Shapes[Top] |-> [value \in JsonValues[0] |-> FALSE]]
           S == [n \in 0 .. Top |-> Kinds(n)]
           G == [n \in Levels |-> [d \in Kinds(n - 1) |-> Level(n, d)]]
           Table(f) == f = [n \in Depths |-> [shape \in Shapes[Top] |-> [value \in JsonValues[n] |-> Has(f[n - 1], shape, value)]]]
<1>1. \A n \in Levels : \A d \in Kinds(n - 1) : Level(n, d) \in Kinds(n)
  OBVIOUS
<1>2. b0 \in S[0] /\ \A n \in Levels : S[n - 1] = Kinds(n - 1) /\ S[n] = Kinds(n)
  BY LevelsAre
<1>3. \A n \in Levels : \A d \in S[n - 1] : G[n][d] \in S[n] /\ G[n][d] = Level(n, d)
  <2> HIDE DEF Level, Kinds, S
  <2>1. QED
    BY <1>1, <1>2
<1>4. \A n \in 1 .. Top : \A d \in S[n - 1] : G[n][d] \in S[n]
  BY <1>3 DEF Levels
<1>5. PICK f : Steps(f, Top, b0, G) /\ \A n \in 0 .. Top : f[n] \in S[n]
  <2> HIDE DEF S, G, b0
  <2>1. QED
    BY <1>2, <1>4, LevelsAre, StepByStep
<1>6. ASSUME NEW n \in Depths
      PROVE  f[n] = [shape \in Shapes[Top] |-> [value \in JsonValues[n] |-> Has(f[n - 1], shape, value)]]
  <2>1. CASE n = 0
    <3>1. f[n] = b0
      BY <1>5, <2>1, LevelsAre DEF Steps
    <3> HIDE DEF Has
    <3>2. QED
      BY <2>1, <3>1, LevelsAre
  <2>2. CASE n # 0
    <3>1. n \in Levels
      BY <2>2, LevelsAre
    <3>2. f[n] = G[n][f[n - 1]] /\ f[n - 1] \in S[n - 1]
      <4> HIDE DEF G, S
      <4>1. QED
        BY <1>5, <2>2, <3>1, LevelsAre DEF Steps
    <3>3. f[n] = Level(n, f[n - 1])
      <4> HIDE DEF G, S, Level
      <4>1. QED
        BY <1>3, <3>1, <3>2
    <3>4. QED
      BY <3>3
  <2>3. QED
    BY <2>1, <2>2
<1>7. Table(f)
  <2>1. f = [n \in 0 .. Top |-> f[n]]
    <3> HIDE DEF G, b0
    <3>1. QED
      BY <1>5 DEF Steps
  <2> HIDE DEF Has
  <2>2. QED
    BY <1>6, <2>1, LevelsAre
<1>8. Table(Describes)
  <2>1. Describes = CHOOSE g : Table(g)
    BY DEF Describes
  <2> HIDE DEF Table
  <2>2. QED
    BY <1>7, <2>1
<1>9. SUFFICES ASSUME NEW n \in Levels, NEW shape \in Shapes[Top], NEW value \in JsonValues[n]
               PROVE  Describes[n][shape][value] = Has(Describes[n - 1], shape, value)
  OBVIOUS
<1>10. Describes[n] = [s \in Shapes[Top] |-> [v \in JsonValues[n] |-> Has(Describes[n - 1], s, v)]]
  <2> HIDE DEF Has
  <2>1. QED
    BY <1>8, LevelsAre
<1> HIDE DEF Has
<1>11. QED
  BY <1>10

\* What a merge forgets, from the level below.
LEMMA MergeForgetsIs ==
  \A n \in Levels : \A a, b \in Shapes[n] : MergeForgets[n][a][b] = (n > 0 /\ Forgets(MergeForgets[n - 1], a, b))
<1> DEFINE Kinds(n) == [Shapes[n] -> [Shapes[n] -> BOOLEAN]]
           Level(n, d) == [a \in Shapes[n] |-> [b \in Shapes[n] |-> n > 0 /\ Forgets(d, a, b)]]
           b0 == [a \in Shapes[0] |-> [b \in Shapes[0] |-> FALSE]]
           S == [n \in 0 .. Top |-> Kinds(n)]
           G == [n \in Levels |-> [d \in Kinds(n - 1) |-> Level(n, d)]]
           Table(f) == f = [n \in Depths |-> [a \in Shapes[n] |-> [b \in Shapes[n] |-> n > 0 /\ Forgets(f[n - 1], a, b)]]]
<1>1. \A n \in Levels : \A d \in Kinds(n - 1) : Level(n, d) \in Kinds(n)
  OBVIOUS
<1>2. b0 \in S[0] /\ \A n \in Levels : S[n - 1] = Kinds(n - 1) /\ S[n] = Kinds(n)
  BY LevelsAre
<1>3. \A n \in Levels : \A d \in S[n - 1] : G[n][d] \in S[n] /\ G[n][d] = Level(n, d)
  <2> HIDE DEF Level, Kinds, S
  <2>1. QED
    BY <1>1, <1>2
<1>4. \A n \in 1 .. Top : \A d \in S[n - 1] : G[n][d] \in S[n]
  BY <1>3 DEF Levels
<1>5. PICK f : Steps(f, Top, b0, G) /\ \A n \in 0 .. Top : f[n] \in S[n]
  <2> HIDE DEF S, G, b0
  <2>1. QED
    BY <1>2, <1>4, LevelsAre, StepByStep
<1>6. ASSUME NEW n \in Depths
      PROVE  f[n] = [a \in Shapes[n] |-> [b \in Shapes[n] |-> n > 0 /\ Forgets(f[n - 1], a, b)]]
  <2>1. CASE n = 0
    <3>1. f[n] = b0
      BY <1>5, <2>1, LevelsAre DEF Steps
    <3>2. \A a, b \in Shapes[0] : (n > 0 /\ Forgets(f[n - 1], a, b)) = FALSE
      BY <2>1
    <3>3. QED
      BY <2>1, <3>1, <3>2
  <2>2. CASE n # 0
    <3>1. n \in Levels
      BY <2>2, LevelsAre
    <3>2. f[n] = G[n][f[n - 1]] /\ f[n - 1] \in S[n - 1]
      <4> HIDE DEF G, S
      <4>1. QED
        BY <1>5, <2>2, <3>1, LevelsAre DEF Steps
    <3>3. f[n] = Level(n, f[n - 1])
      <4> HIDE DEF G, S, Level
      <4>1. QED
        BY <1>3, <3>1, <3>2
    <3>4. QED
      BY <3>3
  <2>3. QED
    BY <2>1, <2>2
<1>7. Table(f)
  <2>1. f = [n \in 0 .. Top |-> f[n]]
    <3> HIDE DEF G, b0
    <3>1. QED
      BY <1>5 DEF Steps
  <2>2. QED
    BY <1>6, <2>1, LevelsAre
<1>8. Table(MergeForgets)
  <2>1. MergeForgets = CHOOSE g : Table(g)
    BY DEF MergeForgets
  <2> HIDE DEF Table
  <2>2. QED
    BY <1>7, <2>1
<1>9. SUFFICES ASSUME NEW n \in Levels, NEW a \in Shapes[n], NEW b \in Shapes[n]
               PROVE  MergeForgets[n][a][b] = (n > 0 /\ Forgets(MergeForgets[n - 1], a, b))
  OBVIOUS
<1>10. MergeForgets[n] = [s \in Shapes[n] |-> [t \in Shapes[n] |-> n > 0 /\ Forgets(MergeForgets[n - 1], s, t)]]
  BY <1>8, LevelsAre
<1>11. QED
  BY <1>10

\* The shapes of every level are among those of the highest.
LEMMA ShapesWithin ==
  /\ \A n \in Depths : Shapes[n] \subseteq Shapes[Top]
  /\ \A n \in Levels : Shapes[n - 1] \subseteq Shapes[Top] /\ Plain(Shapes[n - 1]) \subseteq Shapes[n]
BY ShapesGrow, ShapesHave, LevelsAre

\* A shape that is no union describes what is of it.
LEMMA PlainDescribes ==
  ASSUME NEW k \in Levels, NEW v \in JsonValues[k], NEW s \in Shapes[Top], s.kind # "union"
  PROVE  Describes[k][s][v] <=> IsOf(Describes[k - 1], {}, s, v)
<1>1. FlattenUnion(s) = <<s>>
  BY DEF FlattenUnion
<1>2. QED
  BY <1>1, DescribesIs

\* A union describes what one of its options does.
LEMMA UnionDescribes ==
  ASSUME NEW k \in Levels, NEW v \in JsonValues[k], NEW options, Union(options) \in Shapes[Top]
  PROVE  Describes[k][Union(options)][v] <=> \E i \in DOMAIN options : IsOf(Describes[k - 1], {}, options[i], v)
<1>1. FlattenUnion(Union(options)) = options
  BY DEF FlattenUnion, Union
<1>2. QED
  BY <1>1, DescribesIs

\* What is of two kinds of fields is of the fields they merge into.
LEMMA FieldsDescribe ==
  ASSUME NEW n \in Levels, NEW k \in Levels, NEW record \in [Keys -> JsonValues[k - 1] \cup {Absent}],
         NEW A \in FieldsOver(Shapes[n - 1]), NEW B \in FieldsOver(Shapes[n - 1]),
         Fits(Describes[k - 1], A, record) \/ Fits(Describes[k - 1], B, record),
         \A key \in Keys : HasField(A, key) /\ HasField(B, key) => ~MergeForgets[n - 1][A[key].shape][B[key].shape],
         \A a, b \in Shapes[n - 1] : ~MergeForgets[n - 1][a][b] =>
           \A v \in JsonValues[k - 1] :
             Describes[k - 1][a][v] \/ Describes[k - 1][b][v] => Describes[k - 1][MergeShapes[n - 1][a][b]][v]
  PROVE  Fits(Describes[k - 1], MergedFields(MergeShapes[n - 1], A, B), record)
<1> DEFINE F == MergedFields(MergeShapes[n - 1], A, B)
<1>1. SUFFICES ASSUME NEW key \in Keys
               PROVE  IF record[key] = Absent THEN ~F[key].required
                      ELSE HasField(F, key) /\ Describes[k - 1][F[key].shape][record[key]]
  BY DEF Fits
<1>2. F[key] = IF ~HasField(B, key) THEN Field(A[key].shape, FALSE)
               ELSE IF ~HasField(A, key) THEN Field(B[key].shape, FALSE)
               ELSE Field(MergeShapes[n - 1][A[key].shape][B[key].shape], A[key].required /\ B[key].required)
  BY DEF MergedFields
<1> HIDE DEF F
<1>3. CASE record[key] = Absent
  <2>1. ~A[key].required \/ ~B[key].required
    BY <1>3 DEF Fits
  <2>2. \/ F[key] = Field(A[key].shape, FALSE)
        \/ F[key] = Field(B[key].shape, FALSE)
        \/ F[key] = Field(MergeShapes[n - 1][A[key].shape][B[key].shape], A[key].required /\ B[key].required)
    BY <1>2
  <2>3. \A shape, required : Field(shape, required).required = required
    BY DEF Field
  <2>4. F[key].required = FALSE \/ F[key].required = (A[key].required /\ B[key].required)
    BY <2>2, <2>3
  <2>5. QED
    BY <1>3, <2>1, <2>4
<1>4. CASE record[key] # Absent
  <2>1. record[key] \in JsonValues[k - 1]
    BY <1>4
  <2>2. \/ HasField(A, key) /\ Describes[k - 1][A[key].shape][record[key]]
        \/ HasField(B, key) /\ Describes[k - 1][B[key].shape][record[key]]
    BY <1>4 DEF Fits
  <2>3. CASE ~HasField(B, key)
    <3>1. F[key].shape = A[key].shape
      BY <1>2, <2>3 DEF Field
    <3>2. QED
      BY <1>4, <2>2, <2>3, <3>1 DEF HasField
  <2>4. CASE ~HasField(A, key)
    <3>1. HasField(B, key) /\ F[key].shape = B[key].shape
      BY <1>2, <2>2, <2>4 DEF Field
    <3>2. QED
      BY <1>4, <2>2, <2>4, <3>1 DEF HasField
  <2>5. CASE HasField(A, key) /\ HasField(B, key)
    <3> DEFINE a == A[key].shape
               b == B[key].shape
    <3>1. a \in Shapes[n - 1] /\ b \in Shapes[n - 1]
      BY <2>5, FieldIs
    <3>2. F[key].shape = MergeShapes[n - 1][a][b]
      BY <1>2, <2>5 DEF Field
    <3>3. ~MergeForgets[n - 1][a][b] /\ (Describes[k - 1][a][record[key]] \/ Describes[k - 1][b][record[key]])
      BY <2>2, <2>5
    <3> HIDE DEF a, b
    <3>4. Describes[k - 1][MergeShapes[n - 1][a][b]][record[key]]
      BY <2>1, <3>1, <3>3
    <3>5. MergeShapes[n - 1][a][b] \in Shapes[n - 1]
      BY <3>1, MergesAre, LevelsAre DEF Merges
    <3>6. MergeShapes[n - 1][a][b] # Absent
      BY <3>5, LevelsAre, ShapesGrow
    <3>7. QED
      BY <1>4, <3>2, <3>4, <3>6 DEF HasField
  <2>6. QED
    BY <2>3, <2>4, <2>5
<1>5. QED
  BY <1>3, <1>4

\* A merge that forgets nothing describes what either of the two shapes does.
LEMMA MergeDescribes ==
  \A n \in Depths : \A a, b \in Shapes[n] : ~MergeForgets[n][a][b] =>
    \A k \in Levels : \A v \in JsonValues[k] :
      Describes[k][a][v] \/ Describes[k][b][v] => Describes[k][MergeShapes[n][a][b]][v]
<1> DEFINE Sound(n) == \A a, b \in Shapes[n] : ~MergeForgets[n][a][b] =>
                         \A k \in Levels : \A v \in JsonValues[k] :
                           Describes[k][a][v] \/ Describes[k][b][v] => Describes[k][MergeShapes[n][a][b]][v]
           T == {n \in 0 .. Top : Sound(n)}
<1>1. 0 \in T
  <2>1. ASSUME NEW a \in Shapes[0], NEW b \in Shapes[0] PROVE a = MergeShapes[0][a][b] /\ b = MergeShapes[0][a][b]
    BY ShapesAre, MergesAre, LevelsAre DEF Merges
  <2>2. QED
    BY <2>1, LevelsAre
<1>2. ASSUME NEW n \in Levels, n - 1 \in T PROVE n \in T
  <2>1. SUFFICES ASSUME NEW a \in Shapes[n], NEW b \in Shapes[n], ~MergeForgets[n][a][b],
                        NEW k \in Levels, NEW v \in JsonValues[k], Describes[k][a][v] \/ Describes[k][b][v]
                 PROVE  Describes[k][MergeShapes[n][a][b]][v]
    BY LevelsAre
  <2> DEFINE P == Plain(Shapes[n - 1])
             m == MergeTwo(MergeShapes[n - 1], a, b)
  <2>2. MergeShapes[n][a][b] = m /\ m \in Shapes[n] /\ m \in Shapes[Top] /\ a \in Shapes[Top] /\ b \in Shapes[Top]
    <3>1. n \in 1 .. Top /\ n \in Depths
      BY LevelsAre
    <3>2. MergeShapes[n][a][b] = m /\ MergeShapes[n] \in Merges(n)
      BY <3>1, MergesAre
    <3>3. MergeShapes[n][a][b] \in Shapes[n]
      BY <3>2 DEF Merges
    <3> HIDE DEF m
    <3>4. QED
      BY <3>1, <3>2, <3>3, ShapesWithin
  <2>3. ~Forgets(MergeForgets[n - 1], a, b)
    <3>1. n > 0
      BY LevelsAre DEF Levels
    <3>2. QED
      BY <2>1, <3>1, MergeForgetsIs
  <2>4. \A s \in {a, b} : s.kind # "union" => s \in P /\ (Describes[k][s][v] <=> IsOf(Describes[k - 1], {}, s, v))
    BY <2>2, Options, ShapesHave, PlainDescribes DEF Levels
  <2>5. \A s, t \in Shapes[n - 1] : ~MergeForgets[n - 1][s][t] =>
          \A w \in JsonValues[k - 1] :
            Describes[k - 1][s][w] \/ Describes[k - 1][t][w] => Describes[k - 1][MergeShapes[n - 1][s][t]][w]
    <3>1. CASE k - 1 = 0
      BY <3>1, LevelsAre
    <3>2. CASE k - 1 # 0
      BY <1>2, <3>2, LevelsAre
    <3>3. QED
      BY <3>1, <3>2
  <2>6. MergeShapes[n - 1] \in Merges(n - 1)
    BY MergesAre, LevelsAre
  <2>7. CASE a.kind = "unknown" \/ b.kind = "unknown"
    <3>1. \A s \in {a, b} : s.kind = "unknown" => ~Describes[k][s][v]
      <4>1. v.kind # "unknown"
        BY ValueIs, LevelsAre DEF LeafKinds
      <4>2. QED
        BY <2>4, <4>1 DEF IsOf
    <3>2. \/ a.kind = "unknown" /\ m = b
          \/ a.kind # "unknown" /\ b.kind = "unknown" /\ m = a
      BY <2>7 DEF MergeTwo
    <3> HIDE DEF m
    <3>3. QED
      BY <2>1, <2>2, <3>1, <3>2
  <2>8. CASE a.kind # "unknown" /\ b.kind # "unknown" /\ {a.kind, b.kind} = {"integer", "number"}
    <3>1. m = Kind("number")
      BY <2>8 DEF MergeTwo
    <3>2. a.kind \in {"integer", "number"} /\ b.kind \in {"integer", "number"}
      BY <2>8
    <3>3. v.kind \in {"integer", "number"}
      BY <2>1, <2>4, <3>2 DEF IsOf
    <3>4. IsOf(Describes[k - 1], {}, Kind("number"), v)
      BY <3>3 DEF IsOf, Kind
    <3>5. Kind("number").kind # "union"
      BY DEF Kind
    <3> HIDE DEF m
    <3>6. QED
      BY <2>2, <3>1, <3>4, <3>5, PlainDescribes
  <2>9. CASE a.kind # "unknown" /\ b.kind # "unknown" /\ {a.kind, b.kind} # {"integer", "number"} /\ a.kind # b.kind
    <3> DEFINE options == BothOptions(a, b)
    <3>1. m = Union(Dedupe(options))
      BY <2>9 DEF MergeTwo
    <3>2. options \in Seq(P)
      BY BothOptionsAre DEF Levels
    <3>3. \A i, j \in DOMAIN options : SameShape[options[i]][options[j]] => options[i] = options[j]
      <4>1. "unknown" \notin {a.kind, b.kind}
        BY <2>9
      <4> HIDE DEF options
      <4>2. QED
        BY <2>3, <2>9, <4>1 DEF Forgets, options
    <3>4. \A i \in DOMAIN options : \E j \in DOMAIN Dedupe(options) : Dedupe(options)[j] = options[i]
      <4> HIDE DEF options, P
      <4>1. QED
        BY <3>2, <3>3, DedupeKeeps
    <3>5. PICK s \in {a, b} : Describes[k][s][v]
      BY <2>1
    <3>6. PICK i \in DOMAIN FlattenUnion(s) : IsOf(Describes[k - 1], {}, FlattenUnion(s)[i], v)
      BY <2>2, <3>5, DescribesIs
    <3>7. PICK j \in DOMAIN options : options[j] = FlattenUnion(s)[i]
      BY <3>5, <3>6, BothOptionsAre DEF Levels
    <3>8. PICK l \in DOMAIN Dedupe(options) : Dedupe(options)[l] = options[j]
      BY <3>4, <3>7
    <3> HIDE DEF m, options
    <3>9. QED
      BY <2>2, <3>1, <3>6, <3>7, <3>8, UnionDescribes
  <2>10. CASE a.kind = "array" /\ b.kind = "array"
    <3>1. a.items \in Shapes[n - 1] /\ b.items \in Shapes[n - 1]
      BY <2>4, <2>10, PlainIs
    <3>2. m = List(MergeShapes[n - 1][a.items][b.items])
      BY <2>10 DEF MergeTwo
    <3>3. ~MergeForgets[n - 1][a.items][b.items]
      <4>1. {a.kind, b.kind} = {"array"}
        BY <2>10
      <4>2. QED
        BY <2>3, <4>1 DEF Forgets
    <3>4. v.kind = "array" /\ v.items \in Seq(JsonValues[k - 1])
      BY <2>1, <2>4, <2>10, ValueIs, LevelsAre DEF IsOf
    <3>5. \A i \in DOMAIN v.items : v.items[i] \in JsonValues[k - 1]
      BY <3>4
    <3>6. \A i \in DOMAIN v.items : Describes[k - 1][MergeShapes[n - 1][a.items][b.items]][v.items[i]]
      <4>1. CASE Describes[k][a][v]
        <5>1. \A i \in DOMAIN v.items : Describes[k - 1][a.items][v.items[i]]
          BY <2>4, <2>10, <4>1 DEF IsOf
        <5>2. QED
          BY <2>5, <3>1, <3>3, <3>5, <5>1
      <4>2. CASE Describes[k][b][v]
        <5>1. \A i \in DOMAIN v.items : Describes[k - 1][b.items][v.items[i]]
          BY <2>4, <2>10, <4>2 DEF IsOf
        <5>2. QED
          BY <2>5, <3>1, <3>3, <3>5, <5>1
      <4>3. QED
        BY <2>1, <4>1, <4>2
    <3> HIDE DEF m
    <3>7. IsOf(Describes[k - 1], {}, m, v) /\ m.kind # "union"
      BY <3>2, <3>4, <3>6 DEF IsOf, List
    <3>8. QED
      BY <2>2, <3>7, PlainDescribes
  <2>11. CASE a.kind = "object" /\ b.kind = "object"
    <3> DEFINE F == MergedFields(MergeShapes[n - 1], a.fields, b.fields)
    <3>1. a.fields \in FieldsOver(Shapes[n - 1]) /\ b.fields \in FieldsOver(Shapes[n - 1])
      BY <2>4, <2>11, PlainIs
    <3>2. m = [kind |-> "object", fields |-> F]
      BY <2>6, <2>11, MergeTwoIsShape DEF Levels
    <3>3. \A key \in Keys : HasField(a.fields, key) /\ HasField(b.fields, key) =>
                              ~MergeForgets[n - 1][a.fields[key].shape][b.fields[key].shape]
      <4>1. {a.kind, b.kind} = {"object"}
        BY <2>11
      <4>2. QED
        BY <2>3, <4>1 DEF Forgets
    <3>4. v.kind = "object" /\ v.fields \in [Keys -> JsonValues[k - 1] \cup {Absent}]
      BY <2>1, <2>4, <2>11, ValueIs, LevelsAre DEF IsOf
    <3>5. Fits(Describes[k - 1], a.fields, v.fields) \/ Fits(Describes[k - 1], b.fields, v.fields)
      BY <2>1, <2>4, <2>11 DEF IsOf
    <3>6. Fits(Describes[k - 1], F, v.fields)
      BY <2>5, <3>1, <3>3, <3>4, <3>5, FieldsDescribe
    <3> HIDE DEF m, F
    <3>7. IsOf(Describes[k - 1], {}, m, v) /\ m.kind # "union"
      BY <3>2, <3>4, <3>6 DEF IsOf
    <3>8. QED
      BY <2>2, <3>7, PlainDescribes
  <2>12. CASE a.kind = b.kind /\ a.kind \notin {"unknown", "array", "object"}
    <3>1. a = b
      BY <2>3, <2>12 DEF Forgets
    <3>2. m = a
      BY <2>12 DEF MergeTwo
    <3> HIDE DEF m
    <3>3. QED
      BY <2>1, <2>2, <3>1, <3>2
  <2>13. QED
    BY <2>7, <2>8, <2>9, <2>10, <2>11, <2>12
<1>3. \A n \in 0 .. Top : n \in T
  <2>1. \A n \in 1 .. Top : n - 1 \in T => n \in T
    BY <1>2 DEF Levels
  <2> HIDE DEF T
  <2>2. QED
    BY <1>1, <2>1, LevelsAre, UpTo
<1>4. QED
  BY <1>3, LevelsAre

\* Whatever is of some levels is of more.
LEMMA JsonGrow ==
  \A n \in Depths : \A m \in 0 .. n : JsonValues[m] \subseteq JsonValues[n]
<1>1. ASSUME NEW A, NEW B, A \subseteq B PROVE JsonInside(A) \subseteq JsonInside(B)
  <2>1. Seq(A) \subseteq Seq(B)
    <3>1. SUFFICES ASSUME NEW s \in Seq(A) PROVE s \in Seq(B)
      OBVIOUS
    <3>2. QED
      BY <1>1, SeqMonotonic
  <2>2. [kind : {"array"}, items : Seq(A)] \subseteq [kind : {"array"}, items : Seq(B)]
    BY <2>1
  <2>3. [kind : {"object"}, fields : [Keys -> A \cup {Absent}]] \subseteq [kind : {"object"}, fields : [Keys -> B \cup {Absent}]]
    <3>1. [Keys -> A \cup {Absent}] \subseteq [Keys -> B \cup {Absent}]
      BY <1>1
    <3>2. QED
      BY <3>1
  <2>4. QED
    BY <2>2, <2>3 DEF JsonInside
<1>2. \A n \in 0 .. Top : n = 0 \/ JsonValues[n - 1] \subseteq JsonValues[n]
  <2> DEFINE T == {n \in 0 .. Top : n = 0 \/ JsonValues[n - 1] \subseteq JsonValues[n]}
  <2>1. 0 \in T
    BY LevelsAre
  <2>2. ASSUME NEW n \in 1 .. Top, n - 1 \in T PROVE n \in T
    <3>1. CASE n - 1 = 0
      BY <3>1, LevelsAre DEF Levels
    <3>2. CASE n - 1 # 0
      <4>1. n - 1 \in 1 .. Top /\ n - 1 - 1 = n - 2 /\ n \in 0 .. Top
        BY <3>2, LevelsAre
      <4>2. JsonValues[n - 2] \subseteq JsonValues[n - 1]
        BY <2>2, <3>2, <4>1
      <4>3. JsonValues[n - 1] = JsonInside(JsonValues[n - 2]) /\ JsonValues[n] = JsonInside(JsonValues[n - 1])
        BY <4>1, JsonValuesAre
      <4>4. JsonValues[n - 1] \subseteq JsonValues[n]
        BY <1>1, <4>2, <4>3
      <4>5. QED
        BY <4>1, <4>4
    <3>3. QED
      BY <3>1, <3>2
  <2>3. \A n \in 0 .. Top : n \in T
    <3> HIDE DEF T
    <3>1. QED
      BY <2>1, <2>2, LevelsAre, UpTo
  <2>4. QED
    BY <2>3
<1>3. \A n \in 0 .. Top : \A m \in 0 .. n : JsonValues[m] \subseteq JsonValues[n]
  <2> DEFINE T == {n \in 0 .. Top : \A m \in 0 .. n : JsonValues[m] \subseteq JsonValues[n]}
  <2>1. 0 \in T
    BY LevelsAre
  <2>2. ASSUME NEW n \in 1 .. Top, n - 1 \in T PROVE n \in T
    <3>1. JsonValues[n - 1] \subseteq JsonValues[n] /\ n \in 0 .. Top
      BY <1>2, LevelsAre
    <3>2. \A m \in 0 .. n : m \in 0 .. n - 1 \/ m = n
      BY LevelsAre
    <3>3. \A m \in 0 .. n - 1 : JsonValues[m] \subseteq JsonValues[n - 1]
      BY <2>2
    <3>4. \A m \in 0 .. n : JsonValues[m] \subseteq JsonValues[n]
      BY <3>1, <3>2, <3>3
    <3>5. QED
      BY <3>1, <3>4
  <2>3. \A n \in 0 .. Top : n \in T
    <3> HIDE DEF T
    <3>1. QED
      BY <2>1, <2>2, LevelsAre, UpTo
  <2>4. QED
    BY <2>3
<1>4. QED
  BY <1>3, LevelsAre

\* The shapes of the first elements of a list.
LEMMA MergedItemsAre ==
  ASSUME NEW n \in Depths, NEW shapes \in Seq(Shapes[n])
  PROVE  /\ MergedItems(n, shapes)[0] = Unknown
         /\ \A i \in 1 .. Len(shapes) : MergedItems(n, shapes)[i] = MergeShapes[n][MergedItems(n, shapes)[i - 1]][shapes[i]]
         /\ \A i \in 0 .. Len(shapes) : MergedItems(n, shapes)[i] \in Shapes[n]
<1> DEFINE D == Len(shapes)
           S == [i \in 0 .. D |-> Shapes[n]]
           G == [i \in 1 .. D |-> [m \in Shapes[n] |-> MergeShapes[n][m][shapes[i]]]]
           Table(f) == f = [i \in 0 .. D |-> IF i = 0 THEN Unknown ELSE MergeShapes[n][f[i - 1]][shapes[i]]]
<1>1. D \in Nat /\ \A i \in 1 .. D : shapes[i] \in Shapes[n] /\ i \in 0 .. D /\ i - 1 \in 0 .. D /\ i # 0
  BY LenProperties
<1>2. Unknown \in S[0]
  BY <1>1, ShapesGrow
<1>3. \A i \in 1 .. D : \A m \in S[i - 1] : G[i][m] \in S[i] /\ G[i][m] = MergeShapes[n][m][shapes[i]]
  <2>1. \A i \in 1 .. D : \A m \in Shapes[n] : MergeShapes[n][m][shapes[i]] \in Shapes[n]
    BY <1>1, MergesAre DEF Merges
  <2> HIDE DEF D
  <2>2. QED
    BY <1>1, <2>1
<1>4. D \in Nat /\ \A i \in 1 .. D : \A m \in S[i - 1] : G[i][m] \in S[i]
  BY <1>1, <1>3
<1>5. PICK f : Steps(f, D, Unknown, G) /\ \A i \in 0 .. D : f[i] \in S[i]
  <2> HIDE DEF S, G, D
  <2>1. QED
    BY <1>2, <1>4, StepByStep
<1>6. Table(f)
  <2>1. \A i \in 0 .. D : i # 0 => i \in 1 .. D /\ i - 1 \in 0 .. D
    BY <1>1
  <2> HIDE DEF S, G, D
  <2>2. QED
    BY <1>3, <1>5, <2>1 DEF Steps
<1> DEFINE merged == CHOOSE g : Table(g)
<1>7. Table(merged)
  <2> HIDE DEF Table
  <2>1. QED
    BY <1>6
<1>8. MergedItems(n, shapes) = merged
  BY DEF MergedItems
<1> HIDE DEF merged
<1>9. merged[0] = Unknown /\ \A i \in 1 .. D : merged[i] = MergeShapes[n][merged[i - 1]][shapes[i]]
  <2> HIDE DEF D
  <2>1. 0 \in 0 .. D
    BY <1>1
  <2>2. QED
    BY <1>1, <1>7, <2>1
<1>10. \A i \in 0 .. D : merged[i] \in S[i]
  <2>1. merged[0] \in S[0] /\ \A i \in 1 .. D : merged[i - 1] \in S[i - 1] => merged[i] = G[i][merged[i - 1]]
    <3> HIDE DEF S, G, D, Table
    <3>1. QED
      BY <1>2, <1>3, <1>9
  <2> HIDE DEF S, G, D
  <2>2. QED
    BY <1>4, <2>1, StepsStay
<1>11. \A i \in 0 .. D : merged[i] \in Shapes[n]
  BY <1>10
<1>12. QED
  BY <1>8, <1>9, <1>11

\* One level of the inference, on that of the level below.
InferOne(n, infer, value) ==
  LET Child(child) == IF child = Absent THEN Field(Absent, FALSE) ELSE Field(infer[child], TRUE)
  IN CASE value.kind = "array" -> List(MergedItems(n - 1, Inferred(infer, value.items))[Len(value.items)])
       [] value.kind = "object" -> [kind |-> "object", fields |-> [key \in Keys |-> Child(value.fields[key])]]
       [] OTHER -> value

\* Inferences of shapes from the values of a level.
Inferences(n) == [JsonValues[n] -> Shapes[n]]

\* The shapes inferred from a list, one for each of its elements.
LEMMA InferredAre ==
  ASSUME NEW n \in Levels, NEW infer \in Inferences(n - 1), NEW items \in Seq(JsonValues[n - 1])
  PROVE  /\ Inferred(infer, items) \in Seq(Shapes[n - 1]) /\ Len(Inferred(infer, items)) = Len(items)
         /\ \A i \in 1 .. Len(items) : Inferred(infer, items)[i] = infer[items[i]]
<1>1. Len(items) \in Nat /\ DOMAIN items = 1 .. Len(items) /\ \A i \in 1 .. Len(items) : items[i] \in JsonValues[n - 1]
  BY LenProperties
<1>2. Inferred(infer, items) = [i \in 1 .. Len(items) |-> infer[items[i]]]
  BY <1>1 DEF Inferred
<1>3. \A i \in 1 .. Len(items) : infer[items[i]] \in Shapes[n - 1]
  BY <1>1 DEF Inferences
<1>4. QED
  BY <1>1, <1>2, <1>3

\* What is inferred from a value nests no deeper than it.
LEMMA InferOneIsShape ==
  ASSUME NEW n \in Levels, NEW infer \in Inferences(n - 1), NEW value \in JsonValues[n]
  PROVE  InferOne(n, infer, value) \in Shapes[n]
<1>1. n - 1 \in Depths /\ Plain(Shapes[n - 1]) \subseteq Shapes[n]
  BY LevelsAre, ShapesWithin
<1>2. CASE value.kind = "array"
  <2> DEFINE shapes == Inferred(infer, value.items)
  <2>1. value.items \in Seq(JsonValues[n - 1])
    BY <1>2, ValueIs, LevelsAre
  <2>2. shapes \in Seq(Shapes[n - 1]) /\ Len(shapes) = Len(value.items) /\ Len(shapes) \in Nat
    BY <2>1, InferredAre, LenProperties
  <2> HIDE DEF shapes
  <2>3. MergedItems(n - 1, shapes)[Len(value.items)] \in Shapes[n - 1]
    BY <1>1, <2>2, MergedItemsAre
  <2>4. InferOne(n, infer, value) = List(MergedItems(n - 1, shapes)[Len(value.items)])
    BY <1>2 DEF InferOne, shapes
  <2>5. QED
    BY <1>1, <2>3, <2>4, PlainHas
<1>3. CASE value.kind = "object"
  <2>1. value.fields \in [Keys -> JsonValues[n - 1] \cup {Absent}]
    BY <1>3, ValueIs, LevelsAre
  <2> DEFINE F == [key \in Keys |-> IF value.fields[key] = Absent THEN Field(Absent, FALSE)
                                    ELSE Field(infer[value.fields[key]], TRUE)]
  <2>2. ASSUME NEW key \in Keys PROVE F[key] \in [shape : Shapes[n - 1] \cup {Absent}, required : BOOLEAN]
    BY <2>1 DEF Field, Inferences
  <2>3. F \in FieldsOver(Shapes[n - 1])
    BY <2>2 DEF FieldsOver
  <2>4. InferOne(n, infer, value) = [kind |-> "object", fields |-> F]
    BY <1>3 DEF InferOne
  <2> HIDE DEF F
  <2>5. QED
    BY <1>1, <2>3, <2>4, PlainHas
<1>4. CASE value.kind \notin {"array", "object"}
  <2>1. InferOne(n, infer, value) = value
    BY <1>4 DEF InferOne
  <2>2. value.kind \in LeafKinds /\ value = Kind(value.kind)
    BY <1>4, ValueIs, LevelsAre
  <2>3. QED
    BY <1>1, <2>1, <2>2, PlainHas
<1>5. QED
  BY <1>2, <1>3, <1>4

\* What InferShape is at each level.
LEMMA InferencesAre ==
  /\ \A n \in Depths : InferShape[n] \in Inferences(n)
  /\ \A n \in Levels : \A value \in JsonValues[n] : InferShape[n][value] = InferOne(n, InferShape[n - 1], value)
<1> DEFINE Level(n, t) == [value \in JsonValues[n] |-> InferOne(n, t, value)]
           b0 == [value \in JsonValues[0] |-> Unknown]
           S == [n \in 0 .. Top |-> Inferences(n)]
           G == [n \in Levels |-> [t \in Inferences(n - 1) |-> Level(n, t)]]
           Table(f) == f = [n \in Depths |-> [value \in JsonValues[n] |-> InferOne(n, f[n - 1], value)]]
<1>1. \A n \in Levels : \A t \in Inferences(n - 1) : Level(n, t) \in Inferences(n)
  BY InferOneIsShape DEF Inferences
<1>2. b0 \in S[0] /\ \A n \in Levels : S[n - 1] = Inferences(n - 1) /\ S[n] = Inferences(n)
  BY LevelsAre DEF Inferences
<1>3. \A n \in Levels : \A t \in S[n - 1] : G[n][t] \in S[n] /\ G[n][t] = Level(n, t)
  <2> HIDE DEF Level, S
  <2>1. QED
    BY <1>1, <1>2
<1>4. \A n \in 1 .. Top : \A t \in S[n - 1] : G[n][t] \in S[n]
  BY <1>3 DEF Levels
<1>5. PICK f : Steps(f, Top, b0, G) /\ \A n \in 0 .. Top : f[n] \in S[n]
  <2> HIDE DEF S, G, b0
  <2>1. QED
    BY <1>2, <1>4, LevelsAre, StepByStep
<1>6. ASSUME NEW n \in Depths
      PROVE  f[n] = [value \in JsonValues[n] |-> InferOne(n, f[n - 1], value)]
  <2>1. CASE n = 0
    <3>1. f[n] = b0
      BY <1>5, <2>1, LevelsAre DEF Steps
    <3>2. QED
      BY <2>1, <3>1, LevelsAre
  <2>2. CASE n # 0
    <3>1. n \in Levels
      BY <2>2, LevelsAre
    <3>2. f[n] = G[n][f[n - 1]] /\ f[n - 1] \in S[n - 1]
      <4> HIDE DEF G, S
      <4>1. QED
        BY <1>5, <2>2, <3>1, LevelsAre DEF Steps
    <3>3. f[n] = Level(n, f[n - 1])
      <4> HIDE DEF G, S, Level
      <4>1. QED
        BY <1>3, <3>1, <3>2
    <3>4. QED
      BY <3>3
  <2>3. QED
    BY <2>1, <2>2
<1>7. Table(f)
  <2>1. f = [n \in 0 .. Top |-> f[n]]
    <3> HIDE DEF G, b0
    <3>1. QED
      BY <1>5 DEF Steps
  <2>2. QED
    BY <1>6, <2>1, LevelsAre
<1>8. Table(InferShape)
  <2>1. InferShape = CHOOSE g : Table(g)
    BY DEF InferShape, InferOne
  <2> HIDE DEF Table
  <2>2. QED
    BY <1>7, <2>1
<1>9. \A n \in Depths : InferShape[n] = Level(n, InferShape[n - 1])
  BY <1>8
<1> HIDE DEF Table
<1>10. \A n \in 0 .. Top : InferShape[n] \in S[n]
  <2>1. InferShape[0] = b0
    BY <1>9, LevelsAre
  <2>2. InferShape[0] \in S[0] /\ \A n \in 1 .. Top : InferShape[n - 1] \in S[n - 1] => InferShape[n] = G[n][InferShape[n - 1]]
    <3> HIDE DEF S, G, Level, b0
    <3>1. \A n \in 1 .. Top : n \in Levels /\ n \in Depths
      BY LevelsAre DEF Levels
    <3>2. QED
      BY <1>2, <1>3, <1>9, <2>1, <3>1
  <2> HIDE DEF S, G
  <2>3. QED
    BY <1>4, <2>2, LevelsAre, StepsStay
<1>11. \A n \in Depths : InferShape[n] \in Inferences(n)
  BY <1>10, LevelsAre
<1>12. ASSUME NEW n \in Levels, NEW value \in JsonValues[n] PROVE InferShape[n][value] = InferOne(n, InferShape[n - 1], value)
  BY <1>9, LevelsAre
<1>13. QED
  BY <1>11, <1>12

\* One level of what is forgotten, on that of the level below.
ForgottenOne(n, forgotten, value) ==
  LET shapes == Inferred(InferShape[n - 1], value.items)
  IN CASE value.kind = "array" ->
            \E i \in DOMAIN value.items :
              \/ MergeForgets[n - 1][MergedItems(n - 1, shapes)[i - 1]][shapes[i]]
              \/ forgotten[value.items[i]]
       [] value.kind = "object" ->
            \E key \in Keys : value.fields[key] # Absent /\ forgotten[value.fields[key]]
       [] OTHER -> FALSE

\* What is forgotten in a value, from the level below.
LEMMA ForgottenIs ==
  \A n \in Levels : \A value \in JsonValues[n] : Forgotten[n][value] = ForgottenOne(n, Forgotten[n - 1], value)
<1> DEFINE Kinds(n) == [JsonValues[n] -> BOOLEAN]
           Level(n, t) == [value \in JsonValues[n] |-> ForgottenOne(n, t, value)]
           b0 == [value \in JsonValues[0] |-> FALSE]
           S == [n \in 0 .. Top |-> Kinds(n)]
           G == [n \in Levels |-> [t \in Kinds(n - 1) |-> Level(n, t)]]
           Table(f) == f = [n \in Depths |-> [value \in JsonValues[n] |-> ForgottenOne(n, f[n - 1], value)]]
<1>1. \A n \in Levels : \A t \in Kinds(n - 1) : Level(n, t) \in Kinds(n)
  BY DEF ForgottenOne
<1>2. b0 \in S[0] /\ \A n \in Levels : S[n - 1] = Kinds(n - 1) /\ S[n] = Kinds(n)
  BY LevelsAre
<1>3. \A n \in Levels : \A t \in S[n - 1] : G[n][t] \in S[n] /\ G[n][t] = Level(n, t)
  <2> HIDE DEF Level, Kinds, S
  <2>1. QED
    BY <1>1, <1>2
<1>4. \A n \in 1 .. Top : \A t \in S[n - 1] : G[n][t] \in S[n]
  BY <1>3 DEF Levels
<1>5. PICK f : Steps(f, Top, b0, G) /\ \A n \in 0 .. Top : f[n] \in S[n]
  <2> HIDE DEF S, G, b0
  <2>1. QED
    BY <1>2, <1>4, LevelsAre, StepByStep
<1>6. ASSUME NEW n \in Depths
      PROVE  f[n] = [value \in JsonValues[n] |-> ForgottenOne(n, f[n - 1], value)]
  <2>1. CASE n = 0
    <3>1. f[n] = b0
      BY <1>5, <2>1, LevelsAre DEF Steps
    <3>2. QED
      BY <2>1, <3>1, LevelsAre
  <2>2. CASE n # 0
    <3>1. n \in Levels
      BY <2>2, LevelsAre
    <3>2. f[n] = G[n][f[n - 1]] /\ f[n - 1] \in S[n - 1]
      <4> HIDE DEF G, S
      <4>1. QED
        BY <1>5, <2>2, <3>1, LevelsAre DEF Steps
    <3>3. f[n] = Level(n, f[n - 1])
      <4> HIDE DEF G, S, Level
      <4>1. QED
        BY <1>3, <3>1, <3>2
    <3>4. QED
      BY <3>3
  <2>3. QED
    BY <2>1, <2>2
<1>7. Table(f)
  <2>1. f = [n \in 0 .. Top |-> f[n]]
    <3> HIDE DEF G, b0
    <3>1. QED
      BY <1>5 DEF Steps
  <2>2. QED
    BY <1>6, <2>1, LevelsAre
<1>8. Table(Forgotten)
  <2>1. Forgotten = CHOOSE g : Table(g)
    BY DEF Forgotten, ForgottenOne
  <2> HIDE DEF Table
  <2>2. QED
    BY <1>7, <2>1
<1>9. ASSUME NEW n \in Levels, NEW value \in JsonValues[n] PROVE Forgotten[n][value] = ForgottenOne(n, Forgotten[n - 1], value)
  BY <1>8, LevelsAre
<1>10. QED
  BY <1>9

\* A list's shape describes each element, if no merge on the way forgets anything.
LEMMA ItemsDescribe ==
  ASSUME NEW n \in Depths, NEW k \in Levels, NEW shapes \in Seq(Shapes[n]), NEW values \in Seq(JsonValues[k]),
         Len(values) = Len(shapes),
         \A i \in 1 .. Len(shapes) : Describes[k][shapes[i]][values[i]],
         \A i \in 1 .. Len(shapes) : ~MergeForgets[n][MergedItems(n, shapes)[i - 1]][shapes[i]]
  PROVE  \A i \in 1 .. Len(shapes) : Describes[k][MergedItems(n, shapes)[Len(shapes)]][values[i]]
<1> DEFINE D == Len(shapes)
           merged == MergedItems(n, shapes)
           T == {m \in 0 .. D : \A i \in 1 .. m : Describes[k][merged[m]][values[i]]}
<1>1. D \in Nat /\ \A i \in 1 .. D : shapes[i] \in Shapes[n] /\ values[i] \in JsonValues[k]
  BY LenProperties, ElementOfSeq
<1>2. /\ \A i \in 1 .. D : merged[i] = MergeShapes[n][merged[i - 1]][shapes[i]]
      /\ \A i \in 0 .. D : merged[i] \in Shapes[n]
  BY MergedItemsAre
<1> HIDE DEF merged
<1>3. 0 \in T
  BY <1>1
<1>4. ASSUME NEW m \in 1 .. D, m - 1 \in T PROVE m \in T
  <2>1. m - 1 \in 0 .. D /\ m \in 0 .. D /\ \A i \in 1 .. m : i \in 1 .. m - 1 \/ i = m
    BY <1>1
  <2>2. ~MergeForgets[n][merged[m - 1]][shapes[m]]
    BY DEF merged
  <2>3. \A v \in JsonValues[k] : Describes[k][merged[m - 1]][v] \/ Describes[k][shapes[m]][v] => Describes[k][merged[m]][v]
    <3>1. merged[m - 1] \in Shapes[n] /\ shapes[m] \in Shapes[n] /\ merged[m] = MergeShapes[n][merged[m - 1]][shapes[m]]
      BY <1>1, <1>2, <2>1
    <3>2. \A v \in JsonValues[k] : Describes[k][merged[m - 1]][v] \/ Describes[k][shapes[m]][v]
            => Describes[k][MergeShapes[n][merged[m - 1]][shapes[m]]][v]
      BY <2>2, <3>1, MergeDescribes
    <3>3. QED
      BY <3>1, <3>2
  <2>4. ASSUME NEW i \in 1 .. m PROVE Describes[k][merged[m]][values[i]]
    <3>1. i \in 1 .. D
      BY <1>1
    <3>2. CASE i = m
      BY <1>1, <2>3, <3>1, <3>2
    <3>3. CASE i \in 1 .. m - 1
      <4>1. Describes[k][merged[m - 1]][values[i]]
        BY <1>4, <3>3
      <4>2. QED
        BY <1>1, <2>3, <3>1, <4>1
    <3>4. QED
      BY <2>1, <3>2, <3>3
  <2>5. QED
    BY <2>1, <2>4
<1>5. \A m \in 0 .. D : m \in T
  <2> HIDE DEF T, D
  <2>1. QED
    BY <1>1, <1>3, <1>4, UpTo
<1>6. D \in 0 .. D
  BY <1>1
<1>7. QED
  BY <1>5, <1>6 DEF merged

\* The shape inferred from a value describes it, if nothing of it is forgotten.
LEMMA InferenceDescribes ==
  \A n \in Depths : \A v \in JsonValues[n] : ~Forgotten[n][v] => \A k \in n .. Top : Describes[k][InferShape[n][v]][v]
<1> DEFINE Sound(n) == \A v \in JsonValues[n] : ~Forgotten[n][v] => \A k \in n .. Top : Describes[k][InferShape[n][v]][v]
           T == {n \in 0 .. Top : Sound(n)}
<1>1. 0 \in T
  BY LevelsAre
<1>2. ASSUME NEW n \in Levels, n - 1 \in T PROVE n \in T
  <2>1. SUFFICES ASSUME NEW v \in JsonValues[n], ~Forgotten[n][v], NEW k \in n .. Top
                 PROVE  Describes[k][InferShape[n][v]][v]
    BY LevelsAre
  <2> DEFINE s == InferShape[n][v]
             infer == InferShape[n - 1]
  <2>2. k \in Levels /\ k - 1 \in n - 1 .. Top /\ n - 1 \in 0 .. k - 1 /\ k - 1 \in Depths
    BY LevelsAre DEF Levels
  <2>3. infer \in Inferences(n - 1) /\ s = InferOne(n, infer, v) /\ s \in Shapes[n] /\ s \in Shapes[Top]
    <3>1. InferShape[n - 1] \in Inferences(n - 1) /\ InferShape[n] \in Inferences(n)
      BY InferencesAre, LevelsAre
    <3>2. InferShape[n][v] \in Shapes[n]
      BY <3>1 DEF Inferences
    <3>3. QED
      BY <3>1, <3>2, InferencesAre, ShapesWithin, LevelsAre
  <2> HIDE DEF s, infer
  <2>4. v \in JsonValues[k] /\ JsonValues[n - 1] \subseteq JsonValues[k - 1]
    <3>1. n \in 0 .. k
      BY LevelsAre DEF Levels
    <3>2. QED
      BY <2>2, <3>1, LevelsAre, JsonGrow
  <2>5. ~ForgottenOne(n, Forgotten[n - 1], v)
    BY <2>1, ForgottenIs
  <2>6. \A w \in JsonValues[n - 1] : ~Forgotten[n - 1][w] => Describes[k - 1][infer[w]][w]
    BY <1>2, <2>2 DEF infer
  <2>7. s.kind # "union" /\ IsOf(Describes[k - 1], {}, s, v)
    <3>1. CASE v.kind = "array"
      <4> DEFINE shapes == Inferred(infer, v.items)
                 merged == MergedItems(n - 1, shapes)
      <4>1. v.items \in Seq(JsonValues[n - 1]) /\ n - 1 \in Depths
        BY <3>1, ValueIs, LevelsAre
      <4>2. /\ shapes \in Seq(Shapes[n - 1]) /\ Len(shapes) = Len(v.items)
            /\ \A i \in 1 .. Len(v.items) : shapes[i] = infer[v.items[i]]
        BY <2>3, <4>1, InferredAre
      <4>3. \A i \in 1 .. Len(v.items) : v.items[i] \in JsonValues[n - 1] /\ v.items[i] \in JsonValues[k - 1]
        BY <2>4, <4>1
      <4>4. s = List(merged[Len(shapes)])
        BY <2>3, <3>1, <4>2 DEF InferOne
      <4>5. \A i \in DOMAIN v.items : ~MergeForgets[n - 1][merged[i - 1]][shapes[i]] /\ ~Forgotten[n - 1][v.items[i]]
        BY <2>5, <3>1 DEF ForgottenOne, infer
      <4>6. DOMAIN v.items = 1 .. Len(v.items) /\ v.items \in Seq(JsonValues[k - 1])
        BY <2>4, <4>1, SeqMonotonic
      <4> HIDE DEF shapes, merged
      <4>7. \A i \in 1 .. Len(v.items) : Describes[k - 1][shapes[i]][v.items[i]]
        BY <2>6, <4>2, <4>3, <4>5, <4>6
      <4>8. \A i \in DOMAIN v.items : Describes[k - 1][merged[Len(shapes)]][v.items[i]]
        <5>1. CASE k - 1 = 0
          <6>1. \A i \in 1 .. Len(v.items) : FALSE
            BY <4>3, <5>1, LevelsAre
          <6>2. QED
            BY <4>6, <6>1
        <5>2. CASE k - 1 # 0
          <6>1. k - 1 \in Levels
            BY <2>2, <5>2, LevelsAre
          <6>2. \A i \in 1 .. Len(shapes) : ~MergeForgets[n - 1][MergedItems(n - 1, shapes)[i - 1]][shapes[i]]
            BY <4>2, <4>5, <4>6 DEF merged
          <6>3. \A i \in 1 .. Len(shapes) : Describes[k - 1][shapes[i]][v.items[i]]
            BY <4>2, <4>7
          <6>4. \A i \in 1 .. Len(shapes) : Describes[k - 1][MergedItems(n - 1, shapes)[Len(shapes)]][v.items[i]]
            BY <4>1, <4>2, <4>6, <6>1, <6>2, <6>3, ItemsDescribe
          <6>5. QED
            BY <4>2, <4>6, <6>4 DEF merged
        <5>3. QED
          BY <5>1, <5>2
      <4>9. QED
        BY <3>1, <4>4, <4>8 DEF IsOf, List
    <3>2. CASE v.kind = "object"
      <4> DEFINE F == [key \in Keys |-> IF v.fields[key] = Absent THEN Field(Absent, FALSE)
                                        ELSE Field(infer[v.fields[key]], TRUE)]
      <4>1. v.fields \in [Keys -> JsonValues[n - 1] \cup {Absent}]
        BY <3>2, ValueIs, LevelsAre
      <4>2. s = [kind |-> "object", fields |-> F]
        BY <2>3, <3>2 DEF InferOne
      <4>3. \A key \in Keys : v.fields[key] # Absent => ~Forgotten[n - 1][v.fields[key]]
        BY <2>5, <3>2 DEF ForgottenOne
      <4>4. ASSUME NEW key \in Keys
            PROVE  IF v.fields[key] = Absent THEN ~F[key].required
                   ELSE HasField(F, key) /\ Describes[k - 1][F[key].shape][v.fields[key]]
        <5>1. CASE v.fields[key] = Absent
          BY <5>1 DEF Field
        <5>2. CASE v.fields[key] # Absent
          <6>1. F[key].shape = infer[v.fields[key]] /\ v.fields[key] \in JsonValues[n - 1]
            BY <4>1, <5>2 DEF Field
          <6>2. infer[v.fields[key]] \in Shapes[n - 1] /\ infer[v.fields[key]] # Absent
            BY <2>3, <6>1, LevelsAre, ShapesGrow DEF Inferences
          <6>3. Describes[k - 1][infer[v.fields[key]]][v.fields[key]]
            BY <2>6, <4>3, <5>2, <6>1
          <6> HIDE DEF F
          <6>4. QED
            BY <5>2, <6>1, <6>2, <6>3 DEF HasField
        <5>3. QED
          BY <5>1, <5>2
      <4> HIDE DEF F
      <4>5. Fits(Describes[k - 1], F, v.fields)
        BY <4>4 DEF Fits
      <4>6. QED
        BY <3>2, <4>2, <4>5 DEF IsOf
    <3>3. CASE v.kind \notin {"array", "object"}
      <4>1. s = v /\ v.kind \in LeafKinds
        BY <2>3, <3>3, ValueIs, LevelsAre DEF InferOne
      <4>2. QED
        BY <4>1 DEF IsOf, LeafKinds
    <3>4. QED
      BY <3>1, <3>2, <3>3
  <2>8. QED
    BY <2>2, <2>3, <2>4, <2>7, PlainDescribes DEF s
<1>3. \A n \in 0 .. Top : n \in T
  <2>1. \A n \in 1 .. Top : n - 1 \in T => n \in T
    BY <1>2 DEF Levels
  <2> HIDE DEF T
  <2>2. QED
    BY <1>1, <2>1, LevelsAre, UpTo
<1>4. QED
  BY <1>3, LevelsAre

\* What is kept of the first n of some options: those that are not null.
Kept(P, all, n, kept) ==
  /\ kept \in Seq(P)
  /\ \A j \in 1 .. Len(kept) : kept[j].kind # "null" /\ \E i \in 1 .. n : all[i] = kept[j]
  /\ \A i \in 1 .. n : all[i].kind # "null" => \E j \in 1 .. Len(kept) : kept[j] = all[i]
  /\ Len(kept) > 1 <=> \E i, j \in 1 .. n : i # j /\ all[i].kind # "null" /\ all[j].kind # "null"

\* One option more is kept, unless it is null.
LEMMA KeepsOneMore ==
  ASSUME NEW P, NEW all \in Seq(P), NEW n \in 1 .. Len(all), NEW kept, Kept(P, all, n - 1, kept)
  PROVE  Kept(P, all, n, IF all[n].kind = "null" THEN kept ELSE Append(kept, all[n]))
<1>1. Len(all) \in Nat /\ n \in Nat /\ kept \in Seq(P) /\ Len(kept) \in Nat /\ all[n] \in P
  BY LenProperties, ElementOfSeq DEF Kept
<1>2. \A i : i \in 1 .. n <=> i \in 1 .. n - 1 \/ i = n
  BY <1>1
<1>3. n \notin 1 .. n - 1
  BY <1>1
<1>4. CASE all[n].kind = "null"
  BY <1>2, <1>4 DEF Kept
<1>5. CASE all[n].kind # "null"
  <2> DEFINE more == Append(kept, all[n])
  <2>1. /\ more \in Seq(P) /\ Len(more) = Len(kept) + 1 /\ more[Len(kept) + 1] = all[n]
        /\ \A j \in 1 .. Len(kept) : more[j] = kept[j]
    BY <1>1, AppendProperties
  <2>2. \A j : j \in 1 .. Len(more) <=> j \in 1 .. Len(kept) \/ j = Len(kept) + 1
    BY <1>1, <2>1
  <2> HIDE DEF more
  <2>3. \A j \in 1 .. Len(more) : more[j].kind # "null" /\ \E i \in 1 .. n : all[i] = more[j]
    <3>1. ASSUME NEW j \in 1 .. Len(kept) PROVE more[j].kind # "null" /\ \E i \in 1 .. n : all[i] = more[j]
      <4>1. more[j] = kept[j] /\ kept[j].kind # "null" /\ \E i \in 1 .. n - 1 : all[i] = kept[j]
        BY <2>1 DEF Kept
      <4>2. PICK i \in 1 .. n - 1 : all[i] = kept[j]
        BY <4>1
      <4>3. i \in 1 .. n
        BY <1>2
      <4>4. QED
        BY <4>1, <4>2, <4>3
    <3>2. more[Len(kept) + 1].kind # "null" /\ all[n] = more[Len(kept) + 1] /\ n \in 1 .. n
      BY <1>1, <1>5, <2>1
    <3>3. QED
      BY <2>2, <3>1, <3>2
  <2>4. \A i \in 1 .. n : all[i].kind # "null" => \E j \in 1 .. Len(more) : more[j] = all[i]
    <3>1. ASSUME NEW i \in 1 .. n - 1, all[i].kind # "null" PROVE \E j \in 1 .. Len(more) : more[j] = all[i]
      <4>1. PICK j \in 1 .. Len(kept) : kept[j] = all[i]
        BY <3>1 DEF Kept
      <4>2. j \in 1 .. Len(more) /\ more[j] = all[i]
        BY <2>1, <2>2, <4>1
      <4>3. QED
        BY <4>2
    <3>2. \E j \in 1 .. Len(more) : more[j] = all[n]
      BY <2>1, <2>2
    <3>3. QED
      BY <1>2, <3>1, <3>2
  <2>5. Len(more) > 1 <=> Len(kept) > 0
    BY <1>1, <2>1
  <2>6. Len(kept) > 0 <=> \E i \in 1 .. n - 1 : all[i].kind # "null"
    <3>1. ASSUME Len(kept) > 0 PROVE \E i \in 1 .. n - 1 : all[i].kind # "null"
      <4>1. 1 \in 1 .. Len(kept)
        BY <1>1, <3>1
      <4>2. PICK i \in 1 .. n - 1 : all[i] = kept[1]
        BY <4>1 DEF Kept
      <4>3. QED
        BY <4>1, <4>2 DEF Kept
    <3>2. ASSUME NEW i \in 1 .. n - 1, all[i].kind # "null" PROVE Len(kept) > 0
      <4>1. PICK j \in 1 .. Len(kept) : kept[j] = all[i]
        BY <3>2 DEF Kept
      <4>2. QED
        BY <1>1, <4>1
    <3>3. QED
      BY <3>1, <3>2
  <2>7. (\E i \in 1 .. n - 1 : all[i].kind # "null")
          <=> \E i, j \in 1 .. n : i # j /\ all[i].kind # "null" /\ all[j].kind # "null"
    BY <1>2, <1>3, <1>5
  <2>8. QED
    BY <1>5, <2>1, <2>3, <2>4, <2>5, <2>6, <2>7 DEF Kept, more
<1>6. QED
  BY <1>4, <1>5

\* What NonNull is made of.
LEMMA NonNullKeeps ==
  ASSUME NEW n \in Depths, NEW shape \in Shapes[n]
  PROVE  \E kept : /\ Kept(Plain(Below(n)), FlattenUnion(shape), Len(FlattenUnion(shape)), kept)
                   /\ NonNull(shape) = CASE Len(kept) = 0 -> Unknown [] Len(kept) = 1 -> kept[1] [] OTHER -> Union(kept)
<1> DEFINE P == Plain(Below(n))
           all == FlattenUnion(shape)
           D == Len(all)
           Add(kept, i) == IF all[i].kind = "null" THEN kept ELSE Append(kept, all[i])
           S == [i \in 0 .. D |-> {kept \in Seq(P) : Kept(P, all, i, kept)}]
           G == [i \in 1 .. D |-> [kept \in Seq(P) |-> Add(kept, i)]]
           Table(f) == f = [i \in 0 .. D |-> IF i = 0 THEN <<>>
                                             ELSE IF all[i].kind = "null" THEN f[i - 1] ELSE Append(f[i - 1], all[i])]
<1>1. all \in Seq(P) /\ D \in Nat
  BY Options, LenProperties
<1>2. \A i \in 1 .. D : i \in 0 .. D /\ i - 1 \in 0 .. D /\ i # 0
  BY <1>1
<1>3. <<>> \in S[0]
  <2>1. <<>> \in Seq(P) /\ Len(<<>>) = 0 /\ 0 \in 0 .. D
    BY <1>1
  <2>2. Kept(P, all, 0, <<>>)
    <3> HIDE DEF P, all
    <3>1. QED
      BY <2>1 DEF Kept
  <2> HIDE DEF P, all
  <2>3. QED
    BY <2>1, <2>2
<1> HIDE DEF P, all
<1>4. ASSUME NEW i \in 1 .. D, NEW kept \in S[i - 1] PROVE G[i][kept] \in S[i] /\ G[i][kept] = Add(kept, i)
  <2>1. kept \in Seq(P) /\ Kept(P, all, i - 1, kept)
    BY <1>2
  <2>2. Kept(P, all, i, Add(kept, i)) /\ i \in 1 .. Len(all)
    BY <1>1, <2>1, KeepsOneMore
  <2>3. Add(kept, i) \in Seq(P)
    BY <2>2 DEF Kept
  <2> HIDE DEF Add, D
  <2>4. QED
    BY <1>2, <2>1, <2>2, <2>3
<1>5. D \in Nat /\ \A i \in 1 .. D : \A kept \in S[i - 1] : G[i][kept] \in S[i]
  BY <1>1, <1>4
<1>6. PICK f : Steps(f, D, <<>>, G) /\ \A i \in 0 .. D : f[i] \in S[i]
  <2> HIDE DEF S, G, D
  <2>1. QED
    BY <1>3, <1>5, StepByStep
<1>7. Table(f)
  <2>1. \A i \in 0 .. D : i # 0 => i \in 1 .. D /\ i - 1 \in 0 .. D
    BY <1>1
  <2>2. \A i \in 1 .. D : f[i] = Add(f[i - 1], i)
    <3> HIDE DEF S, G, D, Add
    <3>1. QED
      BY <1>2, <1>4, <1>6 DEF Steps
  <2>3. f[0] = <<>> /\ f = [i \in 0 .. D |-> f[i]]
    <3> HIDE DEF S, G, D
    <3>1. 0 \in 0 .. D
      BY <1>1
    <3>2. QED
      BY <1>6, <3>1 DEF Steps
  <2> HIDE DEF S, G, D
  <2>4. QED
    BY <2>1, <2>2, <2>3
<1> DEFINE filtered == CHOOSE g : Table(g)
<1>8. Table(filtered)
  <2> HIDE DEF Table
  <2>1. QED
    BY <1>7
<1>9. NonNull(shape) = CASE Len(filtered[D]) = 0 -> Unknown [] Len(filtered[D]) = 1 -> filtered[D][1] [] OTHER -> Union(filtered[D])
  BY DEF NonNull, all
<1> HIDE DEF filtered
<1>10. filtered[0] = <<>> /\ \A i \in 1 .. D : filtered[i] = Add(filtered[i - 1], i)
  <2>1. 0 \in 0 .. D
    BY <1>1
  <2> HIDE DEF D
  <2>2. QED
    BY <1>2, <1>8, <2>1
<1>11. \A i \in 0 .. D : filtered[i] \in S[i]
  <2>1. filtered[0] \in S[0] /\ \A i \in 1 .. D : filtered[i - 1] \in S[i - 1] => filtered[i] = G[i][filtered[i - 1]]
    <3> HIDE DEF S, G, D, Table, Add
    <3>1. QED
      BY <1>3, <1>4, <1>10
  <2> HIDE DEF S, G, D
  <2>2. QED
    BY <1>5, <2>1, StepsStay
<1>12. Kept(P, all, D, filtered[D])
  BY <1>1, <1>11
<1> HIDE DEF D
<1>13. QED
  BY <1>9, <1>12 DEF D, P, all

\* What a shape is but for null: a union when it has two options more; else the one
\* option, or unknown.
LEMMA NonNullIs ==
  ASSUME NEW n \in Depths, NEW shape \in Shapes[n]
  PROVE  /\ NonNull(shape).kind = "union" <=>
              \E i, j \in DOMAIN FlattenUnion(shape) :
                i # j /\ FlattenUnion(shape)[i].kind # "null" /\ FlattenUnion(shape)[j].kind # "null"
         /\ NonNull(shape).kind = "union" =>
              /\ NonNull(shape).options \in Seq(Plain(Below(n)))
              /\ \A i \in DOMAIN FlattenUnion(shape) : FlattenUnion(shape)[i].kind # "null" =>
                   \E j \in DOMAIN NonNull(shape).options : NonNull(shape).options[j] = FlattenUnion(shape)[i]
              /\ \A j \in DOMAIN NonNull(shape).options :
                   \E i \in DOMAIN FlattenUnion(shape) : NonNull(shape).options[j] = FlattenUnion(shape)[i]
         /\ NonNull(shape).kind # "union" =>
              /\ NonNull(shape) = Unknown \/ \E i \in DOMAIN FlattenUnion(shape) : NonNull(shape) = FlattenUnion(shape)[i]
              /\ NonNull(shape) \in Plain(Below(n))
              /\ \A i \in DOMAIN FlattenUnion(shape) : FlattenUnion(shape)[i].kind # "null" =>
                   NonNull(shape) = FlattenUnion(shape)[i]
<1> DEFINE P == Plain(Below(n))
           all == FlattenUnion(shape)
<1>1. PICK kept : /\ Kept(P, all, Len(all), kept)
                  /\ NonNull(shape) = CASE Len(kept) = 0 -> Unknown [] Len(kept) = 1 -> kept[1] [] OTHER -> Union(kept)
  BY NonNullKeeps
<1>2. all \in Seq(P) /\ DOMAIN all = 1 .. Len(all) /\ kept \in Seq(P) /\ DOMAIN kept = 1 .. Len(kept) /\ Len(kept) \in Nat
  BY <1>1, Options, LenProperties DEF Kept
<1>3. Unknown \in P /\ \A s \in P : s.kind # "union"
  BY PlainHas, PlainIs DEF LeafKinds
<1> DEFINE nn == NonNull(shape)
<1> HIDE DEF P, all, nn
<1>4. CASE Len(kept) = 0
  <2>1. nn = Unknown /\ ~(Len(kept) > 1) /\ ~\E j \in 1 .. Len(kept) : TRUE
    BY <1>1, <1>4 DEF nn
  <2>2. \A i \in 1 .. Len(all) : all[i].kind = "null"
    BY <1>1, <2>1 DEF Kept
  <2>3. QED
    BY <1>2, <1>3, <2>1, <2>2 DEF nn, all, P
<1>5. CASE Len(kept) = 1
  <2>1. nn = kept[1] /\ ~(Len(kept) > 1) /\ 1 \in 1 .. Len(kept) /\ \A j \in 1 .. Len(kept) : j = 1
    BY <1>1, <1>5 DEF nn
  <2>2. nn \in P
    BY <1>2, <2>1, ElementOfSeq
  <2>3. nn.kind # "union" /\ \E i \in 1 .. Len(all) : nn = all[i]
    BY <1>1, <1>3, <2>1, <2>2 DEF Kept
  <2>4. \A i \in 1 .. Len(all) : all[i].kind # "null" => nn = all[i]
    BY <1>1, <2>1 DEF Kept
  <2>5. ~\E i, j \in 1 .. Len(all) : i # j /\ all[i].kind # "null" /\ all[j].kind # "null"
    BY <1>1, <2>1 DEF Kept
  <2>6. QED
    BY <1>2, <2>2, <2>3, <2>4, <2>5 DEF nn, all, P
<1>6. CASE Len(kept) > 1
  <2>1. nn = Union(kept)
    BY <1>1, <1>2, <1>6 DEF nn
  <2>2. nn.kind = "union" /\ nn.options = kept
    BY <2>1 DEF Union
  <2>3. \E i, j \in 1 .. Len(all) : i # j /\ all[i].kind # "null" /\ all[j].kind # "null"
    BY <1>1, <1>6 DEF Kept
  <2>4. \A i \in 1 .. Len(all) : all[i].kind # "null" => \E j \in 1 .. Len(kept) : kept[j] = all[i]
    BY <1>1 DEF Kept
  <2>5. \A j \in 1 .. Len(kept) : \E i \in 1 .. Len(all) : kept[j] = all[i]
    BY <1>1 DEF Kept
  <2>6. /\ \A i \in DOMAIN all : all[i].kind # "null" => \E j \in DOMAIN nn.options : nn.options[j] = all[i]
        /\ \A j \in DOMAIN nn.options : \E i \in DOMAIN all : nn.options[j] = all[i]
    BY <1>2, <2>2, <2>4, <2>5
  <2>7. (nn.kind = "union" <=> \E i, j \in DOMAIN all : i # j /\ all[i].kind # "null" /\ all[j].kind # "null")
    BY <1>2, <2>2, <2>3
  <2>8. nn.options \in Seq(P)
    BY <1>2, <2>2
  <2>9. QED
    BY <2>2, <2>6, <2>7, <2>8 DEF nn, all, P
<1>7. QED
  BY <1>2, <1>4, <1>5, <1>6

\* Whether a type has an option that is unknown, or that a value is of.
Reads(accepts, types, type, value) ==
  \E i \in DOMAIN FlattenUnion(type) :
    FlattenUnion(type)[i].kind = "unknown" \/ IsOf(accepts, types, FlattenUnion(type)[i], value)

\* f tells what the types read, each level from the one below.
AcceptsTable(f, types) ==
  \A n \in Levels : \A type \in Shapes[Top], v \in JsonValues[n] :
    f[n][type][v] <=> Reads(f[n - 1], types, type, v)

\* What the declarations read: a value that is of one of a type's options.
LEMMA AcceptsAre ==
  ASSUME NEW types
  PROVE  \E f : AcceptsTable(f, types) /\ Accepts(types) = f[Top]
<1> DEFINE Has(d, type, value) ==
             \E i \in DOMAIN FlattenUnion(type) :
               LET option == FlattenUnion(type)[i]
               IN option.kind = "unknown" \/ IsOf(d, types, option, value)
           Kinds(n) == [Shapes[Top] -> [JsonValues[n] -> BOOLEAN]]
           Level(n, d) == [type \in Shapes[Top] |-> [value \in JsonValues[n] |-> Has(d, type, value)]]
           b0 == [type \in Shapes[Top] |-> [value \in JsonValues[0] |-> FALSE]]
           S == [n \in 0 .. Top |-> Kinds(n)]
           G == [n \in Levels |-> [d \in Kinds(n - 1) |-> Level(n, d)]]
           Table(f) == f = [n \in Depths |-> [type \in Shapes[Top] |-> [value \in JsonValues[n] |-> Has(f[n - 1], type, value)]]]
<1>1. \A n \in Levels : \A d \in Kinds(n - 1) : Level(n, d) \in Kinds(n)
  OBVIOUS
<1>2. b0 \in S[0] /\ \A n \in Levels : S[n - 1] = Kinds(n - 1) /\ S[n] = Kinds(n)
  BY LevelsAre
<1>3. \A n \in Levels : \A d \in S[n - 1] : G[n][d] \in S[n] /\ G[n][d] = Level(n, d)
  <2> HIDE DEF Level, Kinds, S
  <2>1. QED
    BY <1>1, <1>2
<1>4. \A n \in 1 .. Top : \A d \in S[n - 1] : G[n][d] \in S[n]
  BY <1>3 DEF Levels
<1>5. PICK f : Steps(f, Top, b0, G) /\ \A n \in 0 .. Top : f[n] \in S[n]
  <2> HIDE DEF S, G, b0
  <2>1. QED
    BY <1>2, <1>4, LevelsAre, StepByStep
<1>6. ASSUME NEW n \in Depths
      PROVE  f[n] = [type \in Shapes[Top] |-> [value \in JsonValues[n] |-> Has(f[n - 1], type, value)]]
  <2>1. CASE n = 0
    <3>1. f[n] = b0
      BY <1>5, <2>1, LevelsAre DEF Steps
    <3> HIDE DEF Has
    <3>2. QED
      BY <2>1, <3>1, LevelsAre
  <2>2. CASE n # 0
    <3>1. n \in Levels
      BY <2>2, LevelsAre
    <3>2. f[n] = G[n][f[n - 1]] /\ f[n - 1] \in S[n - 1]
      <4> HIDE DEF G, S
      <4>1. QED
        BY <1>5, <2>2, <3>1, LevelsAre DEF Steps
    <3>3. f[n] = Level(n, f[n - 1])
      <4> HIDE DEF G, S, Level
      <4>1. QED
        BY <1>3, <3>1, <3>2
    <3>4. QED
      BY <3>3
  <2>3. QED
    BY <2>1, <2>2
<1>7. Table(f)
  <2>1. f = [n \in 0 .. Top |-> f[n]]
    <3> HIDE DEF G, b0
    <3>1. QED
      BY <1>5 DEF Steps
  <2> HIDE DEF Has
  <2>2. QED
    BY <1>6, <2>1, LevelsAre
<1> DEFINE accepts == CHOOSE g : Table(g)
<1>8. Table(accepts)
  <2> HIDE DEF Table
  <2>1. QED
    BY <1>7
<1>9. Accepts(types) = accepts[Top]
  BY DEF Accepts
<1> HIDE DEF accepts
<1>10. ASSUME NEW n \in Levels, NEW type \in Shapes[Top], NEW v \in JsonValues[n]
       PROVE  accepts[n][type][v] <=> Reads(accepts[n - 1], types, type, v)
  <2>1. accepts[n] = [t \in Shapes[Top] |-> [w \in JsonValues[n] |-> Has(accepts[n - 1], t, w)]]
    <3> HIDE DEF Has
    <3>1. QED
      BY <1>8, LevelsAre
  <2>2. accepts[n][type][v] = Has(accepts[n - 1], type, v)
    <3> HIDE DEF Has
    <3>1. QED
      BY <2>1
  <2>3. QED
    BY <2>2 DEF Reads
<1>11. AcceptsTable(accepts, types)
  BY <1>10 DEF AcceptsTable
<1>12. QED
  BY <1>9, <1>11

\* One level of where a list of a union is, on that of the level below.
ListsOne(lists, shape) ==
  \E i \in DOMAIN FlattenUnion(shape) :
    LET option == FlattenUnion(shape)[i]
    IN CASE option.kind = "array" ->
              \/ NonNull(option.items).kind = "union" /\ ~IsNullable(option.items)
              \/ lists[option.items]
         [] option.kind = "object" ->
              \E key \in Keys : HasField(option.fields, key) /\ lists[option.fields[key].shape]
         [] OTHER -> FALSE

\* Whether a shape lists a union, from the level below.
LEMMA ListsAre ==
  \A n \in Levels : \A shape \in Shapes[n] : ListsAUnion[n][shape] = ListsOne(ListsAUnion[n - 1], shape)
<1> DEFINE Kinds(n) == [Shapes[n] -> BOOLEAN]
           Level(n, d) == [shape \in Shapes[n] |-> ListsOne(d, shape)]
           b0 == [shape \in Shapes[0] |-> FALSE]
           S == [n \in 0 .. Top |-> Kinds(n)]
           G == [n \in Levels |-> [d \in Kinds(n - 1) |-> Level(n, d)]]
           Table(f) == f = [n \in Depths |-> [shape \in Shapes[n] |-> ListsOne(f[n - 1], shape)]]
<1>1. \A n \in Levels : \A d \in Kinds(n - 1) : Level(n, d) \in Kinds(n)
  BY DEF ListsOne
<1>2. b0 \in S[0] /\ \A n \in Levels : S[n - 1] = Kinds(n - 1) /\ S[n] = Kinds(n)
  BY LevelsAre
<1>3. \A n \in Levels : \A d \in S[n - 1] : G[n][d] \in S[n] /\ G[n][d] = Level(n, d)
  <2> HIDE DEF Level, Kinds, S
  <2>1. QED
    BY <1>1, <1>2
<1>4. \A n \in 1 .. Top : \A d \in S[n - 1] : G[n][d] \in S[n]
  BY <1>3 DEF Levels
<1>5. PICK f : Steps(f, Top, b0, G) /\ \A n \in 0 .. Top : f[n] \in S[n]
  <2> HIDE DEF S, G, b0
  <2>1. QED
    BY <1>2, <1>4, LevelsAre, StepByStep
<1>6. ASSUME NEW n \in Depths
      PROVE  f[n] = [shape \in Shapes[n] |-> ListsOne(f[n - 1], shape)]
  <2>1. CASE n = 0
    <3>1. f[n] = b0
      BY <1>5, <2>1, LevelsAre DEF Steps
    <3>2. ASSUME NEW shape \in Shapes[n] PROVE ListsOne(f[n - 1], shape) = FALSE
      <4>1. shape.kind = "unknown"
        BY <2>1, ShapesAre DEF Unknown, Kind
      <4>2. FlattenUnion(shape) = <<shape>>
        BY <4>1 DEF FlattenUnion
      <4>3. QED
        BY <4>1, <4>2 DEF ListsOne
    <3>3. QED
      BY <2>1, <3>1, <3>2
  <2>2. CASE n # 0
    <3>1. n \in Levels
      BY <2>2, LevelsAre
    <3>2. f[n] = G[n][f[n - 1]] /\ f[n - 1] \in S[n - 1]
      <4> HIDE DEF G, S
      <4>1. QED
        BY <1>5, <2>2, <3>1, LevelsAre DEF Steps
    <3>3. f[n] = Level(n, f[n - 1])
      <4> HIDE DEF G, S, Level
      <4>1. QED
        BY <1>3, <3>1, <3>2
    <3>4. QED
      BY <3>3
  <2>3. QED
    BY <2>1, <2>2
<1>7. Table(f)
  <2>1. f = [n \in 0 .. Top |-> f[n]]
    <3> HIDE DEF G, b0
    <3>1. QED
      BY <1>5 DEF Steps
  <2>2. QED
    BY <1>6, <2>1, LevelsAre
<1>8. Table(ListsAUnion)
  <2>1. ListsAUnion = CHOOSE g : Table(g)
    BY DEF ListsAUnion, ListsOne
  <2> HIDE DEF Table
  <2>2. QED
    BY <1>7, <2>1
<1>9. ASSUME NEW n \in Levels, NEW shape \in Shapes[n] PROVE ListsAUnion[n][shape] = ListsOne(ListsAUnion[n - 1], shape)
  BY <1>8, LevelsAre
<1>10. QED
  BY <1>9

-------------------------------------------------------------------------------
(* Rendering *)

\* One level of renderBase, on that of the level below.
BaseOne(n, base, lang) ==
  [shape \in Shapes[n] |-> IF n = 0 THEN Unknown ELSE RenderTarget(base, lang, NonNull(shape))]

\* f is what renderBase returns, for the shapes of each level up to d.
BaseTable(f, lang, d) == f = [n \in 0 .. d |-> BaseOne(n, f[n - 1], lang)]

\* The lowest level is rendered without another.
LEMMA BaseAtZero ==
  \A lang, f, g : BaseOne(0, f, lang) = BaseOne(0, g, lang)
BY DEF BaseOne

\* The levels of renderBase exist.
LEMMA BaseExists ==
  ASSUME NEW lang
  PROVE  \E f : BaseTable(f, lang, Top)
<1> DEFINE T == {d \in Depths : \E f : BaseTable(f, lang, d)}
<1>1. Top \in Nat /\ Depths = 0 .. Top
  BY DepthsAre
<1>2. 0 \in T
  <2> DEFINE g == [n \in 0 .. 0 |-> BaseOne(0, {}, lang)]
  <2>1. \A n \in 0 .. 0 : n = 0
    OBVIOUS
  <2>2. BaseTable(g, lang, 0)
    <3>1. \A n \in 0 .. 0 : g[n] = BaseOne(n, g[n - 1], lang)
      BY <2>1, BaseAtZero
    <3>2. g = [n \in 0 .. 0 |-> g[n]]
      OBVIOUS
    <3> HIDE DEF g
    <3>3. QED
      BY <3>1, <3>2 DEF BaseTable
  <2>3. \E f : BaseTable(f, lang, 0)
    <3> HIDE DEF g
    <3>1. QED
      BY <2>2
  <2>4. QED
    BY <1>1, <2>3
<1>3. ASSUME NEW d \in 1 .. Top, d - 1 \in T PROVE d \in T
  <2>1. PICK f : BaseTable(f, lang, d - 1)
    BY <1>3
  <2>2. d \in Nat /\ d \in Depths /\ \A n \in 0 .. d : n # d => n \in 0 .. d - 1
    BY <1>1
  <2> DEFINE g == [n \in 0 .. d |-> IF n = d THEN BaseOne(d, f[d - 1], lang) ELSE f[n]]
  <2>3. ASSUME NEW n \in 0 .. d PROVE g[n] = BaseOne(n, g[n - 1], lang)
    <3>1. CASE n = d
      <4>1. d - 1 \in 0 .. d /\ d - 1 # d
        BY <2>2
      <4>2. g[d - 1] = f[d - 1] /\ g[d] = BaseOne(d, f[d - 1], lang)
        BY <4>1
      <4> HIDE DEF g
      <4>3. QED
        BY <3>1, <4>1, <4>2
    <3>2. CASE n # d
      <4>1. n \in 0 .. d - 1 /\ (n # 0 => n - 1 \in 0 .. d /\ n - 1 # d)
        BY <2>2, <3>2
      <4>2. g[n] = f[n] /\ (n # 0 => g[n - 1] = f[n - 1])
        BY <3>2, <4>1
      <4>3. f[n] = BaseOne(n, f[n - 1], lang)
        BY <2>1, <4>1 DEF BaseTable
      <4> HIDE DEF g
      <4>4. CASE n = 0
        <5>1. BaseOne(0, f[n - 1], lang) = BaseOne(0, g[n - 1], lang)
          BY BaseAtZero
        <5>2. QED
          BY <4>2, <4>3, <4>4, <5>1
      <4>5. QED
        BY <4>2, <4>3, <4>4
    <3>3. QED
      BY <3>1, <3>2
  <2>4. DOMAIN g = 0 .. d /\ g = [n \in 0 .. d |-> g[n]]
    OBVIOUS
  <2>5. BaseTable(g, lang, d)
    <3> HIDE DEF g
    <3>1. QED
      BY <2>3, <2>4 DEF BaseTable
  <2>6. \E h : BaseTable(h, lang, d)
    <3> HIDE DEF g
    <3>1. QED
      BY <2>5
  <2>7. QED
    BY <2>2, <2>6
<1>4. \A n \in 1 .. Top : n - 1 \in T => n \in T
  BY <1>3
<1>5. Top \in T
  <2> HIDE DEF T
  <2>1. QED
    BY <1>1, <1>2, <1>4, UpTo
<1>6. QED
  BY <1>5

\* What renderBase returns, from the level below.
LEMMA BasesAre ==
  ASSUME NEW lang
  PROVE  /\ RenderBase(lang)[0][Unknown] = Unknown
         /\ \A n \in Levels : \A shape \in Shapes[n] :
              RenderBase(lang)[n][shape] = RenderTarget(RenderBase(lang)[n - 1], lang, NonNull(shape))
<1> DEFINE Table(f) == f = [n \in Depths |->
             [shape \in Shapes[n] |-> IF n = 0 THEN Unknown ELSE RenderTarget(f[n - 1], lang, NonNull(shape))]]
<1>1. PICK f : BaseTable(f, lang, Top)
  BY BaseExists
<1>2. Table(f)
  BY <1>1, LevelsAre DEF BaseTable, BaseOne
<1> DEFINE base == CHOOSE t : Table(t)
<1>3. Table(base)
  <2> HIDE DEF Table
  <2>1. QED
    BY <1>2
<1>4. RenderBase(lang) = base
  BY DEF RenderBase
<1> HIDE DEF base
<1>5. base[0][Unknown] = Unknown
  BY <1>3, LevelsAre, ShapesAre
<1>6. ASSUME NEW n \in Levels, NEW shape \in Shapes[n] PROVE base[n][shape] = RenderTarget(base[n - 1], lang, NonNull(shape))
  BY <1>3, LevelsAre
<1>7. QED
  BY <1>4, <1>5, <1>6

\* Rendering depends on what is inside only.
LEMMA RendersInside ==
  ASSUME NEW n \in Levels, NEW f, NEW g, NEW lang, \A s \in Shapes[n - 1] : f[s] = g[s], NEW shape \in Shapes[n]
  PROVE  RenderTarget(f, lang, NonNull(shape)) = RenderTarget(g, lang, NonNull(shape))
<1> DEFINE target == NonNull(shape)
<1>1. ASSUME NEW o \in Plain(Shapes[n - 1]) PROVE RenderPlain(f, lang, o) = RenderPlain(g, lang, o)
  <2>1. o.kind = "array" => f[o.items] = g[o.items]
    BY PlainIs
  <2>2. QED
    BY <2>1 DEF RenderPlain
<1>2. n \in Depths /\ Below(n) = Shapes[n - 1]
  BY LevelsAre DEF Below
<1>3. /\ target.kind # "union" => target \in Plain(Shapes[n - 1])
      /\ target.kind = "union" => target.options \in Seq(Plain(Shapes[n - 1]))
  BY <1>2, NonNullIs
<1> HIDE DEF target
<1>4. target.kind = "union" => \A i \in DOMAIN target.options : RenderPlain(f, lang, target.options[i]) = RenderPlain(g, lang, target.options[i])
  BY <1>1, <1>3
<1>5. target.kind = "union" => [i \in DOMAIN target.options |-> RenderPlain(f, lang, target.options[i])]
                                 = [i \in DOMAIN target.options |-> RenderPlain(g, lang, target.options[i])]
  BY <1>4
<1>6. RenderTarget(f, lang, target) = RenderTarget(g, lang, target)
  <2>1. CASE target.kind = "union"
    BY <1>5, <2>1 DEF RenderTarget
  <2>2. CASE target.kind # "union"
    BY <1>1, <1>3, <2>2 DEF RenderTarget
  <2>3. QED
    BY <2>1, <2>2
<1>7. QED
  BY <1>6 DEF target

\* renderBase, of shapes of any level.
RendersBase(lang) == RenderBase(lang)[Top]

\* What renderBase returns for any shape.
LEMMA BaseAtTop ==
  ASSUME NEW lang
  PROVE  \A shape \in Shapes[Top] : RendersBase(lang)[shape] = RenderTarget(RendersBase(lang), lang, NonNull(shape))
<1> DEFINE base == RenderBase(lang)
<1>1. /\ base[0][Unknown] = Unknown
      /\ \A n \in Levels : \A shape \in Shapes[n] : base[n][shape] = RenderTarget(base[n - 1], lang, NonNull(shape))
  BY BasesAre
<1> HIDE DEF base
<1>2. \A k \in Levels : base[k][Unknown] = Unknown
  <2>1. SUFFICES ASSUME NEW k \in Levels PROVE base[k][Unknown] = Unknown
    OBVIOUS
  <2>2. k \in Depths /\ Unknown \in Shapes[k] /\ Unknown.kind = "unknown"
    BY LevelsAre, ShapesGrow DEF Unknown, Kind
  <2>3. FlattenUnion(Unknown) = <<Unknown>>
    BY <2>2 DEF FlattenUnion
  <2>4. NonNull(Unknown).kind # "union" /\ NonNull(Unknown) = Unknown
    BY <2>2, <2>3, NonNullIs
  <2>5. RenderTarget(base[k - 1], lang, Unknown) = Unknown
    BY <2>2 DEF RenderTarget, RenderPlain
  <2>6. QED
    BY <1>1, <2>2, <2>4, <2>5
<1> DEFINE Stays(n) == \A k \in n .. Top : \A s \in Shapes[n] : base[k][s] = base[n][s]
           T == {n \in 0 .. Top : Stays(n)}
<1>3. 0 \in T
  <2>1. \A k \in 0 .. Top : k = 0 \/ k \in Levels
    BY LevelsAre DEF Levels
  <2>2. \A k \in 0 .. Top : base[k][Unknown] = Unknown
    BY <1>1, <1>2, <2>1
  <2>3. QED
    BY <2>2, LevelsAre, ShapesAre
<1>4. ASSUME NEW n \in Levels, n - 1 \in T PROVE n \in T
  <2>1. SUFFICES ASSUME NEW k \in n .. Top, NEW s \in Shapes[n] PROVE base[k][s] = base[n][s]
    BY LevelsAre
  <2>2. k \in Levels /\ k - 1 \in n - 1 .. Top /\ n \in 0 .. k /\ k \in Depths
    BY LevelsAre DEF Levels
  <2>3. s \in Shapes[k]
    BY <2>2, ShapesGrow
  <2>4. \A t \in Shapes[n - 1] : base[k - 1][t] = base[n - 1][t]
    BY <1>4, <2>2
  <2> DEFINE p == base[k - 1]
             q == base[n - 1]
  <2>5. \A t \in Shapes[n - 1] : p[t] = q[t]
    BY <2>4
  <2>6. base[k][s] = RenderTarget(p, lang, NonNull(s)) /\ base[n][s] = RenderTarget(q, lang, NonNull(s))
    BY <1>1, <2>2, <2>3
  <2> HIDE DEF p, q
  <2>7. QED
    BY <2>5, <2>6, RendersInside
<1>5. \A n \in 0 .. Top : n \in T
  <2>1. \A n \in 1 .. Top : n - 1 \in T => n \in T
    BY <1>4 DEF Levels
  <2> HIDE DEF T
  <2>2. QED
    BY <1>3, <2>1, LevelsAre, UpTo
<1>6. Top \in Levels /\ Top - 1 \in 0 .. Top /\ Top \in Top - 1 .. Top
  BY DepthsAre DEF Levels
<1> DEFINE p == base[Top - 1]
           q == base[Top]
<1>7. \A t \in Shapes[Top - 1] : p[t] = q[t]
  BY <1>5, <1>6
<1>8. \A s \in Shapes[Top] : q[s] = RenderTarget(p, lang, NonNull(s))
  BY <1>1, <1>6
<1>9. \A s \in Shapes[Top] : RenderTarget(p, lang, NonNull(s)) = RenderTarget(q, lang, NonNull(s))
  <2> HIDE DEF p, q
  <2>1. QED
    BY <1>6, <1>7, RendersInside
<1>10. QED
  BY <1>8, <1>9 DEF RendersBase, base

\* SetToSeq puts each element of a finite set somewhere.
LEMMA KeysInOrder ==
  /\ SetToSeq(Keys) \in Seq(Keys) /\ Len(SetToSeq(Keys)) = Cardinality(Keys) /\ Cardinality(Keys) \in Nat
  /\ \A key \in Keys : \E i \in 1 .. Len(SetToSeq(Keys)) : SetToSeq(Keys)[i] = key
<1> DEFINE N == Cardinality(Keys)
           keys == SetToSeq(Keys)
<1>1. IsFiniteSet(Keys)
  BY TypeGenerationAssumption
<1>2. N \in Nat /\ ExistsBijection(1 .. N, Keys)
  BY <1>1, FS_CardinalityType
<1>3. \E f \in [1 .. N -> Keys] : IsInjective(f)
  BY <1>2 DEF ExistsBijection, Bijection, Injection
<1>4. keys \in [1 .. N -> Keys] /\ IsInjective(keys)
  BY <1>3 DEF SetToSeq
<1>5. keys \in Injection(1 .. N, Keys)
  BY <1>4 DEF Injection
<1>6. Cardinality(1 .. N) = N
  <2>1. 1 \in Int /\ N \in Int
    BY <1>2
  <2>2. Cardinality(1 .. N) = IF 1 > N THEN 0 ELSE N - 1 + 1
    BY <2>1, FS_Interval
  <2> HIDE DEF N
  <2>3. QED
    BY <1>2, <2>2
<1>7. keys \in Surjection(1 .. N, Keys)
  <2> HIDE DEF keys, N
  <2>1. Cardinality(1 .. N) = Cardinality(Keys)
    BY <1>6 DEF N
  <2>2. QED
    BY <1>1, <1>5, <2>1, FS_Injection
<1> HIDE DEF keys
<1>8. keys \in Seq(Keys) /\ Len(keys) = N
  BY <1>2, <1>4
<1>9. \A key \in Keys : \E i \in 1 .. N : keys[i] = key
  BY <1>7 DEF Surjection
<1> HIDE DEF N
<1>10. QED
  BY <1>2, <1>8, <1>9 DEF keys, N

\* A name is new.
LEMMA NameIsNew ==
  ASSUME NEW p \in Preferred, NEW used \in NameSets
  PROVE  NameFor(p, used) \in TypeNames /\ NameFor(p, used) \notin used
<1> DEFINE N == Cardinality(used)
           Numbered(n) == [base |-> PascalCase[p.key], options |-> p.options, number |-> n]
           Free == {n \in 1 .. N + 1 : Numbered(n) \notin used}
           New(n) == Numbered(n) \notin used /\ \A m \in 1 .. n - 1 : Numbered(m) \in used
<1>1. IsFiniteSet(used) /\ N \in Nat
  BY FS_CardinalityType DEF NameSets
<1> HIDE DEF N
<1>2. Free # {}
  <2>1. SUFFICES ASSUME \A n \in 1 .. N + 1 : Numbered(n) \in used PROVE FALSE
    OBVIOUS
  <2> DEFINE f == [n \in 1 .. N + 1 |-> Numbered(n)]
  <2>2. f \in [1 .. N + 1 -> used]
    BY <2>1
  <2>3. IsFiniteSet(1 .. N + 1) /\ Cardinality(1 .. N + 1) = N + 1
    <3>1. 1 \in Int /\ N + 1 \in Int /\ ~(1 > N + 1) /\ N + 1 - 1 + 1 = N + 1
      BY <1>1
    <3>2. QED
      BY <3>1, FS_Interval
  <2>4. Cardinality(used) < Cardinality(1 .. N + 1)
    BY <1>1, <2>3 DEF N
  <2>5. PICK n \in 1 .. N + 1, m \in 1 .. N + 1 : n # m /\ f[n] = f[m]
    <3> HIDE DEF f
    <3>1. QED
      BY <1>1, <2>2, <2>3, <2>4, FS_PigeonHole
  <2>6. Numbered(n) = Numbered(m)
    BY <2>5
  <2>7. QED
    BY <2>5, <2>6
<1>3. PICK n \in Free : \A m \in Free : n <= m
  <2>1. Free \in SUBSET Nat
    BY <1>1
  <2> HIDE DEF Free
  <2>2. QED
    BY <1>2, <2>1, LeastNumber
<1>4. n \in 1 .. N + 1 /\ New(n)
  <2>1. \A m \in 1 .. n - 1 : m \in 1 .. N + 1 /\ ~(n <= m)
    BY <1>1, <1>3
  <2>2. QED
    BY <1>3, <2>1
<1> DEFINE c == CHOOSE i \in 1 .. N + 1 : New(i)
<1>5. c \in 1 .. N + 1 /\ New(c)
  <2> HIDE DEF New
  <2>1. QED
    BY <1>4
<1>6. NameFor(p, used) = Numbered(c)
  BY DEF NameFor, N
<1> HIDE DEF c
<1>7. c \in Nat /\ PascalCase[p.key] \in STRING /\ p.options \in Seq(Nat)
  BY <1>1, <1>5, TypeGenerationAssumption DEF Preferred
<1>8. QED
  BY <1>5, <1>6, <1>7 DEF TypeNames

-------------------------------------------------------------------------------
(* What a visit returns *)

\* The types that can be declared, and what a visit can return.
TypeRecords == [name : TypeNames, fields : FieldsOver(Shapes[Top - 1])]
VisitRecords == [shape : Shapes[Top] \cup {Absent}, used : NameSets, types : SUBSET TypeRecords]

\* The types declared have names of their own, that were not taken and are now.
Fresh(taken, used, types) ==
  /\ used \in NameSets /\ taken \subseteq used /\ types \subseteq TypeRecords
  /\ \A t \in types : t.name \in used /\ t.name \notin taken
  /\ \A t1, t2 \in types : t1.name = t2.name => t1 = t2

\* Names given afresh one visit after another are fresh together.
LEMMA FreshAgain ==
  ASSUME NEW u, NEW taken, NEW types, Fresh(u, taken, types), NEW used, NEW more, Fresh(taken, used, more)
  PROVE  Fresh(u, used, types \cup more)
<1>1. ASSUME NEW t1 \in types \cup more, NEW t2 \in types \cup more, t1.name = t2.name PROVE t1 = t2
  <2>1. \A t \in types : t.name \in taken
    BY DEF Fresh
  <2>2. \A t \in more : t.name \notin taken
    BY DEF Fresh
  <2>3. (t1 \in types /\ t2 \in types) \/ (t1 \in more /\ t2 \in more)
    BY <1>1, <2>1, <2>2
  <2>4. QED
    BY <1>1, <2>3 DEF Fresh
<1>2. \A t \in types \cup more : t.name \in used /\ t.name \notin u
  BY DEF Fresh
<1>3. QED
  BY <1>1, <1>2 DEF Fresh

\* Visits that follow one another, each from the names used until then.
Visitors(D) == [1 .. D -> [NameSets -> VisitRecords]]

\* Visits of one thing after another: each takes what names the one before left.
LEMMA VisitsInTurn ==
  ASSUME NEW D \in Nat, NEW u \in NameSets, NEW one \in Visitors(D),
         \A i \in 1 .. D : \A taken \in NameSets : Fresh(taken, one[i][taken].used, one[i][taken].types)
  PROVE  /\ \E f : f = [i \in 0 .. D |-> IF i = 0 THEN Visited(Absent, u, {}) ELSE one[i][f[i - 1].used]]
                   /\ \A i \in 0 .. D : f[i] \in VisitRecords
         /\ \A f : /\ f[0] = Visited(Absent, u, {})
                   /\ \A i \in 1 .. D : f[i - 1].used \in NameSets => f[i] = one[i][f[i - 1].used]
                   => /\ \A i \in 0 .. D : f[i] \in VisitRecords
                      /\ \A i \in 1 .. D : f[i] = one[i][f[i - 1].used]
                      /\ Fresh(u, f[D].used, UNION {f[i].types : i \in 0 .. D})
<1> DEFINE start == Visited(Absent, u, {})
           S == [i \in 0 .. D |-> VisitRecords]
           G == [i \in 1 .. D |-> [r \in VisitRecords |-> one[i][r.used]]]
<1>1. start \in VisitRecords
  BY DEF Visited, VisitRecords
<1>2. \A i \in 1 .. D : i \in 0 .. D /\ i - 1 \in 0 .. D /\ i # 0
  OBVIOUS
<1>3. \A r \in VisitRecords : r.used \in NameSets
  BY DEF VisitRecords
<1>4. \A i \in 1 .. D : \A taken \in NameSets : one[i][taken] \in VisitRecords
  BY DEF Visitors
<1>5. \A i \in 1 .. D : \A r \in S[i - 1] : G[i][r] \in S[i] /\ G[i][r] = one[i][r.used]
  <2> HIDE DEF start
  <2>1. QED
    BY <1>2, <1>3, <1>4
<1>6. \A i \in 1 .. D : \A r \in S[i - 1] : G[i][r] \in S[i]
  BY <1>5
<1> HIDE DEF start
<1>7. \E f : f = [i \in 0 .. D |-> IF i = 0 THEN start ELSE one[i][f[i - 1].used]] /\ \A i \in 0 .. D : f[i] \in VisitRecords
  <2>1. start \in S[0]
    BY <1>1
  <2>2. PICK f : Steps(f, D, start, G) /\ \A i \in 0 .. D : f[i] \in S[i]
    <3> HIDE DEF S, G
    <3>1. QED
      BY <1>6, <2>1, StepByStep
  <2>3. \A i \in 0 .. D : i # 0 => i \in 1 .. D /\ i - 1 \in 0 .. D
    OBVIOUS
  <2>4. \A i \in 1 .. D : G[i][f[i - 1]] = one[i][f[i - 1].used]
    <3> HIDE DEF S, G
    <3>1. QED
      BY <1>2, <1>5, <2>2
  <2>5. f = [i \in 0 .. D |-> IF i = 0 THEN start ELSE one[i][f[i - 1].used]]
    <3> HIDE DEF S, G
    <3>1. QED
      BY <2>2, <2>3, <2>4 DEF Steps
  <2>6. \A i \in 0 .. D : f[i] \in VisitRecords
    BY <2>2
  <2>7. QED
    BY <2>5, <2>6
<1>8. ASSUME NEW f, f[0] = start, \A i \in 1 .. D : f[i - 1].used \in NameSets => f[i] = one[i][f[i - 1].used]
      PROVE  /\ \A i \in 0 .. D : f[i] \in VisitRecords
             /\ \A i \in 1 .. D : f[i] = one[i][f[i - 1].used]
             /\ Fresh(u, f[D].used, UNION {f[i].types : i \in 0 .. D})
  <2> DEFINE All(n) == UNION {f[i].types : i \in 0 .. n}
             T == {n \in 0 .. D : f[n] \in VisitRecords /\ Fresh(u, f[n].used, All(n))}
  <2>1. 0 \in T
    <3>1. start.used = u /\ start.types = {}
      BY DEF start, Visited
    <3>2. All(0) = {}
      BY <1>8, <3>1
    <3>3. Fresh(u, u, {})
      BY DEF Fresh
    <3> HIDE DEF All
    <3>4. f[0] \in VisitRecords /\ f[0].used = u /\ 0 \in 0 .. D
      BY <1>1, <1>8, <3>1
    <3>5. Fresh(u, f[0].used, All(0))
      BY <3>2, <3>3, <3>4
    <3>6. QED
      BY <3>4, <3>5
  <2>2. ASSUME NEW n \in 1 .. D, n - 1 \in T PROVE n \in T
    <3>1. f[n - 1] \in VisitRecords /\ Fresh(u, f[n - 1].used, All(n - 1)) /\ n \in 0 .. D
      BY <2>2
    <3>2. f[n - 1].used \in NameSets /\ f[n] = one[n][f[n - 1].used]
      BY <1>3, <1>8, <3>1
    <3>3. f[n] \in VisitRecords /\ Fresh(f[n - 1].used, f[n].used, f[n].types)
      BY <1>4, <3>2
    <3>4. All(n) = All(n - 1) \cup f[n].types
      <4>1. \A i : i \in 0 .. n <=> i \in 0 .. n - 1 \/ i = n
        OBVIOUS
      <4>2. QED
        BY <4>1
    <3> HIDE DEF All
    <3>5. Fresh(u, f[n].used, All(n - 1) \cup f[n].types)
      BY <3>1, <3>3, FreshAgain
    <3>6. QED
      BY <3>1, <3>3, <3>4, <3>5
  <2>3. \A n \in 0 .. D : n \in T
    <3> HIDE DEF T
    <3>1. QED
      BY <2>1, <2>2, UpTo
  <2>4. D \in 0 .. D
    OBVIOUS
  <2>5. (\A i \in 0 .. D : f[i] \in VisitRecords) /\ Fresh(u, f[D].used, All(D))
    <3> HIDE DEF All
    <3>1. QED
      BY <2>3, <2>4
  <2>6. \A i \in 1 .. D : f[i] = one[i][f[i - 1].used]
    BY <1>2, <1>3, <1>8, <2>5
  <2>7. QED
    BY <2>5, <2>6
<1>9. QED
  BY <1>7, <1>8 DEF start

\* A union for a union, of as many options, and null for null.
Alike(s, t) ==
  /\ s.kind = "union" <=> t.kind = "union"
  /\ DOMAIN FlattenUnion(s) = DOMAIN FlattenUnion(t)
  /\ \A i \in DOMAIN FlattenUnion(s) : FlattenUnion(s)[i].kind = "null" <=> FlattenUnion(t)[i].kind = "null"

\* A visit of s returns a shape like it, and gives its types names not yet used.
WellVisited(n, s, u, r) == r.shape \in Shapes[n] /\ Fresh(u, r.used, r.types) /\ Alike(s, r.shape)

\* The functions that visit every shape of a level well.
VisitsOf(n) ==
  {f \in [Shapes[n] -> [Preferred -> [NameSets -> VisitRecords]]] :
     \A s \in Shapes[n], p \in Preferred, u \in NameSets : WellVisited(n, s, u, f[s][p][u])}

\* What such a function returns.
LEMMA VisitIs ==
  ASSUME NEW n \in Depths, NEW visit \in VisitsOf(n), NEW s \in Shapes[n], NEW p \in Preferred, NEW u \in NameSets
  PROVE  visit[s][p][u] \in VisitRecords /\ WellVisited(n, s, u, visit[s][p][u])
BY DEF VisitsOf

\* A field's shape is what a visit makes of it.
FieldVisited(visit, fields, key, visited, types) ==
  /\ visited[key].required = fields[key].required
  /\ ~HasField(fields, key) => visited[key].shape = Absent
  /\ HasField(fields, key) =>
       \E taken \in NameSets : LET r == visit[fields[key].shape][ByKey(key)][taken]
                               IN visited[key].shape = r.shape /\ r.types \subseteq types

\* Visiting fields names what is inside each and keeps the fields apart.
LEMMA VisitFieldsAre ==
  ASSUME NEW n \in Levels, NEW visit \in VisitsOf(n - 1), NEW fields \in FieldsOver(Shapes[n - 1]), NEW u \in NameSets
  PROVE  LET r == VisitFields(visit, fields, u)
         IN /\ r.shape \in FieldsOver(Shapes[n - 1]) /\ Fresh(u, r.used, r.types)
            /\ \A key \in Keys : FieldVisited(visit, fields, key, r.shape, r.types)
<1> DEFINE keys == SetToSeq(Keys)
           D == Len(keys)
           Child(key, taken) ==
             IF HasField(fields, key) THEN visit[fields[key].shape][ByKey(key)][taken] ELSE Visited(Absent, taken, {})
           one == [i \in 1 .. D |-> [taken \in NameSets |-> Child(keys[i], taken)]]
           start == Visited(Absent, u, {})
           Table(f) == f = [i \in 0 .. D |-> IF i = 0 THEN start ELSE Child(keys[i], f[i - 1].used)]
           Chain(f) == f = [i \in 0 .. D |-> IF i = 0 THEN Visited(Absent, u, {}) ELSE one[i][f[i - 1].used]]
           At(key) == CHOOSE i \in DOMAIN keys : keys[i] = key
<1>1. /\ keys \in Seq(Keys) /\ D \in Nat /\ DOMAIN keys = 1 .. D /\ \A i \in 1 .. D : keys[i] \in Keys
      /\ \A key \in Keys : \E i \in 1 .. D : keys[i] = key
  BY KeysInOrder, LenProperties
<1> HIDE DEF keys
<1>2. ASSUME NEW key \in Keys, NEW taken \in NameSets
      PROVE  /\ Child(key, taken) \in VisitRecords /\ Fresh(taken, Child(key, taken).used, Child(key, taken).types)
             /\ Child(key, taken).shape \in Shapes[n - 1] \cup {Absent}
             /\ HasField(fields, key) => Child(key, taken).shape \in Shapes[n - 1]
  <2>1. CASE HasField(fields, key)
    <3>1. fields[key].shape \in Shapes[n - 1] /\ n - 1 \in Depths
      BY <2>1, FieldIs, LevelsAre
    <3>2. ByKey(key) \in Preferred
      BY TypeGenerationAssumption DEF ByKey, Preferred
    <3> DEFINE r == visit[fields[key].shape][ByKey(key)][taken]
    <3>3. r \in VisitRecords /\ WellVisited(n - 1, fields[key].shape, taken, r)
      BY <3>1, <3>2, VisitIs
    <3>4. Child(key, taken) = r
      BY <2>1
    <3> HIDE DEF r, Child
    <3>5. QED
      BY <3>3, <3>4 DEF WellVisited
  <2>2. CASE ~HasField(fields, key)
    <3>1. Child(key, taken) = Visited(Absent, taken, {})
      BY <2>2
    <3> HIDE DEF Child
    <3>2. QED
      BY <2>2, <3>1 DEF Visited, VisitRecords, Fresh
  <2>3. QED
    BY <2>1, <2>2
<1> HIDE DEF Child, D
<1>3. one \in Visitors(D) /\ \A i \in 1 .. D : \A taken \in NameSets : Fresh(taken, one[i][taken].used, one[i][taken].types)
  BY <1>1, <1>2 DEF Visitors
<1>4. \A i \in 1 .. D : \A taken \in NameSets : one[i][taken] = Child(keys[i], taken)
  OBVIOUS
<1>5. \A r \in VisitRecords : r.used \in NameSets
  BY DEF VisitRecords
<1> HIDE DEF one
<1>6. \E f : Table(f)
  <2>1. PICK f : Chain(f) /\ \A i \in 0 .. D : f[i] \in VisitRecords
    BY <1>1, <1>3, VisitsInTurn
  <2>2. \A i \in 0 .. D : i # 0 => i \in 1 .. D /\ i - 1 \in 0 .. D
    BY <1>1
  <2>3. \A i \in 0 .. D : i # 0 => one[i][f[i - 1].used] = Child(keys[i], f[i - 1].used)
    BY <1>4, <1>5, <2>1, <2>2
  <2>4. Table(f)
    BY <2>1, <2>3
  <2> HIDE DEF Table
  <2>5. QED
    BY <2>4
<1> DEFINE visits == CHOOSE f : Table(f)
<1>7. Table(visits)
  <2> HIDE DEF Table
  <2>1. QED
    BY <1>6
<1> DEFINE F == [key \in Keys |-> Field(visits[At(key)].shape, fields[key].required)]
           All == UNION {visits[i].types : i \in 0 .. D}
<1>8. VisitFields(visit, fields, u) = Visited(F, visits[D].used, All)
  BY DEF VisitFields, Child, keys, D
<1> HIDE DEF visits
<1>9. /\ visits[0] = Visited(Absent, u, {})
      /\ \A i \in 1 .. D : visits[i] = Child(keys[i], visits[i - 1].used)
  <2>1. 0 \in 0 .. D /\ \A i \in 1 .. D : i \in 0 .. D /\ i # 0
    BY <1>1
  <2>2. QED
    BY <1>7, <2>1
<1>10. \A i \in 1 .. D : visits[i - 1].used \in NameSets => visits[i] = one[i][visits[i - 1].used]
  BY <1>4, <1>9
<1>11. /\ \A i \in 0 .. D : visits[i] \in VisitRecords
       /\ Fresh(u, visits[D].used, All)
  <2>1. \A f : /\ f[0] = Visited(Absent, u, {})
               /\ \A i \in 1 .. D : f[i - 1].used \in NameSets => f[i] = one[i][f[i - 1].used]
               => /\ \A i \in 0 .. D : f[i] \in VisitRecords
                  /\ \A i \in 1 .. D : f[i] = one[i][f[i - 1].used]
                  /\ Fresh(u, f[D].used, UNION {f[i].types : i \in 0 .. D})
    BY <1>1, <1>3, VisitsInTurn
  <2>2. QED
    BY <1>9, <1>10, <2>1
<1>12. ASSUME NEW key \in Keys
       PROVE  /\ At(key) \in 1 .. D /\ keys[At(key)] = key /\ visits[At(key) - 1].used \in NameSets
              /\ visits[At(key)] = Child(key, visits[At(key) - 1].used) /\ visits[At(key)].types \subseteq All
  <2>1. At(key) \in 1 .. D /\ keys[At(key)] = key
    BY <1>1
  <2> HIDE DEF At
  <2>2. At(key) - 1 \in 0 .. D /\ At(key) \in 0 .. D
    BY <1>1, <2>1
  <2>3. visits[At(key)].types \subseteq All
    BY <2>2
  <2>4. QED
    BY <1>5, <1>9, <1>11, <2>1, <2>2, <2>3
<1>13. F \in FieldsOver(Shapes[n - 1])
  <2>1. ASSUME NEW key \in Keys PROVE F[key] \in [shape : Shapes[n - 1] \cup {Absent}, required : BOOLEAN]
    <3>1. visits[At(key)].shape \in Shapes[n - 1] \cup {Absent}
      BY <1>2, <1>12
    <3>2. fields[key].required \in BOOLEAN
      BY FieldIs
    <3>3. F[key] = Field(visits[At(key)].shape, fields[key].required)
      OBVIOUS
    <3> HIDE DEF F, At
    <3>4. QED
      BY <3>1, <3>2, <3>3 DEF Field
  <2>2. F = [key \in Keys |-> F[key]]
    OBVIOUS
  <2> HIDE DEF F
  <2>3. QED
    BY <2>1, <2>2 DEF FieldsOver
<1>14. ASSUME NEW key \in Keys PROVE FieldVisited(visit, fields, key, F, All)
  <2>1. F[key] = Field(visits[At(key)].shape, fields[key].required)
    OBVIOUS
  <2>2. F[key].required = fields[key].required /\ F[key].shape = visits[At(key)].shape
    <3> HIDE DEF F, At
    <3>1. QED
      BY <2>1 DEF Field
  <2> DEFINE taken == visits[At(key) - 1].used
  <2>3. taken \in NameSets /\ visits[At(key)] = Child(key, taken) /\ visits[At(key)].types \subseteq All
    BY <1>12
  <2> HIDE DEF taken, F, At, All
  <2>4. ~HasField(fields, key) => F[key].shape = Absent
    BY <2>2, <2>3 DEF Child, Visited
  <2>5. HasField(fields, key) => Child(key, taken) = visit[fields[key].shape][ByKey(key)][taken]
    BY DEF Child
  <2>6. QED
    BY <2>2, <2>3, <2>4, <2>5 DEF FieldVisited
<1> HIDE DEF F, All
<1>15. QED
  BY <1>8, <1>11, <1>13, <1>14 DEF Visited

\* What a visit makes of a list, of a record and of anything else that is no union.
PartVisited(n, visit, o, r) ==
  /\ o.kind = "array" =>
       \E q \in Preferred, taken \in NameSets :
         LET inner == visit[o.items][q][taken]
         IN r.shape = List(inner.shape) /\ inner.types \subseteq r.types
  /\ o.kind = "object" =>
       \E t \in r.types : /\ r.shape = Named(t.name) /\ t.fields \in FieldsOver(Shapes[n - 1])
                          /\ \A key \in Keys : FieldVisited(visit, o.fields, key, t.fields, r.types)
  /\ o.kind \notin {"array", "object"} => r.shape = o

\* A field that has been visited stays so when more types are declared.
LEMMA FieldVisitedGrows ==
  ASSUME NEW visit, NEW fields, NEW key, NEW visited, NEW types, NEW more, types \subseteq more,
         FieldVisited(visit, fields, key, visited, types)
  PROVE  FieldVisited(visit, fields, key, visited, more)
BY DEF FieldVisited

\* Visiting a shape that is no union names it, or what is inside it.
LEMMA VisitPlainIs ==
  ASSUME NEW n \in Levels, NEW visit \in VisitsOf(n - 1), NEW o \in Plain(Shapes[n - 1]), NEW p \in Preferred, NEW u \in NameSets
  PROVE  LET r == VisitPlain(visit, o, p, u)
         IN /\ r \in VisitRecords /\ Fresh(u, r.used, r.types) /\ r.shape \in Plain(Shapes[n - 1])
            /\ o.kind = "null" <=> r.shape.kind = "null"
            /\ PartVisited(n, visit, o, r)
<1> DEFINE r == VisitPlain(visit, o, p, u)
<1>1. n - 1 \in Depths /\ Plain(Shapes[n - 1]) \subseteq Shapes[Top]
  BY LevelsAre, ShapesWithin
<1>2. SUFFICES /\ r = Visited(r.shape, r.used, r.types) /\ Fresh(u, r.used, r.types) /\ r.shape \in Plain(Shapes[n - 1])
               /\ o.kind = "null" <=> r.shape.kind = "null"
               /\ PartVisited(n, visit, o, r)
  <2>1. ASSUME NEW x, x = Visited(x.shape, x.used, x.types), Fresh(u, x.used, x.types), x.shape \in Plain(Shapes[n - 1])
        PROVE  x \in VisitRecords
    BY <1>1, <2>1 DEF Visited, VisitRecords, Fresh
  <2> HIDE DEF r
  <2>2. QED
    BY <2>1 DEF r
<1>3. CASE o.kind = "array"
  <2>1. o.items \in Shapes[n - 1] /\ Singular(p) \in Preferred
    <3>1. \A key \in DOMAIN PascalCase : ByKey(key) \in Preferred
      BY DEF ByKey, Preferred
    <3>2. Singularize[p.key] \in DOMAIN PascalCase
      BY TypeGenerationAssumption DEF Preferred
    <3>3. QED
      BY <1>3, <3>1, <3>2, PlainIs DEF Singular
  <2> DEFINE inner == visit[o.items][Singular(p)][u]
  <2>2. WellVisited(n - 1, o.items, u, inner)
    BY <1>1, <2>1, VisitIs
  <2>3. r = Visited(List(inner.shape), inner.used, inner.types)
    BY <1>3 DEF VisitPlain
  <2>4. PartVisited(n, visit, o, r)
    <3>1. r.shape = List(inner.shape) /\ inner.types \subseteq r.types
      <4> HIDE DEF inner, r
      <4>1. QED
        BY <2>3 DEF Visited
    <3> HIDE DEF r
    <3>2. QED
      BY <1>3, <2>1, <3>1 DEF PartVisited
  <2> HIDE DEF r, inner
  <2>5. List(inner.shape) \in Plain(Shapes[n - 1]) /\ List(inner.shape).kind = "array"
    BY <2>2, PlainHas DEF WellVisited, List
  <2>6. QED
    BY <1>3, <2>2, <2>3, <2>4, <2>5 DEF Visited, WellVisited
<1>4. CASE o.kind = "object"
  <2> DEFINE name == NameFor(p, u)
             fields == VisitFields(visit, o.fields, u \cup {name})
             t == [name |-> name, fields |-> fields.shape]
  <2>1. name \in TypeNames /\ name \notin u /\ o.fields \in FieldsOver(Shapes[n - 1])
    BY <1>4, NameIsNew, PlainIs
  <2>2. r = Visited(Named(name), fields.used, fields.types \cup {t})
    BY <1>4 DEF VisitPlain
  <2> HIDE DEF name
  <2>3. u \cup {name} \in NameSets
    BY <2>1, FS_AddElement DEF NameSets
  <2>4. /\ fields.shape \in FieldsOver(Shapes[n - 1]) /\ Fresh(u \cup {name}, fields.used, fields.types)
        /\ \A key \in Keys : FieldVisited(visit, o.fields, key, fields.shape, fields.types)
    BY <2>1, <2>3, VisitFieldsAre
  <2> HIDE DEF fields, r
  <2>5. t \in TypeRecords
    <3>1. Shapes[n - 1] \subseteq Shapes[Top - 1]
      <4>1. n - 1 \in 0 .. Top - 1 /\ Top - 1 \in Depths
        BY DepthsAre DEF Levels
      <4>2. QED
        BY <4>1, ShapesGrow
    <3>2. fields.shape \in FieldsOver(Shapes[Top - 1])
      BY <2>4, <3>1, PlainGrows
    <3>3. QED
      BY <2>1, <3>2 DEF TypeRecords
  <2>6. Fresh(u, u \cup {name}, {t})
    BY <2>1, <2>3, <2>5 DEF Fresh
  <2>7. t.name = name /\ t.fields = fields.shape
    OBVIOUS
  <2> HIDE DEF t
  <2>8. Fresh(u, fields.used, {t} \cup fields.types) /\ {t} \cup fields.types = fields.types \cup {t}
    BY <2>4, <2>6, FreshAgain
  <2>9. r.shape = Named(name) /\ r.used = fields.used /\ r.types = fields.types \cup {t}
    BY <2>2 DEF Visited
  <2>10. \A key \in Keys : FieldVisited(visit, o.fields, key, fields.shape, r.types)
    BY <2>4, <2>9, FieldVisitedGrows
  <2>11. PartVisited(n, visit, o, r)
    BY <1>4, <2>4, <2>7, <2>9, <2>10 DEF PartVisited
  <2>12. Named(name) \in Plain(Shapes[n - 1]) /\ Named(name).kind = "named"
    BY <2>1, PlainHas DEF Named
  <2>13. QED
    BY <1>4, <2>2, <2>8, <2>9, <2>11, <2>12
<1>5. CASE o.kind \notin {"array", "object"}
  <2>1. r = Visited(o, u, {})
    BY <1>5 DEF VisitPlain
  <2> HIDE DEF r
  <2>2. Fresh(u, u, {})
    BY DEF Fresh
  <2>3. QED
    BY <1>5, <2>1, <2>2 DEF Visited, PartVisited
<1>6. QED
  BY <1>3, <1>4, <1>5

\* What a visit makes of each option.
OptionVisited(visit, s, i, r) ==
  \E q \in Preferred, taken \in NameSets :
    LET part == VisitPlain(visit, FlattenUnion(s)[i], q, taken)
    IN FlattenUnion(r.shape)[i] = part.shape /\ part.types \subseteq r.types

\* Visiting a union visits each of its options.
LEMMA VisitTargetIs ==
  ASSUME NEW n \in Levels, NEW visit \in VisitsOf(n - 1), NEW s \in Shapes[n], NEW p \in Preferred, NEW u \in NameSets
  PROVE  LET r == VisitTarget(visit, s, p, u)
         IN /\ r \in VisitRecords /\ WellVisited(n, s, u, r)
            /\ \A i \in DOMAIN FlattenUnion(s) : OptionVisited(visit, s, i, r)
<1> DEFINE options == FlattenUnion(s)
           D == Len(options)
           Child(i, taken) == VisitPlain(visit, options[i], ForOption(s, i, p), taken)
           one == [i \in 1 .. D |-> [taken \in NameSets |-> Child(i, taken)]]
           Table(f) == f = [i \in 0 .. D |-> IF i = 0 THEN Visited(Absent, u, {}) ELSE Child(i, f[i - 1].used)]
           Chain(f) == f = [i \in 0 .. D |-> IF i = 0 THEN Visited(Absent, u, {}) ELSE one[i][f[i - 1].used]]
<1>1. options \in Seq(Plain(Shapes[n - 1])) /\ D \in Nat /\ DOMAIN options = 1 .. D /\ \A i \in 1 .. D : options[i] \in Plain(Shapes[n - 1])
  BY Options, ShapesHave, LenProperties DEF Levels
<1>2. \A i \in 1 .. D : ForOption(s, i, p) \in Preferred
  <2>1. SUFFICES ASSUME NEW i \in 1 .. D PROVE ForOption(s, i, p) \in Preferred
    OBVIOUS
  <2> DEFINE J == {j \in 1 .. i : s.options[j].kind # "null"}
             c == Cardinality(J)
  <2>2. c \in Nat
    <3>1. IsFiniteSet(1 .. i)
      BY FS_Interval
    <3>2. IsFiniteSet(J)
      BY <3>1, FS_Subset
    <3> HIDE DEF J
    <3>3. QED
      BY <3>2, FS_CardinalityType
  <2>3. ForOption(s, i, p) = IF NonNull(s).kind = "union" THEN [p EXCEPT !.options = Append(@, c)] ELSE p
    BY DEF ForOption
  <2> HIDE DEF c
  <2>4. Append(p.options, c) \in Seq(Nat)
    BY <2>2 DEF Preferred
  <2>5. QED
    BY <2>3, <2>4 DEF Preferred
<1> HIDE DEF options, D
<1>3. \A i \in 1 .. D : \A taken \in NameSets :
        /\ Child(i, taken) \in VisitRecords /\ Fresh(taken, Child(i, taken).used, Child(i, taken).types)
        /\ Child(i, taken).shape \in Plain(Shapes[n - 1]) /\ (options[i].kind = "null" <=> Child(i, taken).shape.kind = "null")
  BY <1>1, <1>2, VisitPlainIs
<1>4. \A i \in 1 .. D : \A taken \in NameSets : one[i][taken] = Child(i, taken)
  OBVIOUS
<1> HIDE DEF Child
<1>5. one \in Visitors(D) /\ \A i \in 1 .. D : \A taken \in NameSets : Fresh(taken, one[i][taken].used, one[i][taken].types)
  BY <1>1, <1>3 DEF Visitors
<1>6. \A r \in VisitRecords : r.used \in NameSets
  BY DEF VisitRecords
<1> HIDE DEF one
<1>7. \E f : Table(f)
  <2>1. PICK f : Chain(f) /\ \A i \in 0 .. D : f[i] \in VisitRecords
    BY <1>1, <1>5, VisitsInTurn
  <2>2. \A i \in 0 .. D : i # 0 => i \in 1 .. D /\ i - 1 \in 0 .. D
    BY <1>1
  <2>3. \A i \in 0 .. D : i # 0 => one[i][f[i - 1].used] = Child(i, f[i - 1].used)
    BY <1>4, <1>6, <2>1, <2>2
  <2>4. Table(f)
    BY <2>1, <2>3
  <2> HIDE DEF Table
  <2>5. QED
    BY <2>4
<1> DEFINE visits == CHOOSE f : Table(f)
<1>8. Table(visits)
  <2> HIDE DEF Table
  <2>1. QED
    BY <1>7
<1> DEFINE shapes == [i \in DOMAIN options |-> visits[i].shape]
           All == UNION {visits[i].types : i \in 0 .. D}
           r == VisitTarget(visit, s, p, u)
<1>9. r = Visited(IF s.kind = "union" THEN Union(shapes) ELSE shapes[1], visits[D].used, All)
  BY DEF VisitTarget, Child, options, D
<1> HIDE DEF visits, r
<1>10. /\ visits[0] = Visited(Absent, u, {})
       /\ \A i \in 1 .. D : visits[i] = Child(i, visits[i - 1].used)
  <2>1. 0 \in 0 .. D /\ \A i \in 1 .. D : i \in 0 .. D /\ i # 0
    BY <1>1
  <2>2. QED
    BY <1>8, <2>1
<1>11. \A i \in 1 .. D : visits[i - 1].used \in NameSets => visits[i] = one[i][visits[i - 1].used]
  BY <1>4, <1>10
<1>12. /\ \A i \in 0 .. D : visits[i] \in VisitRecords
       /\ Fresh(u, visits[D].used, All)
  <2>1. \A f : /\ f[0] = Visited(Absent, u, {})
               /\ \A i \in 1 .. D : f[i - 1].used \in NameSets => f[i] = one[i][f[i - 1].used]
               => /\ \A i \in 0 .. D : f[i] \in VisitRecords
                  /\ \A i \in 1 .. D : f[i] = one[i][f[i - 1].used]
                  /\ Fresh(u, f[D].used, UNION {f[i].types : i \in 0 .. D})
    BY <1>1, <1>5, VisitsInTurn
  <2>2. QED
    BY <1>10, <1>11, <2>1
<1>13. \A i \in 1 .. D : /\ visits[i - 1].used \in NameSets /\ visits[i].types \subseteq All
                         /\ visits[i].shape \in Plain(Shapes[n - 1])
                         /\ options[i].kind = "null" <=> visits[i].shape.kind = "null"
  <2>1. \A i \in 1 .. D : i - 1 \in 0 .. D /\ i \in 0 .. D
    BY <1>1
  <2>2. \A i \in 1 .. D : visits[i - 1].used \in NameSets /\ visits[i].types \subseteq All
    BY <1>6, <1>12, <2>1
  <2>3. QED
    BY <1>3, <1>10, <2>2
<1>14. shapes \in Seq(Plain(Shapes[n - 1])) /\ DOMAIN shapes = 1 .. D /\ \A i \in 1 .. D : shapes[i] = visits[i].shape
  BY <1>1, <1>13
<1>15. /\ r.shape \in Shapes[n] /\ FlattenUnion(r.shape) = shapes /\ (s.kind = "union" <=> r.shape.kind = "union")
       /\ r.used = visits[D].used /\ r.types = All /\ r = Visited(r.shape, r.used, r.types)
  <2>1. r.shape = IF s.kind = "union" THEN Union(shapes) ELSE shapes[1]
    <3> HIDE DEF shapes, All
    <3>1. QED
      BY <1>9 DEF Visited
  <2>2. r.used = visits[D].used /\ r.types = All /\ r = Visited(r.shape, r.used, r.types)
    <3> HIDE DEF shapes, All
    <3>1. QED
      BY <1>9 DEF Visited
  <2> HIDE DEF shapes, All
  <2>3. CASE s.kind = "union"
    <3>1. r.shape = Union(shapes) /\ Union(shapes) \in Shapes[n]
      BY <1>14, <2>1, <2>3, ShapesHave DEF Levels
    <3>2. QED
      BY <2>2, <2>3, <3>1 DEF FlattenUnion, Union
  <2>4. CASE s.kind # "union"
    <3>1. D = 1
      BY <2>4, Options, LevelsAre DEF options, D
    <3>2. r.shape = shapes[1] /\ shapes[1] \in Plain(Shapes[n - 1]) /\ shapes = <<shapes[1]>>
      BY <1>13, <1>14, <2>1, <2>4, <3>1
    <3>3. r.shape.kind # "union" /\ r.shape \in Shapes[n]
      BY <3>2, PlainIs, ShapesWithin DEF LeafKinds
    <3>4. QED
      BY <2>2, <2>4, <3>2, <3>3 DEF FlattenUnion
  <2>5. QED
    BY <2>3, <2>4
<1> HIDE DEF shapes, All
<1>16. WellVisited(n, s, u, r)
  <2>1. Fresh(u, r.used, r.types)
    BY <1>12, <1>15
  <2>2. Alike(s, r.shape)
    BY <1>1, <1>13, <1>14, <1>15 DEF Alike, options
  <2>3. QED
    BY <1>15, <2>1, <2>2 DEF WellVisited
<1>17. r \in VisitRecords
  <2>1. r.shape \in Shapes[Top]
    BY <1>15, LevelsAre, ShapesWithin
  <2>2. r.used \in NameSets /\ r.types \subseteq TypeRecords
    BY <1>16 DEF WellVisited, Fresh
  <2>3. QED
    BY <1>15, <2>1, <2>2 DEF Visited, VisitRecords
<1>18. ASSUME NEW i \in DOMAIN FlattenUnion(s) PROVE OptionVisited(visit, s, i, r)
  <2>1. i \in 1 .. D
    BY <1>1 DEF options
  <2> DEFINE taken == visits[i - 1].used
             part == VisitPlain(visit, FlattenUnion(s)[i], ForOption(s, i, p), taken)
  <2>2. taken \in NameSets /\ visits[i] = part
    BY <1>10, <1>13, <2>1 DEF Child, options
  <2>3. FlattenUnion(r.shape)[i] = part.shape /\ part.types \subseteq r.types
    <3> HIDE DEF part
    <3>1. QED
      BY <1>13, <1>14, <1>15, <2>1, <2>2
  <2>4. ForOption(s, i, p) \in Preferred
    BY <1>2, <2>1
  <2> HIDE DEF taken
  <2>5. QED
    BY <2>2, <2>3, <2>4 DEF OptionVisited
<1>19. QED
  BY <1>16, <1>17, <1>18 DEF r

\* What Visit is at each level.
LEMMA VisitsAre ==
  /\ \A n \in Depths : Visit[n] \in VisitsOf(n)
  /\ \A n \in Levels : \A s \in Shapes[n], p \in Preferred, u \in NameSets :
       Visit[n][s][p][u] = VisitTarget(Visit[n - 1], s, p, u)
<1> DEFINE b0 == [s \in Shapes[0] |-> [p \in Preferred |-> [u \in NameSets |-> Visited(s, u, {})]]]
           Level(n, f) == [s \in Shapes[n] |-> [p \in Preferred |-> [u \in NameSets |-> VisitTarget(f, s, p, u)]]]
           S == [n \in 0 .. Top |-> VisitsOf(n)]
           G == [n \in Levels |-> [f \in VisitsOf(n - 1) |-> Level(n, f)]]
           One(n, f) == [s \in Shapes[n] |-> [p \in Preferred |-> [u \in NameSets |->
                           IF n = 0 THEN Visited(s, u, {}) ELSE VisitTarget(f, s, p, u)]]]
           Table(f) == f = [n \in Depths |-> One(n, f[n - 1])]
<1>1. \A n \in Levels : \A f \in VisitsOf(n - 1) : Level(n, f) \in VisitsOf(n)
  BY VisitTargetIs DEF VisitsOf
<1>2. b0 \in VisitsOf(0)
  <2>1. ASSUME NEW s \in Shapes[0], NEW u \in NameSets
        PROVE  Visited(s, u, {}) \in VisitRecords /\ WellVisited(0, s, u, Visited(s, u, {}))
    <3>1. s \in Shapes[Top]
      BY LevelsAre, ShapesWithin
    <3>2. Fresh(u, u, {}) /\ Alike(s, s)
      BY DEF Fresh, Alike
    <3>3. QED
      BY <3>1, <3>2 DEF Visited, VisitRecords, WellVisited
  <2>2. QED
    BY <2>1 DEF VisitsOf
<1>3. b0 \in S[0] /\ \A n \in Levels : S[n - 1] = VisitsOf(n - 1) /\ S[n] = VisitsOf(n)
  BY <1>2, LevelsAre
<1>4. \A n \in Levels : \A f \in S[n - 1] : G[n][f] \in S[n] /\ G[n][f] = Level(n, f)
  <2> HIDE DEF Level, S
  <2>1. QED
    BY <1>1, <1>3
<1>5. \A n \in 1 .. Top : \A f \in S[n - 1] : G[n][f] \in S[n]
  BY <1>4 DEF Levels
<1>6. \A f : One(0, f) = b0
  OBVIOUS
<1>7. \A n \in Levels : \A f : One(n, f) = Level(n, f)
  BY LevelsAre
<1> HIDE DEF One, Level, b0
<1>8. PICK f : Steps(f, Top, b0, G) /\ \A n \in 0 .. Top : f[n] \in S[n]
  <2> HIDE DEF S, G
  <2>1. QED
    BY <1>3, <1>5, LevelsAre, StepByStep
<1>9. ASSUME NEW n \in Depths PROVE f[n] = One(n, f[n - 1])
  <2>1. CASE n = 0
    <3>1. f[n] = b0
      BY <1>8, <2>1, LevelsAre DEF Steps
    <3>2. QED
      BY <1>6, <2>1, <3>1
  <2>2. CASE n # 0
    <3>1. n \in Levels
      BY <2>2, LevelsAre
    <3> HIDE DEF G, S
    <3>2. f[n] = G[n][f[n - 1]] /\ f[n - 1] \in S[n - 1]
      BY <1>8, <2>2, <3>1, LevelsAre DEF Steps
    <3>3. QED
      BY <1>4, <1>7, <3>1, <3>2
  <2>3. QED
    BY <2>1, <2>2
<1>10. Table(f)
  <2>1. f = [n \in 0 .. Top |-> f[n]]
    <3> HIDE DEF G
    <3>1. QED
      BY <1>8 DEF Steps
  <2>2. QED
    BY <1>9, <2>1, LevelsAre
<1>11. Table(Visit)
  <2>1. Visit = CHOOSE g : Table(g)
    BY DEF Visit, One
  <2> HIDE DEF Table
  <2>2. QED
    BY <1>10, <2>1
<1>12. \A n \in Depths : Visit[n] = One(n, Visit[n - 1])
  BY <1>11
<1> HIDE DEF Table
<1>13. \A n \in 0 .. Top : Visit[n] \in S[n]
  <2>1. Visit[0] = b0
    BY <1>6, <1>12, LevelsAre
  <2>2. \A n \in 1 .. Top : n \in Levels /\ n \in Depths
    BY LevelsAre DEF Levels
  <2>3. Visit[0] \in S[0] /\ \A n \in 1 .. Top : Visit[n - 1] \in S[n - 1] => Visit[n] = G[n][Visit[n - 1]]
    <3> HIDE DEF S, G
    <3>1. QED
      BY <1>3, <1>4, <1>7, <1>12, <2>1, <2>2
  <2> HIDE DEF S, G
  <2>4. QED
    BY <1>5, <2>3, LevelsAre, StepsStay
<1>14. \A n \in Depths : Visit[n] \in VisitsOf(n)
  BY <1>13, LevelsAre
<1>15. ASSUME NEW n \in Levels, NEW s \in Shapes[n], NEW p \in Preferred, NEW u \in NameSets
       PROVE  Visit[n][s][p][u] = VisitTarget(Visit[n - 1], s, p, u)
  <2>1. Visit[n] = Level(n, Visit[n - 1])
    BY <1>7, <1>12, LevelsAre
  <2>2. QED
    BY <2>1 DEF Level
<1>16. QED
  BY <1>14, <1>15

\* Shapes that are alike are unions but for null, and null, alike.
LEMMA AlikeNonNull ==
  ASSUME NEW n \in Depths, NEW s \in Shapes[n], NEW t \in Shapes[n], Alike(s, t)
  PROVE  /\ NonNull(s).kind = "union" <=> NonNull(t).kind = "union"
         /\ IsNullable(s) <=> IsNullable(t)
<1>1. IsNullable(s) <=> IsNullable(t)
  BY DEF Alike, IsNullable
<1> DEFINE a == FlattenUnion(s)
           b == FlattenUnion(t)
           I == DOMAIN a
<1>2. /\ NonNull(s).kind = "union" <=> \E i, j \in I : i # j /\ a[i].kind # "null" /\ a[j].kind # "null"
      /\ NonNull(t).kind = "union" <=> \E i, j \in DOMAIN b : i # j /\ b[i].kind # "null" /\ b[j].kind # "null"
  BY NonNullIs
<1>3. DOMAIN b = I /\ \A i \in I : a[i].kind = "null" <=> b[i].kind = "null"
  BY DEF Alike
<1> HIDE DEF a, b, I
<1>4. QED
  BY <1>1, <1>2, <1>3

\* A type that takes null besides reads null and what it has read before.
LEMMA OrNullReads ==
  ASSUME NEW types, NEW f, AcceptsTable(f, types), NEW k \in Levels, NEW v \in JsonValues[k], NEW n \in Levels, NEW x \in Shapes[n]
  PROVE  /\ OrNull(x) \in Shapes[n]
         /\ f[k][x][v] \/ v.kind = "null" => f[k][OrNull(x)][v]
<1> DEFINE P == Plain(Shapes[n - 1])
           a == FlattenUnion(x)
           null == Kind("null")
           both == a \o <<null>>
<1>1. a \in Seq(P) /\ null \in P
  BY Options, ShapesHave, PlainHas DEF Levels, LeafKinds
<1>2. null.kind = "null"
  BY DEF Kind
<1> HIDE DEF P, a, null
<1>3. both \in Seq(P)
  BY <1>1
<1>4. /\ \A i \in DOMAIN a : i \in DOMAIN both /\ both[i] = a[i]
      /\ Len(a) + 1 \in DOMAIN both /\ both[Len(a) + 1] = null
  BY <1>1
<1>5. OrNull(x) = Union(both) /\ FlattenUnion(Union(both)) = both
  BY DEF OrNull, FlattenUnion, Union, a, null
<1> HIDE DEF both
<1>6. Union(both) \in Shapes[n] /\ Union(both) \in Shapes[Top] /\ x \in Shapes[Top]
  BY <1>3, ShapesHave, ShapesWithin, LevelsAre DEF P, Levels
<1>7. /\ f[k][x][v] <=> Reads(f[k - 1], types, x, v)
      /\ f[k][Union(both)][v] <=> Reads(f[k - 1], types, Union(both), v)
  BY <1>6 DEF AcceptsTable
<1>8. ASSUME Reads(f[k - 1], types, x, v) PROVE Reads(f[k - 1], types, Union(both), v)
  BY <1>4, <1>5, <1>8 DEF Reads, a
<1>9. ASSUME v.kind = "null" PROVE Reads(f[k - 1], types, Union(both), v)
  <2>1. IsOf(f[k - 1], types, null, v)
    BY <1>2, <1>9 DEF IsOf
  <2>2. QED
    BY <1>4, <1>5, <2>1 DEF Reads
<1>10. QED
  BY <1>5, <1>6, <1>7, <1>8, <1>9

\* Rendering the null of a shape reads null, and loses nothing.
LEMMA NullablyReads ==
  ASSUME NEW types, NEW f, AcceptsTable(f, types), NEW k \in Levels, NEW v \in JsonValues[k], NEW n \in Levels, NEW x \in Shapes[n],
         NEW lang, NEW shape
  PROVE  f[k][x][v] \/ (IsNullable(shape) /\ v.kind = "null") => f[k][Nullably(lang, shape, x)][v]
BY OrNullReads DEF Nullably

\* Rendering the null of a shape nests no deeper.
LEMMA NullablyIs ==
  ASSUME NEW n \in Levels, NEW x \in Shapes[n], NEW lang, NEW shape
  PROVE  Nullably(lang, shape, x) \in Shapes[n] /\ OrNull(x) \in Shapes[n]
<1>1. FlattenUnion(x) \in Seq(Plain(Shapes[n - 1])) /\ <<Kind("null")>> \in Seq(Plain(Shapes[n - 1]))
  BY Options, ShapesHave, PlainHas DEF Levels, LeafKinds
<1>2. FlattenUnion(x) \o <<Kind("null")>> \in Seq(Plain(Shapes[n - 1]))
  BY <1>1, ConcatProperties
<1>3. OrNull(x) \in Shapes[n]
  BY <1>2, ShapesHave DEF OrNull, Levels
<1>4. QED
  BY <1>3 DEF Nullably

-------------------------------------------------------------------------------
(* What is declared for a shape reads what the shape describes. *)

\* No two types share a name.
OneOfAName(types) == \A t1, t2 \in types : t1.name = t2.name => t1 = t2

\* What is rendered of a visited shape reads what the shape inferred describes.
ReadsBack(lang, types, s, shape) ==
  \A f : AcceptsTable(f, Declared(lang, types)) =>
    \A k \in Levels : \A v \in JsonValues[k] : Describes[k][s][v] => f[k][Render(lang, shape)][v]

\* That holds of a level: of every shape, however it was named, once its types are declared.
Renders(n) ==
  \A s \in Shapes[n], p \in Preferred, u \in NameSets : \A lang, types :
    LET r == Visit[n][s][p][u]
    IN /\ r.types \subseteq types /\ OneOfAName(types)
       /\ lang = "typescript" => ~ListsAUnion[n][s]
       => /\ RendersBase(lang)[r.shape] \in Shapes[n + 1]
          /\ RendersBase(lang)[r.shape].kind = "union" => NonNull(r.shape).kind = "union"
          /\ ReadsBack(lang, types, s, r.shape)

\* The fields of a declared type read the records their shapes fit.
LEMMA FieldsRender ==
  ASSUME NEW n \in Levels, Renders(n - 1), NEW lang, NEW types, OneOfAName(types), NEW t \in types,
         NEW fields \in FieldsOver(Shapes[n - 1]), t.fields \in FieldsOver(Shapes[n - 1]),
         \A key \in Keys : FieldVisited(Visit[n - 1], fields, key, t.fields, types),
         lang = "typescript" => \A key \in Keys : HasField(fields, key) => ~ListsAUnion[n - 1][fields[key].shape],
         NEW f, AcceptsTable(f, Declared(lang, types)), NEW k \in Levels, NEW v \in JsonValues[k], v.kind = "object",
         Fits(Describes[k - 1], fields, v.fields)
  PROVE  IsOf(f[k - 1], Declared(lang, types), Named(t.name), v)
<1> DEFINE One(x) ==
             [key \in Keys |->
                IF HasField(x.fields, key)
                  THEN Field(FieldType(lang, x.fields[key]), ~MayBeAbsent(lang, x.fields[key]))
                  ELSE Field(Absent, FALSE)]
           d == [name |-> t.name, fields |-> One(t)]
           all == Declared(lang, types)
<1>1. all = {[name |-> x.name, fields |-> One(x)] : x \in types}
  BY DEF Declared
<1>2. d \in all /\ d.name = t.name /\ d.fields = One(t)
  BY <1>1
<1>3. \A e \in all : e.name = t.name => e.fields = One(t)
  <2> HIDE DEF One
  <2>1. SUFFICES ASSUME NEW e \in all, e.name = t.name PROVE e.fields = One(t)
    OBVIOUS
  <2> HIDE DEF all
  <2>2. PICK x \in types : e = [name |-> x.name, fields |-> One(x)]
    BY <1>1
  <2>3. x = t
    BY <2>1, <2>2 DEF OneOfAName
  <2>4. QED
    BY <2>2, <2>3
<1>4. ASSUME NEW key \in Keys
      PROVE  IF v.fields[key] = Absent THEN ~One(t)[key].required
             ELSE HasField(One(t), key) /\ f[k - 1][One(t)[key].shape][v.fields[key]]
  <2> DEFINE field == t.fields[key]
             type == FieldType(lang, field)
             w == v.fields[key]
  <2>1. One(t)[key] = IF HasField(t.fields, key) THEN Field(type, ~MayBeAbsent(lang, field)) ELSE Field(Absent, FALSE)
    OBVIOUS
  <2>2. FieldVisited(Visit[n - 1], fields, key, t.fields, types)
    OBVIOUS
  <2>3. CASE w = Absent
    <3>1. ~fields[key].required
      BY <2>3 DEF Fits
    <3>2. ~field.required
      BY <2>2, <3>1 DEF FieldVisited
    <3>3. MayBeAbsent(lang, field) = TRUE
      BY <3>2 DEF MayBeAbsent
    <3>4. One(t)[key].required = FALSE
      <4>1. \A shape, required : Field(shape, required).required = required
        BY DEF Field
      <4>2. (~MayBeAbsent(lang, field)) = FALSE
        BY <3>3
      <4>3. One(t)[key].required = IF HasField(t.fields, key) THEN ~MayBeAbsent(lang, field) ELSE FALSE
        <5> HIDE DEF One, type
        <5>1. CASE HasField(t.fields, key)
          <6>1. One(t)[key] = Field(type, ~MayBeAbsent(lang, field))
            BY <2>1, <5>1
          <6>2. QED
            BY <4>1, <5>1, <6>1
        <5>2. CASE ~HasField(t.fields, key)
          <6>1. One(t)[key] = Field(Absent, FALSE)
            BY <2>1, <5>2
          <6>2. QED
            BY <4>1, <5>2, <6>1
        <5>3. QED
          BY <5>1, <5>2
      <4> HIDE DEF One, field, type
      <4>4. QED
        BY <4>2, <4>3
    <3> HIDE DEF One
    <3>5. QED
      BY <2>3, <3>4
  <2>4. CASE w # Absent
    <3>1. HasField(fields, key) /\ Describes[k - 1][fields[key].shape][w]
      BY <2>4 DEF Fits
    <3>2. w \in JsonValues[k - 1] /\ fields[key].shape \in Shapes[n - 1]
      <4>1. v.fields \in [Keys -> JsonValues[k - 1] \cup {Absent}]
        BY ValueIs, LevelsAre
      <4>2. QED
        BY <2>4, <3>1, <4>1, FieldIs
    <3>3. k - 1 \in Levels
      <4>1. k - 1 # 0
        BY <3>2, LevelsAre
      <4>2. QED
        BY <4>1, LevelsAre
    <3> DEFINE s == fields[key].shape
    <3>4. PICK taken \in NameSets :
            field.shape = Visit[n - 1][s][ByKey(key)][taken].shape /\ Visit[n - 1][s][ByKey(key)][taken].types \subseteq types
      BY <2>2, <3>1 DEF FieldVisited
    <3> DEFINE r == Visit[n - 1][s][ByKey(key)][taken]
    <3>5. ByKey(key) \in Preferred
      BY TypeGenerationAssumption DEF ByKey, Preferred
    <3>6. r.shape \in Shapes[n - 1] /\ field.shape = r.shape /\ n - 1 \in Depths
      <4>1. n - 1 \in Depths /\ Visit[n - 1] \in VisitsOf(n - 1)
        BY VisitsAre, LevelsAre
      <4>2. WellVisited(n - 1, s, taken, r)
        BY <3>2, <3>5, <4>1, VisitIs
      <4>3. QED
        BY <3>4, <4>1, <4>2 DEF WellVisited
    <3>7. HasField(t.fields, key)
      BY <3>6, ShapesGrow DEF HasField
    <3>8. /\ RendersBase(lang)[r.shape] \in Shapes[n - 1 + 1]
          /\ ReadsBack(lang, types, s, r.shape)
      <4>1. lang = "typescript" => ~ListsAUnion[n - 1][s]
        BY <3>1
      <4>2. s \in Shapes[n - 1] /\ r.types \subseteq types
        BY <3>2, <3>4
      <4> HIDE DEF s
      <4>3. QED
        BY <3>5, <4>1, <4>2 DEF Renders
    <3>9. n - 1 + 1 = n
      BY LevelsAre DEF Levels
    <3> HIDE DEF r, s, w
    <3>10. Render(lang, r.shape) \in Shapes[n]
      BY <3>8, <3>9, NullablyIs DEF Render, RendersBase
    <3>11. f[k - 1][Render(lang, r.shape)][w]
      BY <3>1, <3>2, <3>3, <3>8 DEF ReadsBack, s
    <3>12. type \in Shapes[n] /\ f[k - 1][type][w]
      <4>1. OrNull(Render(lang, r.shape)) \in Shapes[n] /\ f[k - 1][OrNull(Render(lang, r.shape))][w]
        BY <3>2, <3>3, <3>10, <3>11, OrNullReads
      <4>2. type \in {Render(lang, r.shape), OrNull(Render(lang, r.shape))}
        BY <3>6 DEF FieldType
      <4> HIDE DEF type
      <4>3. QED
        BY <3>10, <3>11, <4>1, <4>2
    <3>13. type # Absent
      BY <3>12, LevelsAre, ShapesGrow
    <3> HIDE DEF type, One, field
    <3>14. One(t)[key].shape = type
      BY <2>1, <3>7 DEF Field
    <3>15. QED
      BY <2>4, <3>12, <3>13, <3>14 DEF HasField, w
  <2>5. QED
    BY <2>3, <2>4
<1> HIDE DEF One
<1>5. Fits(f[k - 1], One(t), v.fields)
  BY <1>4 DEF Fits
<1> HIDE DEF d, all
<1>6. \A e \in all : e.name = t.name => Fits(f[k - 1], e.fields, v.fields)
  BY <1>3, <1>5
<1>7. QED
  BY <1>2, <1>6 DEF IsOf, Named, all

\* Whether an option lists a union.
ListsOption(lists, option) ==
  CASE option.kind = "array" ->
         \/ NonNull(option.items).kind = "union" /\ ~IsNullable(option.items)
         \/ lists[option.items]
    [] option.kind = "object" ->
         \E key \in Keys : HasField(option.fields, key) /\ lists[option.fields[key].shape]
    [] OTHER -> FALSE

\* What an option is rendered as, and that it reads what the option describes.
LEMMA PartRenders ==
  ASSUME NEW n \in Levels, Renders(n - 1), NEW lang, NEW types, OneOfAName(types), NEW o \in Plain(Shapes[n - 1]),
         NEW part, part.shape \in Plain(Shapes[n - 1]), part.types \subseteq types, PartVisited(n, Visit[n - 1], o, part),
         lang = "typescript" => ~ListsOption(ListsAUnion[n - 1], o)
  PROVE  LET t == RenderPlain(RendersBase(lang), lang, part.shape)
         IN /\ t \in Plain(Shapes[n]) /\ (o.kind # "array" => t \in Plain({}))
            /\ \A f : AcceptsTable(f, Declared(lang, types)) =>
                 \A k \in Levels : \A v \in JsonValues[k] :
                   IsOf(Describes[k - 1], {}, o, v) => IsOf(f[k - 1], Declared(lang, types), t, v)
<1> DEFINE base == RendersBase(lang)
           t == RenderPlain(base, lang, part.shape)
           all == Declared(lang, types)
<1>1. n - 1 \in Depths /\ Visit[n - 1] \in VisitsOf(n - 1) /\ n - 1 + 1 = n
  BY VisitsAre, LevelsAre DEF Levels
<1>2. CASE o.kind = "array"
  <2>1. PICK q \in Preferred, taken \in NameSets :
          /\ part.shape = List(Visit[n - 1][o.items][q][taken].shape)
          /\ Visit[n - 1][o.items][q][taken].types \subseteq part.types
    BY <1>2 DEF PartVisited
  <2> DEFINE items == o.items
             inner == Visit[n - 1][items][q][taken]
  <2>2. items \in Shapes[n - 1]
    BY <1>2, PlainIs
  <2>3. WellVisited(n - 1, items, taken, inner)
    BY <1>1, <2>2, VisitIs
  <2>4. inner.shape \in Shapes[n - 1] /\ (NonNull(items).kind = "union" <=> NonNull(inner.shape).kind = "union")
        /\ (IsNullable(items) <=> IsNullable(inner.shape))
    BY <1>1, <2>2, <2>3, AlikeNonNull DEF WellVisited
  <2>5. lang = "typescript" => ~(NonNull(items).kind = "union" /\ ~IsNullable(items)) /\ ~ListsAUnion[n - 1][items]
    BY <1>2 DEF ListsOption
  <2>6. /\ base[inner.shape] \in Shapes[n - 1 + 1]
        /\ base[inner.shape].kind = "union" => NonNull(inner.shape).kind = "union"
        /\ ReadsBack(lang, types, items, inner.shape)
    <3>1. inner.types \subseteq types
      BY <2>1
    <3> HIDE DEF items
    <3>2. QED
      BY <2>2, <2>5, <3>1 DEF Renders
  <2>7. base[inner.shape] \in Shapes[n]
    BY <1>1, <2>6
  <2>8. part.shape.kind = "array" /\ part.shape.items = inner.shape
    <3>1. part.shape = List(inner.shape)
      BY <2>1
    <3> HIDE DEF inner
    <3>2. QED
      BY <3>1 DEF List
  <2> HIDE DEF inner, items, base
  <2>9. t = List(Nullably(lang, inner.shape, base[inner.shape]))
    BY <2>4, <2>5, <2>6, <2>8 DEF RenderPlain
  <2> DEFINE type == Render(lang, inner.shape)
  <2>10. t = List(type)
    BY <2>9 DEF Render, base, RendersBase
  <2>11. type \in Shapes[n]
    BY <2>7, NullablyIs DEF Render, base, RendersBase
  <2> HIDE DEF type
  <2>12. t \in Plain(Shapes[n])
    BY <2>10, <2>11, PlainHas
  <2>13. ASSUME NEW f, AcceptsTable(f, all), NEW k \in Levels, NEW v \in JsonValues[k], IsOf(Describes[k - 1], {}, o, v)
         PROVE  IsOf(f[k - 1], all, t, v)
    <3>1. v.kind = "array" /\ \A i \in DOMAIN v.items : Describes[k - 1][items][v.items[i]]
      BY <1>2, <2>13 DEF IsOf, items
    <3>2. \A i \in DOMAIN v.items : v.items[i] \in JsonValues[k - 1]
      BY <3>1, ValueIs, LevelsAre
    <3>3. ASSUME NEW i \in DOMAIN v.items PROVE f[k - 1][type][v.items[i]]
      <4>1. k - 1 \in Levels
        <5>1. k - 1 # 0
          BY <3>2, LevelsAre
        <5>2. QED
          BY <5>1, LevelsAre
      <4>2. QED
        BY <2>6, <2>13, <3>1, <3>2, <4>1 DEF ReadsBack, type
    <3>4. t.kind = "array" /\ t.items = type
      BY <2>10 DEF List
    <3> HIDE DEF t
    <3>5. QED
      BY <3>1, <3>3, <3>4 DEF IsOf
  <2>14. QED
    BY <1>2, <2>12, <2>13 DEF base
<1>3. CASE o.kind = "object"
  <2>1. PICK x \in part.types : /\ part.shape = Named(x.name) /\ x.fields \in FieldsOver(Shapes[n - 1])
                                /\ \A key \in Keys : FieldVisited(Visit[n - 1], o.fields, key, x.fields, part.types)
    BY <1>3 DEF PartVisited
  <2>2. t = Named(x.name)
    BY <2>1 DEF RenderPlain, Named
  <2>3. x.name \in TypeNames
    <3>1. part.shape.kind = "named" /\ part.shape.name = x.name
      BY <2>1 DEF Named
    <3>2. QED
      BY <3>1, PlainIs
  <2>4. t \in Plain({}) /\ t \in Plain(Shapes[n])
    BY <2>2, <2>3, PlainHas
  <2>5. o.fields \in FieldsOver(Shapes[n - 1]) /\ x \in types
    BY <1>3, PlainIs
  <2>6. \A key \in Keys : FieldVisited(Visit[n - 1], o.fields, key, x.fields, types)
    BY <2>1, FieldVisitedGrows
  <2>7. lang = "typescript" => \A key \in Keys : HasField(o.fields, key) => ~ListsAUnion[n - 1][o.fields[key].shape]
    BY <1>3 DEF ListsOption
  <2>8. ASSUME NEW f, AcceptsTable(f, all), NEW k \in Levels, NEW v \in JsonValues[k], IsOf(Describes[k - 1], {}, o, v)
        PROVE  IsOf(f[k - 1], all, t, v)
    <3>1. v.kind = "object" /\ Fits(Describes[k - 1], o.fields, v.fields)
      BY <1>3, <2>8 DEF IsOf
    <3> DEFINE fields == o.fields
    <3>2. /\ fields \in FieldsOver(Shapes[n - 1]) /\ \A key \in Keys : FieldVisited(Visit[n - 1], fields, key, x.fields, types)
          /\ lang = "typescript" => \A key \in Keys : HasField(fields, key) => ~ListsAUnion[n - 1][fields[key].shape]
          /\ Fits(Describes[k - 1], fields, v.fields)
      BY <2>5, <2>6, <2>7, <3>1
    <3> HIDE DEF fields
    <3>3. IsOf(f[k - 1], all, Named(x.name), v)
      BY <2>1, <2>5, <2>8, <3>1, <3>2, FieldsRender
    <3>4. QED
      BY <2>2, <3>3
  <2>9. QED
    BY <1>3, <2>4, <2>8
<1>4. CASE o.kind \notin {"array", "object"}
  <2>1. part.shape = o /\ o.kind \in LeafKinds \cup {"unknown", "named"}
    BY <1>4, PlainIs DEF PartVisited
  <2>2. o \in Plain({})
    BY <1>4, <2>1, PlainIs, PlainHas DEF Unknown
  <2>3. t = o \/ (o.kind = "integer" /\ t = Kind("number"))
    BY <1>4, <2>1 DEF RenderPlain
  <2>4. t \in Plain({})
    BY <2>2, <2>3, PlainHas DEF LeafKinds
  <2>5. t \in Plain(Shapes[n])
    BY <2>4, PlainGrows
  <2>6. ASSUME NEW f, NEW k \in Levels, NEW v \in JsonValues[k], IsOf(Describes[k - 1], {}, o, v)
        PROVE  IsOf(f[k - 1], all, t, v)
    <3>1. CASE o.kind \in {"unknown", "named"}
      <4>1. v.kind # "unknown"
        BY ValueIs, LevelsAre DEF LeafKinds
      <4>2. QED
        BY <2>6, <3>1, <4>1 DEF IsOf
    <3>2. CASE o.kind \in LeafKinds
      <4> HIDE DEF t
      <4>1. Kind("number").kind = "number"
        BY DEF Kind
      <4>2. QED
        BY <2>3, <2>6, <3>2, <4>1 DEF IsOf, LeafKinds
    <3>3. QED
      BY <2>1, <3>1, <3>2
  <2>7. QED
    BY <2>4, <2>5, <2>6
<1>5. QED
  BY <1>2, <1>3, <1>4

\* What a shape is rendered as, from what its options are; and that it reads what
\* the shape describes.
LEMMA TargetRenders ==
  ASSUME NEW n \in Levels, Renders(n - 1), NEW lang, NEW types, OneOfAName(types),
         NEW s \in Shapes[n], NEW p \in Preferred, NEW u \in NameSets, Visit[n][s][p][u].types \subseteq types,
         lang = "typescript" => ~ListsAUnion[n][s],
         NEW W, W \subseteq Shapes[Top - 1],
         W = Shapes[n] \/ (W = {} /\ \A i \in DOMAIN FlattenUnion(s) : FlattenUnion(s)[i].kind # "array")
  PROVE  LET shape == Visit[n][s][p][u].shape
         IN /\ RendersBase(lang)[shape] \in ShapesInside(W)
            /\ RendersBase(lang)[shape].kind = "union" => NonNull(shape).kind = "union"
            /\ ReadsBack(lang, types, s, shape)
<1> DEFINE r == Visit[n][s][p][u]
           x == r.shape
           base == RendersBase(lang)
           all == Declared(lang, types)
           a == FlattenUnion(s)
           b == FlattenUnion(x)
           t(i) == RenderPlain(base, lang, b[i])
           nn == NonNull(x)
<1>1. n \in Depths /\ n - 1 \in Depths /\ Visit[n - 1] \in VisitsOf(n - 1) /\ r = VisitTarget(Visit[n - 1], s, p, u)
  BY VisitsAre, LevelsAre
<1>2. /\ WellVisited(n, s, u, r) /\ \A i \in DOMAIN a : OptionVisited(Visit[n - 1], s, i, r)
  BY <1>1, VisitTargetIs
<1>3. x \in Shapes[n] /\ Alike(s, x) /\ x \in Shapes[Top] /\ s \in Shapes[Top]
  BY <1>1, <1>2, ShapesWithin DEF WellVisited
<1>4. a \in Seq(Plain(Shapes[n - 1])) /\ \A i \in DOMAIN a : a[i] \in Plain(Shapes[n - 1])
  BY Options, ShapesHave DEF Levels
<1>5. ASSUME NEW i \in DOMAIN a
      PROVE  /\ t(i) \in Plain(W)
             /\ \A f : AcceptsTable(f, all) => \A k \in Levels : \A v \in JsonValues[k] :
                  IsOf(Describes[k - 1], {}, a[i], v) => IsOf(f[k - 1], all, t(i), v)
  <2>1. PICK q \in Preferred, taken \in NameSets :
          /\ b[i] = VisitPlain(Visit[n - 1], a[i], q, taken).shape
          /\ VisitPlain(Visit[n - 1], a[i], q, taken).types \subseteq r.types
    BY <1>2 DEF OptionVisited
  <2> DEFINE o == a[i]
             part == VisitPlain(Visit[n - 1], o, q, taken)
  <2>2. o \in Plain(Shapes[n - 1])
    BY <1>4
  <2>3. part.shape \in Plain(Shapes[n - 1]) /\ PartVisited(n, Visit[n - 1], o, part)
    BY <1>1, <2>2, VisitPlainIs
  <2>4. part.types \subseteq types /\ b[i] = part.shape
    BY <2>1
  <2>5. lang = "typescript" => ~ListsOption(ListsAUnion[n - 1], o)
    <3>1. lang = "typescript" => ~ListsOne(ListsAUnion[n - 1], s)
      BY ListsAre
    <3>2. ListsOption(ListsAUnion[n - 1], o) => ListsOne(ListsAUnion[n - 1], s)
      BY DEF ListsOne, ListsOption
    <3>3. QED
      BY <3>1, <3>2
  <2> HIDE DEF part
  <2>6. o.kind # "array" \/ W = Shapes[n]
    OBVIOUS
  <2> HIDE DEF o, base, all, b
  <2> DEFINE tp == RenderPlain(base, lang, part.shape)
  <2>7. /\ tp \in Plain(Shapes[n]) /\ (o.kind # "array" => tp \in Plain({}))
        /\ \A f : AcceptsTable(f, all) => \A k \in Levels : \A v \in JsonValues[k] :
             IsOf(Describes[k - 1], {}, o, v) => IsOf(f[k - 1], all, tp, v)
    BY <2>2, <2>3, <2>4, <2>5, PartRenders DEF base, all
  <2>8. Plain({}) \subseteq Plain(W)
    BY PlainGrows
  <2>9. t(i) = tp
    BY <2>4
  <2> HIDE DEF tp, t
  <2>10. t(i) \in Plain(W)
    BY <2>6, <2>7, <2>8, <2>9
  <2>11. QED
    BY <2>7, <2>9, <2>10 DEF o
<1>6. DOMAIN b = DOMAIN a /\ \A i \in DOMAIN a : a[i].kind = "null" <=> b[i].kind = "null"
  BY <1>3 DEF Alike
<1>7. base[x] = RenderTarget(base, lang, nn)
  BY <1>3, BaseAtTop
<1>8. /\ nn.kind = "union" =>
           /\ nn.options \in Seq(Plain(Shapes[n - 1]))
           /\ \A i \in DOMAIN b : b[i].kind # "null" => \E j \in DOMAIN nn.options : nn.options[j] = b[i]
           /\ \A j \in DOMAIN nn.options : \E i \in DOMAIN b : nn.options[j] = b[i]
      /\ nn.kind # "union" =>
           /\ nn = Unknown \/ \E i \in DOMAIN b : nn = b[i]
           /\ \A i \in DOMAIN b : b[i].kind # "null" => nn = b[i]
  <2>1. Below(n) = Shapes[n - 1]
    BY ShapesHave DEF Levels
  <2>2. QED
    BY <1>1, <1>3, <2>1, NonNullIs
<1>9. IsNullable(x) <=> \E i \in DOMAIN b : b[i].kind = "null"
  BY DEF IsNullable
<1>10. Unknown \in Plain(W) /\ RenderPlain(base, lang, Unknown) = Unknown /\ Unknown.kind = "unknown"
  BY PlainHas DEF RenderPlain, Unknown, Kind
<1>11. \A y \in Plain(W) : y.kind # "union" /\ FlattenUnion(y) = <<y>>
  BY PlainIs DEF LeafKinds, FlattenUnion
<1> DEFINE Result == /\ base[x] \in ShapesInside(W)
                     /\ base[x].kind = "union" => nn.kind = "union"
                     /\ \A i \in DOMAIN b : b[i].kind # "null" =>
                          \E j \in DOMAIN FlattenUnion(base[x]) :
                            FlattenUnion(base[x])[j].kind = "unknown" \/ FlattenUnion(base[x])[j] = t(i)
<1> HIDE DEF nn, b, a, x, base, r
<1>12. Result
  <2>1. CASE nn.kind # "union"
    <3>1. base[x] = RenderPlain(base, lang, nn)
      BY <1>7, <2>1 DEF RenderTarget
    <3>2. base[x] = Unknown \/ \E i \in DOMAIN b : base[x] = t(i)
      BY <1>8, <1>10, <2>1, <3>1
    <3>3. \A i \in DOMAIN b : b[i].kind # "null" => base[x] = t(i)
      BY <1>8, <2>1, <3>1
    <3> HIDE DEF t
    <3>4. base[x] \in Plain(W)
      BY <1>5, <1>6, <1>10, <3>2
    <3>5. base[x].kind # "union" /\ FlattenUnion(base[x]) = <<base[x]>> /\ base[x] \in ShapesInside(W)
      BY <1>11, <3>4 DEF ShapesInside
    <3>6. DOMAIN FlattenUnion(base[x]) = {1} /\ FlattenUnion(base[x])[1] = base[x]
      BY <3>5
    <3>7. QED
      BY <3>3, <3>5, <3>6
  <2>2. CASE nn.kind = "union" /\ lang \in {"typescript", "python"}
    <3> DEFINE types1 == [j \in DOMAIN nn.options |-> RenderPlain(base, lang, nn.options[j])]
    <3>1. base[x] = Union(types1)
      BY <1>7, <2>2 DEF RenderTarget
    <3>2. DOMAIN nn.options = 1 .. Len(nn.options) /\ Len(nn.options) \in Nat
      BY <1>8, <2>2, LenProperties
    <3>3. \A j \in DOMAIN nn.options : RenderPlain(base, lang, nn.options[j]) \in Plain(W)
      BY <1>5, <1>6, <1>8, <2>2
    <3>4. types1 \in Seq(Plain(W))
      BY <3>2, <3>3
    <3>5. \A i \in DOMAIN b : b[i].kind # "null" => \E j \in DOMAIN types1 : types1[j] = t(i)
      BY <1>8, <2>2
    <3> HIDE DEF types1, t
    <3>6. base[x] \in ShapesInside(W) /\ FlattenUnion(base[x]) = types1
      BY <3>1, <3>4 DEF ShapesInside, Union, FlattenUnion
    <3>7. QED
      BY <2>2, <3>5, <3>6
  <2>3. CASE nn.kind = "union" /\ lang \notin {"typescript", "python"}
    <3>1. base[x] = Unknown
      BY <1>7, <2>3 DEF RenderTarget
    <3>2. FlattenUnion(base[x]) = <<base[x]>> /\ base[x].kind = "unknown" /\ base[x] \in ShapesInside(W)
      BY <1>10, <1>11, <3>1 DEF ShapesInside
    <3>3. DOMAIN FlattenUnion(base[x]) = {1} /\ FlattenUnion(base[x])[1] = base[x]
      BY <3>2
    <3>4. QED
      BY <2>3, <3>2, <3>3
  <2>4. QED
    BY <2>1, <2>2, <2>3
<1>13. ShapesInside(W) \subseteq Shapes[Top] /\ Top \in Levels
  <2>1. Top \in Levels /\ Top \in 1 .. Top
    BY DepthsAre DEF Levels
  <2>2. Plain(W) \subseteq Plain(Shapes[Top - 1])
    BY PlainGrows
  <2>3. Shapes[Top] = ShapesInside(Shapes[Top - 1])
    BY <2>1, ShapesAre
  <2>4. Seq(Plain(W)) \subseteq Seq(Plain(Shapes[Top - 1]))
    BY <2>2
  <2>5. [kind : {"union"}, options : Seq(Plain(W))] \subseteq [kind : {"union"}, options : Seq(Plain(Shapes[Top - 1]))]
    BY <2>4
  <2>6. QED
    BY <2>1, <2>2, <2>3, <2>5 DEF ShapesInside
<1>14. ASSUME NEW f, AcceptsTable(f, all), NEW k \in Levels, NEW v \in JsonValues[k], Describes[k][s][v]
       PROVE  f[k][Render(lang, x)][v]
  <2>1. PICK i \in DOMAIN a : IsOf(Describes[k - 1], {}, a[i], v)
    BY <1>3, <1>14, DescribesIs DEF a
  <2>2. a[i].kind = "null" <=> v.kind = "null"
    <3>1. v.kind # "unknown"
      BY ValueIs, LevelsAre DEF LeafKinds
    <3>2. a[i].kind \in LeafKinds \cup {"unknown", "named", "array", "object"}
      BY <1>4, PlainIs DEF LeafKinds
    <3>3. QED
      BY <2>1, <3>1, <3>2 DEF IsOf, LeafKinds
  <2>3. base[x] \in Shapes[Top]
    BY <1>12, <1>13
  <2>4. Render(lang, x) = Nullably(lang, x, base[x])
    BY DEF Render, base, RendersBase
  <2>5. CASE v.kind = "null"
    <3>1. IsNullable(x)
      BY <1>6, <1>9, <2>1, <2>2, <2>5
    <3>2. QED
      BY <1>13, <1>14, <2>3, <2>4, <2>5, <3>1, NullablyReads
  <2>6. CASE v.kind # "null"
    <3>1. b[i].kind # "null" /\ i \in DOMAIN b
      BY <1>6, <2>1, <2>2, <2>6
    <3> HIDE DEF t
    <3>2. PICK j \in DOMAIN FlattenUnion(base[x]) :
            FlattenUnion(base[x])[j].kind = "unknown" \/ FlattenUnion(base[x])[j] = t(i)
      BY <1>12, <3>1
    <3>3. IsOf(f[k - 1], all, t(i), v)
      BY <1>5, <1>14, <2>1
    <3>4. Reads(f[k - 1], all, base[x], v)
      BY <3>2, <3>3 DEF Reads
    <3>5. f[k][base[x]][v]
      BY <1>14, <2>3, <3>4 DEF AcceptsTable
    <3>6. QED
      BY <1>13, <1>14, <2>3, <2>4, <3>5, NullablyReads
  <2>7. QED
    BY <2>5, <2>6
<1>15. ReadsBack(lang, types, s, x)
  BY <1>14 DEF ReadsBack, all
<1>16. QED
  BY <1>12, <1>15 DEF x, r, base, nn

\* What is declared for a shape of a level below the top reads what it describes.
LEMMA AllRender ==
  \A n \in 0 .. Top - 1 : Renders(n)
<1> DEFINE T == {n \in 0 .. Top - 1 : Renders(n)}
<1>1. Top - 1 \in Nat /\ 0 \in 0 .. Top - 1 /\ 1 \in Levels /\ 0 \in Depths
  BY DepthsAre DEF Levels
<1>2. Renders(0)
  <2>1. SUFFICES ASSUME NEW s \in Shapes[0], NEW p \in Preferred, NEW u \in NameSets, NEW lang, NEW types
                 PROVE  LET r == Visit[0][s][p][u]
                        IN /\ RendersBase(lang)[r.shape] \in Shapes[0 + 1]
                           /\ RendersBase(lang)[r.shape].kind = "union" => NonNull(r.shape).kind = "union"
                           /\ ReadsBack(lang, types, s, r.shape)
    BY DEF Renders
  <2> DEFINE x == Visit[0][s][p][u].shape
  <2>2. x \in Shapes[0]
    <3>1. Visit[0] \in VisitsOf(0)
      BY <1>1, VisitsAre
    <3>2. WellVisited(0, s, u, Visit[0][s][p][u])
      BY <1>1, <3>1, VisitIs
    <3>3. QED
      BY <3>2 DEF WellVisited
  <2> HIDE DEF x
  <2>3. s = Unknown /\ x = Unknown /\ Unknown \in Shapes[0] /\ Unknown \in Shapes[Top] /\ Unknown \in Shapes[1] /\ Unknown.kind = "unknown"
    BY <1>1, <2>2, ShapesAre, ShapesGrow, DepthsAre, LevelsAre DEF Unknown, Kind
  <2>4. FlattenUnion(Unknown) = <<Unknown>>
    BY <2>3 DEF FlattenUnion
  <2>5. NonNull(Unknown) = Unknown
    BY <1>1, <2>3, <2>4, NonNullIs
  <2>6. RendersBase(lang)[Unknown] = Unknown
    <3>1. RenderTarget(RendersBase(lang), lang, Unknown) = Unknown
      BY <2>3 DEF RenderTarget, RenderPlain
    <3>2. QED
      BY <2>3, <2>5, <3>1, BaseAtTop
  <2>7. \A k \in Levels : \A v \in JsonValues[k] : ~Describes[k][s][v]
    <3>1. SUFFICES ASSUME NEW k \in Levels, NEW v \in JsonValues[k] PROVE ~Describes[k][s][v]
      OBVIOUS
    <3>2. v.kind # "unknown"
      BY ValueIs, LevelsAre DEF LeafKinds
    <3>3. ~IsOf(Describes[k - 1], {}, Unknown, v)
      BY <2>3, <3>2 DEF IsOf
    <3>4. QED
      BY <2>3, <3>3, PlainDescribes
  <2>8. ReadsBack(lang, types, s, x)
    BY <2>7 DEF ReadsBack
  <2>9. 0 + 1 = 1
    OBVIOUS
  <2>10. QED
    BY <2>3, <2>6, <2>8, <2>9 DEF x
<1>3. ASSUME NEW n \in 1 .. Top - 1, n - 1 \in T PROVE n \in T
  <2>1. n \in Levels /\ n + 1 \in 1 .. Top /\ n + 1 - 1 = n /\ n \in 0 .. Top - 1 /\ Top - 1 \in Depths
    BY DepthsAre DEF Levels
  <2>2. Shapes[n] \subseteq Shapes[Top - 1] /\ Shapes[n + 1] = ShapesInside(Shapes[n])
    <3>1. Shapes[n + 1] = ShapesInside(Shapes[n + 1 - 1])
      BY <2>1, ShapesAre
    <3>2. QED
      BY <2>1, <3>1, ShapesGrow
  <2>3. Renders(n - 1)
    BY <1>3
  <2>4. Renders(n)
    <3>1. SUFFICES ASSUME NEW s \in Shapes[n], NEW p \in Preferred, NEW u \in NameSets, NEW lang, NEW types,
                          Visit[n][s][p][u].types \subseteq types, OneOfAName(types), lang = "typescript" => ~ListsAUnion[n][s]
                   PROVE  LET r == Visit[n][s][p][u]
                          IN /\ RendersBase(lang)[r.shape] \in Shapes[n + 1]
                             /\ RendersBase(lang)[r.shape].kind = "union" => NonNull(r.shape).kind = "union"
                             /\ ReadsBack(lang, types, s, r.shape)
      BY DEF Renders
    <3> DEFINE W == Shapes[n]
    <3>2. W \subseteq Shapes[Top - 1] /\ W = Shapes[n]
      BY <2>2
    <3> HIDE DEF W
    <3>3. LET shape == Visit[n][s][p][u].shape
          IN /\ RendersBase(lang)[shape] \in ShapesInside(W)
             /\ RendersBase(lang)[shape].kind = "union" => NonNull(shape).kind = "union"
             /\ ReadsBack(lang, types, s, shape)
      BY <2>1, <2>3, <3>1, <3>2, TargetRenders
    <3>4. QED
      BY <2>2, <3>2, <3>3
  <2>5. QED
    BY <2>1, <2>4
<1>4. \A n \in 0 .. Top - 1 : n \in T
  <2>1. 0 \in T
    BY <1>1, <1>2
  <2> HIDE DEF T
  <2>2. QED
    BY <1>1, <1>3, <2>1, UpTo
<1>5. QED
  BY <1>4

\* What was declared for a sample that is no list reads it.
LEMMA RootReads ==
  ASSUME NEW v \in JsonValues[Top], NEW lang, NEW name \in RootNames, v.kind # "array",
         ~Forgotten[Top][v], lang = "typescript" => ~ListsAUnion[Top][InferShape[Top][v]]
  PROVE  Accepts(GenerateTypes(v, lang, name).types)[GenerateTypes(v, lang, name).of][v]
<1> DEFINE s == InferShape[Top][v]
           p == ByKey(name)
           r == Visit[Top][s][p][{}]
           all == Declared(lang, r.types)
<1>1. Top \in Levels /\ Top \in Depths /\ Top - 1 \in Depths /\ Top - 1 \in 0 .. Top - 1 /\ Top \in Top .. Top
  BY DepthsAre DEF Levels
<1>2. s \in Shapes[Top] /\ s = InferOne(Top, InferShape[Top - 1], v)
  BY <1>1, InferencesAre DEF Inferences
<1>3. s.kind \notin {"array", "union"}
  BY <1>2, ValueIs, <1>1 DEF InferOne, LeafKinds
<1>4. p \in Preferred /\ {} \in NameSets
  BY TypeGenerationAssumption, FS_EmptySet DEF ByKey, Preferred, NameSets
<1>5. OneOfAName(r.types)
  <2>1. WellVisited(Top, s, {}, r)
    BY <1>1, <1>2, <1>4, VisitsAre, VisitIs
  <2>2. QED
    BY <2>1 DEF WellVisited, Fresh, OneOfAName
<1>6. Describes[Top][s][v]
  BY <1>1, InferenceDescribes
<1>7. GenerateTypes(v, lang, name) = [types |-> all, of |-> Render(lang, r.shape)]
  BY DEF GenerateTypes, CollectTypes
<1>8. ReadsBack(lang, r.types, s, r.shape)
  <2>1. FlattenUnion(s) = <<s>>
    BY <1>3 DEF FlattenUnion
  <2>2. \A i \in DOMAIN FlattenUnion(s) : FlattenUnion(s)[i].kind # "array"
    BY <1>3, <2>1
  <2> DEFINE W == {}
             types == r.types
  <2>3. /\ W \subseteq Shapes[Top - 1]
        /\ W = Shapes[Top] \/ (W = {} /\ \A i \in DOMAIN FlattenUnion(s) : FlattenUnion(s)[i].kind # "array")
        /\ Visit[Top][s][p][{}].types \subseteq types
    BY <2>2
  <2>4. OneOfAName(types) /\ (lang = "typescript" => ~ListsAUnion[Top][s]) /\ Renders(Top - 1)
    BY <1>1, <1>5, AllRender
  <2> HIDE DEF W, types, s, p
  <2>5. LET shape == Visit[Top][s][p][{}].shape
        IN /\ RendersBase(lang)[shape] \in ShapesInside(W)
           /\ RendersBase(lang)[shape].kind = "union" => NonNull(shape).kind = "union"
           /\ ReadsBack(lang, types, s, shape)
    BY <1>1, <1>2, <1>4, <2>3, <2>4, TargetRenders
  <2>6. QED
    BY <2>5 DEF types
<1> HIDE DEF s, r
<1>9. PICK f : AcceptsTable(f, all) /\ Accepts(all) = f[Top]
  BY AcceptsAre
<1>10. f[Top][Render(lang, r.shape)][v]
  BY <1>1, <1>6, <1>8, <1>9 DEF ReadsBack
<1>11. QED
  BY <1>7, <1>9, <1>10

\* What was declared for a list reads each of its elements.
LEMMA ElementsRead ==
  ASSUME NEW v \in JsonValues[Top], NEW lang, NEW name \in RootNames, v.kind = "array",
         ~Forgotten[Top][v], lang = "typescript" => ~ListsAUnion[Top][InferShape[Top][v]]
  PROVE  \A i \in DOMAIN v.items : Accepts(GenerateTypes(v, lang, name).types)[GenerateTypes(v, lang, name).of][v.items[i]]
<1> DEFINE s == InferShape[Top][v]
           p == ByKey(name)
           r == Visit[Top][s][p][{}]
           all == Declared(lang, r.types)
           infer == InferShape[Top - 1]
           shapes == Inferred(infer, v.items)
           items == MergedItems(Top - 1, shapes)[Len(shapes)]
<1>1. Top \in Levels /\ Top \in Depths /\ Top - 1 \in Depths /\ Top - 1 \in 0 .. Top - 1 /\ Top \in Top - 1 .. Top /\ Top - 1 \in 0 .. Top
  BY DepthsAre DEF Levels
<1>2. infer \in Inferences(Top - 1) /\ s \in Shapes[Top] /\ s = InferOne(Top, infer, v)
  BY <1>1, InferencesAre DEF Inferences
<1>3. v.items \in Seq(JsonValues[Top - 1]) /\ DOMAIN v.items = 1 .. Len(v.items)
  BY <1>1, ValueIs, LenProperties
<1>4. /\ shapes \in Seq(Shapes[Top - 1]) /\ Len(shapes) = Len(v.items)
      /\ \A i \in 1 .. Len(v.items) : shapes[i] = infer[v.items[i]]
  BY <1>1, <1>2, <1>3, InferredAre
<1>5. \A i \in 1 .. Len(v.items) : v.items[i] \in JsonValues[Top - 1] /\ v.items[i] \in JsonValues[Top]
  BY <1>1, <1>3, JsonGrow
<1>6. v.items \in Seq(JsonValues[Top])
  <2>1. JsonValues[Top - 1] \subseteq JsonValues[Top]
    BY <1>1, JsonGrow
  <2>2. QED
    BY <1>3, <2>1, SeqMonotonic
<1>7. \A i \in 1 .. Len(v.items) :
        ~MergeForgets[Top - 1][MergedItems(Top - 1, shapes)[i - 1]][shapes[i]] /\ ~Forgotten[Top - 1][v.items[i]]
  <2>1. ~ForgottenOne(Top, Forgotten[Top - 1], v)
    BY <1>1, ForgottenIs
  <2>2. QED
    BY <1>3, <2>1 DEF ForgottenOne
<1>8. s = List(items) /\ s.kind = "array" /\ s.items = items
  <2>1. s = List(items)
    BY <1>2, <1>4 DEF InferOne
  <2> HIDE DEF s, items
  <2>2. QED
    BY <2>1 DEF List
<1>9. items \in Shapes[Top - 1]
  <2>1. Len(shapes) \in 0 .. Len(shapes)
    BY <1>4, LenProperties
  <2> HIDE DEF shapes
  <2>2. QED
    BY <1>1, <1>4, <2>1, MergedItemsAre
<1>10. \A i \in 1 .. Len(v.items) : Describes[Top][items][v.items[i]]
  <2>1. \A i \in 1 .. Len(shapes) : Describes[Top][shapes[i]][v.items[i]]
    <3> HIDE DEF shapes
    <3>1. QED
      BY <1>1, <1>4, <1>5, <1>7, InferenceDescribes
  <2>2. \A i \in 1 .. Len(shapes) : ~MergeForgets[Top - 1][MergedItems(Top - 1, shapes)[i - 1]][shapes[i]]
    <3> HIDE DEF shapes
    <3>1. QED
      BY <1>4, <1>7
  <2> DEFINE values == v.items
  <2>3. values \in Seq(JsonValues[Top]) /\ Len(values) = Len(shapes) /\ shapes \in Seq(Shapes[Top - 1])
    BY <1>4, <1>6
  <2>4. \A i \in 1 .. Len(shapes) : Describes[Top][shapes[i]][values[i]]
    BY <2>1
  <2>5. Top \in Levels /\ Top - 1 \in Depths
    BY <1>1
  <2> HIDE DEF shapes, values
  <2>6. \A i \in 1 .. Len(shapes) : Describes[Top][MergedItems(Top - 1, shapes)[Len(shapes)]][values[i]]
    BY <2>2, <2>3, <2>4, <2>5, ItemsDescribe
  <2>7. QED
    BY <1>4, <2>6 DEF values
<1>11. p \in Preferred /\ {} \in NameSets
  BY TypeGenerationAssumption, FS_EmptySet DEF ByKey, Preferred, NameSets
<1>12. Visit[Top - 1] \in VisitsOf(Top - 1) /\ r = VisitTarget(Visit[Top - 1], s, p, {}) /\ WellVisited(Top, s, {}, r)
  BY <1>1, <1>2, <1>11, VisitsAre, VisitIs
<1>13. OneOfAName(r.types)
  BY <1>12 DEF WellVisited, Fresh, OneOfAName
<1>14. GenerateTypes(v, lang, name) = [types |-> all, of |-> Render(lang, r.shape.items)]
  BY DEF GenerateTypes, CollectTypes
<1>15. FlattenUnion(s) = <<s>> /\ 1 \in DOMAIN FlattenUnion(s) /\ FlattenUnion(s)[1] = s
  <2> HIDE DEF s
  <2>1. FlattenUnion(s) = <<s>>
    BY <1>8 DEF FlattenUnion
  <2>2. QED
    BY <2>1
<1>16. lang = "typescript" => ~ListsAUnion[Top - 1][items]
  <2>1. lang = "typescript" => ~ListsOne(ListsAUnion[Top - 1], s)
    BY <1>1, <1>2, ListsAre
  <2> HIDE DEF s, items
  <2>2. QED
    BY <1>8, <1>15, <2>1 DEF ListsOne
<1> HIDE DEF items, s, r
<1>17. PICK q \in Preferred, taken \in NameSets :
         LET inner == Visit[Top - 1][items][q][taken]
         IN r.shape.items = inner.shape /\ inner.types \subseteq r.types
  <2>1. OptionVisited(Visit[Top - 1], s, 1, r)
    BY <1>1, <1>2, <1>11, <1>12, <1>15, VisitTargetIs
  <2>2. PICK q1 \in Preferred, taken1 \in NameSets :
          /\ FlattenUnion(r.shape)[1] = VisitPlain(Visit[Top - 1], s, q1, taken1).shape
          /\ VisitPlain(Visit[Top - 1], s, q1, taken1).types \subseteq r.types
    BY <1>15, <2>1 DEF OptionVisited
  <2> DEFINE part == VisitPlain(Visit[Top - 1], s, q1, taken1)
  <2>3. s \in Plain(Shapes[Top - 1])
    BY <1>8, <1>9, PlainHas
  <2>4. PartVisited(Top, Visit[Top - 1], s, part)
    BY <1>1, <1>12, <2>3, VisitPlainIs
  <2>5. part.shape = FlattenUnion(r.shape)[1] /\ part.types \subseteq r.types
    BY <2>2
  <2>6. r.shape.kind # "union"
    BY <1>8, <1>12 DEF WellVisited, Alike
  <2>7. part.shape = r.shape
    BY <2>5, <2>6 DEF FlattenUnion
  <2> HIDE DEF part
  <2>8. PICK q2 \in Preferred, taken2 \in NameSets :
          part.shape = List(Visit[Top - 1][items][q2][taken2].shape) /\ Visit[Top - 1][items][q2][taken2].types \subseteq part.types
    BY <1>8, <2>4 DEF PartVisited
  <2>9. part.shape.items = Visit[Top - 1][items][q2][taken2].shape
    BY <2>8 DEF List
  <2>10. QED
    BY <2>5, <2>7, <2>8, <2>9
<1> DEFINE inner == Visit[Top - 1][items][q][taken]
<1>18. ReadsBack(lang, r.types, items, inner.shape)
  <2>1. Renders(Top - 1)
    BY <1>1, AllRender
  <2>2. inner.types \subseteq r.types
    BY <1>17
  <2>3. QED
    BY <1>9, <1>13, <1>16, <2>1, <2>2 DEF Renders
<1>19. r.shape.items = inner.shape
  BY <1>17
<1> HIDE DEF inner
<1>20. PICK f : AcceptsTable(f, all) /\ Accepts(all) = f[Top]
  BY AcceptsAre
<1>21. \A i \in 1 .. Len(v.items) : f[Top][Render(lang, inner.shape)][v.items[i]]
  BY <1>1, <1>5, <1>10, <1>18, <1>20 DEF ReadsBack
<1>22. QED
  BY <1>3, <1>14, <1>19, <1>20, <1>21

\* The declarations generated read back the sample they were made from.
THEOREM DeclarationsReadTheirSample ==
  TypesInit /\ [][SetJson \/ SetLanguage]_typesVars => []TypesAcceptTheirSample
<1> DEFINE Inv == rootName \in RootNames
<1>1. TypesInit => Inv
  BY DEF TypesInit
<1>2. Inv /\ [SetJson \/ SetLanguage]_typesVars => Inv'
  BY DEF SetJson, SetLanguage, typesVars
<1>3. Inv => TypesAcceptTheirSample
  <2>1. SUFFICES ASSUME rootName \in RootNames PROVE TypesAcceptTheirSample
    OBVIOUS
  <2>2. CASE json \notin JsonValues[Top]
    <3>1. GenerateTypes(json, language, rootName).types = {}
      BY <2>2 DEF GenerateTypes
    <3>2. QED
      BY <3>1 DEF TypesAcceptTheirSample
  <2>3. CASE json \in JsonValues[Top]
    <3>1. CASE json.kind = "array"
      BY <2>1, <2>3, <3>1, ElementsRead DEF TypesAcceptTheirSample
    <3>2. CASE json.kind # "array"
      BY <2>1, <2>3, <3>2, RootReads DEF TypesAcceptTheirSample
    <3>3. QED
      BY <3>1, <3>2
  <2>4. QED
    BY <2>2, <2>3
<1>4. QED
  BY <1>1, <1>2, <1>3, PTL
================================================================================
