---------------------------- MODULE TypeGeneration ----------------------------
(***************************************************************************)
(* The type generator: generateTypes.ts and TypesPage.tsx. From a JSON     *)
(* sample it infers a shape, names the shape's objects and declares them   *)
(* in one of seven languages. A declaration is kept as the type it means:  *)
(* the spelling of names and of the languages' own type names is layout.   *)
(*                                                                         *)
(* What recurses into values or shapes is a function, for each level, of   *)
(* those that nest no deeper, defined from the one for the level below.    *)
(***************************************************************************)
EXTENDS Integers, Sequences, FiniteSets, SequencesExt

CONSTANTS
  Samples,     \* bound: the JSON samples pasted
  Keys,        \* bound: the keys in them
  RootNames,   \* bound: the names typed for the root type
  Languages,   \* bound: the languages chosen
  MaxDepth,    \* MAX_DEPTH
  PascalCase,  \* what pascalCase makes of each key and root name
  Singularize  \* what singularize makes of them

ASSUME TypeGenerationAssumption ==
  /\ MaxDepth \in Nat /\ IsFiniteSet(Keys)
  /\ Keys \cup RootNames \subseteq DOMAIN PascalCase
  /\ PascalCase \in [DOMAIN PascalCase -> STRING]
  /\ Singularize \in [DOMAIN PascalCase -> DOMAIN PascalCase]

VARIABLES
  json,     \* the sample; NoSample before one is pasted
  language,
  rootName

typesVars == <<json, language, rootName>>

\* JSON values: a leaf by its kind; a list of values; a record of values by key,
\* Absent where it has none.
Kind(kind) == [kind |-> kind]
List(items) == [kind |-> "array", items |-> items]
Absent == Kind("absent")
Record(fields) ==
  [kind |-> "object",
   fields |-> [key \in Keys |-> IF key \in DOMAIN fields THEN fields[key] ELSE Absent]]
NoSample == Kind("none")

Leaves == {Kind(kind) : kind \in {"null", "boolean", "integer", "number", "string"}}

\* There is one level in a leaf, and depth counts from 0.
Top == MaxDepth + 1
Depths == 0 .. Top

JsonValues[n \in Depths] ==
  IF n = 0 THEN {}
  ELSE LET inner == JsonValues[n - 1]
       IN Leaves \cup [kind : {"array"}, items : Seq(inner)]
          \cup [kind : {"object"}, fields : [Keys -> inner \cup {Absent}]]

-------------------------------------------------------------------------------
(* Shapes: leaves again, with "unknown"; lists of one shape; records of         *)
(* fields that are required or not; names in the place of records; and unions.  *)

Field(shape, required) == [shape |-> shape, required |-> required]
Union(options) == [kind |-> "union", options |-> options]
Named(name) == [kind |-> "named", name |-> name]
FlattenUnion(shape) == IF shape.kind = "union" THEN shape.options ELSE <<shape>>

Unknown == Kind("unknown")
TypeNames == [base : STRING, options : Seq(Nat), number : Nat]
NameSets == {used \in SUBSET TypeNames : IsFiniteSet(used)}

Plain(inner) ==
  Leaves \cup {Unknown} \cup [kind : {"named"}, name : TypeNames]
  \cup [kind : {"array"}, items : inner]
  \cup [kind : {"object"}, fields : [Keys -> [shape : inner \cup {Absent}, required : BOOLEAN]]]

Shapes[n \in Depths] ==
  IF n = 0 THEN {Unknown}
  ELSE LET plain == Plain(Shapes[n - 1])
       IN plain \cup [kind : {"union"}, options : Seq(plain)]

HasField(fields, key) == fields[key].shape # Absent

Same(same, a, b) ==
  /\ a.kind = b.kind
  /\ a.kind = "array" => same[a.items][b.items]
  /\ a.kind = "object" =>
       \A key \in Keys : /\ HasField(a.fields, key) <=> HasField(b.fields, key)
                         /\ HasField(a.fields, key) => same[a.fields[key].shape][b.fields[key].shape]

SameShape ==
  LET same[n \in Depths] ==
        [a \in Shapes[n] |-> [b \in Shapes[n] |-> n = 0 \/ Same(same[n - 1], a, b)]]
  IN same[Top]

Dedupe(shapes) ==
  LET Add(out, shape) ==
        IF \E i \in DOMAIN out : SameShape[out[i]][shape] THEN out ELSE Append(out, shape)
      out[i \in 0 .. Len(shapes)] == IF i = 0 THEN <<>> ELSE Add(out[i - 1], shapes[i])
  IN out[Len(shapes)]

\* Mutant: takes the field over as it was seen.
MergedFieldsAsSeen(merge, a, b) ==
  [key \in Keys |->
     IF ~HasField(b, key) THEN a[key]
     ELSE IF ~HasField(a, key) THEN b[key]
     ELSE Field(merge[a[key].shape][b[key].shape], a[key].required /\ b[key].required)]

\* A field that only one of two records has is optional from then on.
MergedFields(merge, a, b) ==
  [key \in Keys |->
     IF ~HasField(b, key) THEN Field(a[key].shape, FALSE)
     ELSE IF ~HasField(a, key) THEN Field(b[key].shape, FALSE)
     ELSE Field(merge[a[key].shape][b[key].shape], a[key].required /\ b[key].required)]

BothOptions(a, b) ==
  IF b.kind = "null" THEN FlattenUnion(b) \o FlattenUnion(a) ELSE FlattenUnion(a) \o FlattenUnion(b)

\* Two unions merge into the first.
MergeTwo(merge, a, b) ==
  IF a.kind = "unknown" THEN b
  ELSE IF b.kind = "unknown" THEN a
  ELSE IF {a.kind, b.kind} = {"integer", "number"} THEN Kind("number")
  ELSE IF a.kind # b.kind THEN Union(Dedupe(BothOptions(a, b)))
  ELSE IF a.kind = "array" THEN List(merge[a.items][b.items])
  ELSE IF a.kind = "object" THEN [a EXCEPT !.fields = MergedFields(merge, a.fields, b.fields)]
  ELSE a

MergeShapes[n \in Depths] ==
  [a \in Shapes[n] |-> [b \in Shapes[n] |->
     IF n = 0 THEN Unknown ELSE MergeTwo(MergeShapes[n - 1], a, b)]]

\* The shape of the first i elements, of n levels at most, for each i.
MergedItems(n, shapes) ==
  LET merged[i \in 0 .. Len(shapes)] ==
        IF i = 0 THEN Unknown ELSE MergeShapes[n][merged[i - 1]][shapes[i]]
  IN merged

Inferred(infer, items) == [i \in DOMAIN items |-> infer[items[i]]]

InferShape[n \in Depths] ==
  [value \in JsonValues[n] |->
     LET Child(child) == IF child = Absent THEN Field(Absent, FALSE) ELSE Field(InferShape[n - 1][child], TRUE)
     IN CASE value.kind = "array" ->
               List(MergedItems(n - 1, Inferred(InferShape[n - 1], value.items))[Len(value.items)])
          [] value.kind = "object" ->
               [kind |-> "object", fields |-> [key \in Keys |-> Child(value.fields[key])]]
          [] OTHER -> value]

IsNullable(shape) == \E i \in DOMAIN FlattenUnion(shape) : FlattenUnion(shape)[i].kind = "null"

NonNull(shape) ==
  LET all == FlattenUnion(shape)
      filtered[i \in 0 .. Len(all)] ==
        IF i = 0 THEN <<>>
        ELSE IF all[i].kind = "null" THEN filtered[i - 1] ELSE Append(filtered[i - 1], all[i])
      options == filtered[Len(all)]
  IN CASE Len(options) = 0 -> Unknown
       [] Len(options) = 1 -> options[1]
       [] OTHER -> Union(options)

-------------------------------------------------------------------------------
(* Declarations. A name is preferred by a key, its singular or a path of       *)
(* options from it, and numbered when it is taken.                             *)

Preferred == [key : DOMAIN PascalCase, options : Seq(Nat)]
ByKey(key) == [key |-> key, options |-> <<>>]

Singular(preferred) ==
  IF preferred.options = <<>> THEN ByKey(Singularize[preferred.key]) ELSE preferred

\* Null is not counted among the options.
ForOption(shape, i, preferred) ==
  IF NonNull(shape).kind = "union"
    THEN [preferred EXCEPT !.options =
            Append(@, Cardinality({j \in 1 .. i : shape.options[j].kind # "null"}))]
    ELSE preferred

NameFor(preferred, used) ==
  LET Numbered(n) == [base |-> PascalCase[preferred.key], options |-> preferred.options, number |-> n]
  IN Numbered(CHOOSE n \in 1 .. Cardinality(used) + 1 :
                Numbered(n) \notin used /\ \A m \in 1 .. n - 1 : Numbered(m) \in used)

\* What a visit returns: the shape with names in the place of its records, the
\* names used until then, and the types it has declared.
Visited(shape, used, types) == [shape |-> shape, used |-> used, types |-> types]

\* The order of a record's keys decides only who is numbered.
VisitFields(visit, fields, used) ==
  LET keys == SetToSeq(Keys)
      Child(key, taken) ==
        IF HasField(fields, key) THEN visit[fields[key].shape][ByKey(key)][taken] ELSE Visited(Absent, taken, {})
      visits[i \in 0 .. Len(keys)] ==
        IF i = 0 THEN Visited(Absent, used, {}) ELSE Child(keys[i], visits[i - 1].used)
      At(key) == CHOOSE i \in DOMAIN keys : keys[i] = key
  IN Visited([key \in Keys |-> Field(visits[At(key)].shape, fields[key].required)],
             visits[Len(keys)].used, UNION {visits[i].types : i \in 0 .. Len(keys)})

VisitPlain(visit, shape, preferred, used) ==
  LET items == visit[shape.items][Singular(preferred)][used]
      name == NameFor(preferred, used)
      fields == VisitFields(visit, shape.fields, used \cup {name})
  IN CASE shape.kind = "array" -> Visited(List(items.shape), items.used, items.types)
       [] shape.kind = "object" ->
            Visited(Named(name), fields.used, fields.types \cup {[name |-> name, fields |-> fields.shape]})
       [] OTHER -> Visited(shape, used, {})

VisitTarget(visit, shape, preferred, used) ==
  LET options == FlattenUnion(shape)
      visits[i \in 0 .. Len(options)] ==
        IF i = 0 THEN Visited(Absent, used, {})
        ELSE VisitPlain(visit, options[i], ForOption(shape, i, preferred), visits[i - 1].used)
      shapes == [i \in DOMAIN options |-> visits[i].shape]
  IN Visited(IF shape.kind = "union" THEN Union(shapes) ELSE shapes[1],
             visits[Len(options)].used, UNION {visits[i].types : i \in 0 .. Len(options)})

\* visit, of collectTypes.
Visit[n \in Depths] ==
  [shape \in Shapes[n] |-> [preferred \in Preferred |-> [used \in NameSets |->
     IF n = 0 THEN Visited(shape, used, {}) ELSE VisitTarget(Visit[n - 1], shape, preferred, used)]]]

CollectTypes(shape, name) == Visit[Top][shape][ByKey(name)][{}]

-------------------------------------------------------------------------------
(* The emitters. Java's types are all references, as are Go's structs and      *)
(* slices: they take null unasked.                                              *)

OrNull(type) == Union(FlattenUnion(type) \o <<Kind("null")>>)

TakesNull(lang, type) ==
  lang = "java" \/ (lang = "go" /\ type.kind \in {"named", "array"})

\* render, from what renderBase makes of the shape.
Nullably(lang, shape, base) ==
  IF IsNullable(shape) \/ TakesNull(lang, base) THEN OrNull(base) ELSE base

RenderPlain(base, lang, shape) ==
  CASE shape.kind = "array" ->
         \* TypeScript's [] binds to the last member of an unbracketed union
         IF lang = "typescript" /\ base[shape.items].kind = "union" /\ ~IsNullable(shape.items)
           THEN Union(Front(base[shape.items].options) \o <<List(Last(base[shape.items].options))>>)
           ELSE List(Nullably(lang, shape.items, base[shape.items]))
    [] shape.kind = "integer" /\ lang = "typescript" -> Kind("number")
    [] OTHER -> shape

\* renderBase, or render up to the null.
RenderTarget(base, lang, target) ==
  IF target.kind # "union" THEN RenderPlain(base, lang, target)
  ELSE IF lang \in {"typescript", "python"}
    THEN Union([i \in DOMAIN target.options |-> RenderPlain(base, lang, target.options[i])])
  ELSE Unknown

RenderBase(lang) ==
  LET base[n \in Depths] ==
        [shape \in Shapes[n] |-> IF n = 0 THEN Unknown ELSE RenderTarget(base[n - 1], lang, NonNull(shape))]
  IN base

Render(lang, shape) == Nullably(lang, shape, RenderBase(lang)[Top][shape])

\* Whether a Python annotation mentions None anywhere.
Mentions(type) ==
  LET mentions[n \in Depths] == [t \in Shapes[n] |->
        \E i \in DOMAIN FlattenUnion(t) :
          LET option == FlattenUnion(t)[i]
          IN option.kind = "null" \/ (option.kind = "array" /\ mentions[n - 1][option.items])]
  IN mentions[Top][type]

FieldType(lang, field) ==
  LET type == Render(lang, field.shape)
  IN IF /\ ~field.required
        /\ lang \in {"kotlin", "rust"} \/ (lang = "python" /\ ~Mentions(type))
       THEN OrNull(type) ELSE type

\* The marks of an optional field; what C#, Java and Go leave out when reading
\* they leave at its default.
MayBeAbsent(lang, field) == ~field.required \/ lang \in {"csharp", "java", "go"}

Declared(lang, types) ==
  {[name |-> t.name,
    fields |-> [key \in Keys |->
                  IF HasField(t.fields, key)
                    THEN Field(FieldType(lang, t.fields[key]), ~MayBeAbsent(lang, t.fields[key]))
                    ELSE Field(Absent, FALSE)]] : t \in types}

\* The types declared, and the type of the sample, or of its elements; none when
\* the sample nests too deep or has no object.
GenerateTypes(value, lang, name) ==
  LET collected == CollectTypes(InferShape[Top][value], name)
      element == IF value.kind = "array" THEN collected.shape.items ELSE collected.shape
  IN IF value \notin JsonValues[Top] THEN [types |-> {}]
     ELSE [types |-> Declared(lang, collected.types), of |-> Render(lang, element)]

-------------------------------------------------------------------------------
(* The page *)

TypesInit == json = NoSample /\ language = "typescript" /\ rootName \in RootNames

\* One sample and one name a visit: the page remembers nothing of the ones before.
SetJson == json = NoSample /\ json' \in Samples /\ UNCHANGED <<language, rootName>>

SetLanguage == json # NoSample /\ language' \in Languages /\ UNCHANGED <<json, rootName>>

-------------------------------------------------------------------------------
(* Properties *)

\* Whether a record has the fields: none that is not theirs, and of theirs all but
\* some that are not required.
Fits(accepts, fields, record) ==
  \A key \in Keys :
    IF record[key] = Absent THEN ~fields[key].required
    ELSE HasField(fields, key) /\ accepts[fields[key].shape][record[key]]

\* Whether a value is of a type, or of a shape, that is neither a union nor unknown.
IsOf(accepts, types, type, value) ==
  CASE type.kind = "array" ->
         value.kind = "array" /\ \A i \in DOMAIN value.items : accepts[type.items][value.items[i]]
    [] type.kind = "object" -> value.kind = "object" /\ Fits(accepts, type.fields, value.fields)
    [] type.kind = "named" ->
         /\ value.kind = "object"
         /\ \E t \in types : t.name = type.name
         /\ \A t \in types : t.name = type.name => Fits(accepts, t.fields, value.fields)
    [] type.kind = "number" -> value.kind \in {"integer", "number"}
    [] OTHER -> type.kind = value.kind

\* What the declarations of a language read: a value of the type.
Accepts(types) ==
  LET accepts[n \in Depths] == [type \in Shapes[Top] |-> [value \in JsonValues[n] |->
        \E i \in DOMAIN FlattenUnion(type) :
          LET option == FlattenUnion(type)[i]
          IN option.kind = "unknown" \/ IsOf(accepts[n - 1], types, option, value)]]
  IN accepts[Top]

\* A merge forgets what it has seen of b: of two unions all but the first, and of
\* options that SameShape takes for the same although they differ.
Forgets(forgets, a, b) ==
  LET kinds == {a.kind, b.kind}
      options == BothOptions(a, b)
  IN \/ kinds = {"array"} /\ forgets[a.items][b.items]
     \/ /\ kinds = {"object"}
        /\ \E key \in Keys : /\ HasField(a.fields, key) /\ HasField(b.fields, key)
                             /\ forgets[a.fields[key].shape][b.fields[key].shape]
     \/ a.kind = b.kind /\ a.kind \notin {"array", "object"} /\ a # b
     \/ /\ a.kind # b.kind /\ "unknown" \notin kinds /\ kinds # {"integer", "number"}
        /\ \E i, j \in DOMAIN options : SameShape[options[i]][options[j]] /\ options[i] # options[j]

MergeForgets[n \in Depths] ==
  [a \in Shapes[n] |-> [b \in Shapes[n] |-> n > 0 /\ Forgets(MergeForgets[n - 1], a, b)]]

\* A merge forgets something, somewhere in a sample.
Forgotten[n \in Depths] ==
  [value \in JsonValues[n] |->
     LET shapes == Inferred(InferShape[n - 1], value.items)
     IN CASE value.kind = "array" ->
               \E i \in DOMAIN value.items :
                 \/ MergeForgets[n - 1][MergedItems(n - 1, shapes)[i - 1]][shapes[i]]
                 \/ Forgotten[n - 1][value.items[i]]
          [] value.kind = "object" ->
               \E key \in Keys : value.fields[key] # Absent /\ Forgotten[n - 1][value.fields[key]]
          [] OTHER -> FALSE]

\* A list of two kinds or more, none of them null, somewhere in a shape.
ListsAUnion[n \in Depths] ==
  [shape \in Shapes[n] |->
     \E i \in DOMAIN FlattenUnion(shape) :
       LET option == FlattenUnion(shape)[i]
       IN CASE option.kind = "array" ->
                 \/ NonNull(option.items).kind = "union" /\ ~IsNullable(option.items)
                 \/ ListsAUnion[n - 1][option.items]
            [] option.kind = "object" ->
                 \E key \in Keys : HasField(option.fields, key) /\ ListsAUnion[n - 1][option.fields[key].shape]
            [] OTHER -> FALSE]

\* The declarations describe the sample they were made from: in every language
\* they read it back, whatever elements were merged, fields left out or null in
\* some, and names wanted twice. Not so where a merge forgets a shape, nor in
\* TypeScript where a union stands unbracketed before [].
TypesAcceptTheirSample ==
  LET code == GenerateTypes(json, language, rootName)
      accepted == Accepts(code.types)[code.of]
  IN /\ code.types # {} /\ ~Forgotten[Top][json]
     /\ language = "typescript" => ~ListsAUnion[Top][InferShape[Top][json]]
     => IF json.kind = "array" THEN \A i \in DOMAIN json.items : accepted[json.items[i]] ELSE accepted[json]

===============================================================================
