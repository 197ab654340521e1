------------------------------- MODULE JsonPath -------------------------------
(***************************************************************************)
(* The JSON query page: jsonPath.ts and QueryPage.tsx. A path is the       *)
(* positions of the children it goes through, and a JSON value a function  *)
(* from the paths of the nodes in it to the nodes: their type, their       *)
(* scalar value, how many children they have and, in an object, under      *)
(* which keys, in order. An expression is a sequence of tokens.            *)
(***************************************************************************)
EXTENDS Integers, Sequences, FiniteSets, SequencesExt, FiniteSetsExt

CONSTANTS
  JsonDocuments, \* bound: the documents
  Steps,         \* bound: the segments queries are made of
  MaxSegments,   \* bound: segments in a query
  ColonNames,    \* names with a colon in them
  Inherited,     \* names that every object inherits from its prototype
  MaxResults     \* MAX_RESULTS

\* What JSON.parse returns: the paths lead from the root through every child, no
\* further than to a deepest one, and no object has a key twice.
IsDocument(value) ==
  /\ <<>> \in DOMAIN value /\ DOMAIN value \subseteq Seq(Nat)
  /\ \E deepest \in DOMAIN value : \A p \in DOMAIN value : Len(p) <= Len(deepest)
  /\ \A p \in DOMAIN value :
       /\ value[p].size \in Nat /\ value[p].keys \in Seq(STRING)
       /\ value[p].type = "object" => Len(value[p].keys) = value[p].size /\ IsInjective(value[p].keys)
       /\ value[p].type \notin {"array", "object"} => value[p].size = 0
       /\ \A i \in 1 .. value[p].size : Append(p, i) \in DOMAIN value
       /\ p # <<>> => Front(p) \in DOMAIN value /\ Last(p) \in 1 .. value[Front(p)].size

\* The segments there are.
IsSegment(segment) ==
  \/ segment \in [kind : {"child"}, names : Seq(STRING)]
  \/ segment \in [kind : {"index"}, indexes : Seq(Int)]
  \/ segment \in [kind : {"slice"}, start : Seq(Int), end : Seq(Int), step : Int]
  \/ segment \in [kind : {"wildcard"}]
  \/ segment \in [kind : {"descend"}, name : Seq(STRING)] /\ Len(segment.name) <= 1
  \/ segment.kind = "filter"

ASSUME JsonPathAssumption ==
  /\ MaxSegments \in Nat /\ MaxResults \in Nat \ {0}
  /\ \A value \in JsonDocuments : IsDocument(value)
  /\ \A segment \in Steps : IsSegment(segment)

VARIABLES
  document, \* the parsed document
  wanted,   \* the segments the user has in mind
  style     \* whether the user writes names after dots or in brackets

queryVars == <<document, wanted, style>>

Primitive(type, v) == [type |-> type, value |-> v, keys |-> <<>>, size |-> 0]
Scalar(type, v) == [p \in {<<>>} |-> Primitive(type, v)]
Null == Scalar("null", 0)

\* A node with values under it.
Holding(node, items) ==
  [p \in {<<>>} \cup UNION {{<<i>> \o q : q \in DOMAIN items[i]} : i \in DOMAIN items} |->
     IF p = <<>> THEN node ELSE items[Head(p)][Tail(p)]]
Array(items) == Holding([Primitive("array", 0) EXCEPT !.size = Len(items)], items)
Object(keys, items) == Holding([Primitive("object", 0) EXCEPT !.size = Len(items), !.keys = keys], items)

HasOwn(node, name) == node.type = "object" /\ \E i \in DOMAIN node.keys : node.keys[i] = name
PositionOf(node, name) == CHOOSE i \in DOMAIN node.keys : node.keys[i] = name

-------------------------------------------------------------------------------
(* Segments and tokens *)

ChildStep(names) == [kind |-> "child", names |-> names]
IndexStep(indexes) == [kind |-> "index", indexes |-> indexes]
\* start and end are <<n>>, or <<>> when absent.
SliceStep(start, end, step) == [kind |-> "slice", start |-> start, end |-> end, step |-> step]
WildcardStep == [kind |-> "wildcard"]
DescendStep(name) == [kind |-> "descend", name |-> name]
\* A path of names, or of indexes with the name ""; no operator is a presence test.
FilterStep(path, op, literal) == [kind |-> "filter", path |-> path, op |-> op, literal |-> literal]

Dot == [token |-> "."]
Asterisk == [token |-> "*"]
Word(name) == [token |-> "name", name |-> name]
Bracket(body) == [token |-> "[", body |-> body]

\* parseBracket: a body with a colon anywhere is taken for a slice, and one that
\* is none is refused.
HasColon(segment) == segment.kind = "child" /\ \E i \in DOMAIN segment.names : segment.names[i] \in ColonNames
Unreadable == <<[kind |-> "refused"]>>
ParseBracket(body) == IF HasColon(body) THEN Unreadable ELSE <<body>>

IsToken(tokens, i, kind) == i \in DOMAIN tokens /\ tokens[i].token = kind

\* parse: the segments of the tokens from the i-th on, when rest[j] are those from
\* the j-th on; the last of them is "refused" after an error.
ParseFrom(tokens, rest, i) ==
  LET Is(k, kind) == IsToken(tokens, k, kind)
  IN CASE i > Len(tokens) -> <<>>
       [] Is(i, ".") /\ Is(i + 1, ".") /\ Is(i + 2, "*") -> <<DescendStep(<<>>)>> \o rest[i + 3]
       [] Is(i, ".") /\ Is(i + 1, ".") /\ Is(i + 2, "[") -> <<DescendStep(<<>>)>> \o rest[i + 2]
       [] Is(i, ".") /\ Is(i + 1, ".") /\ Is(i + 2, "name") ->
            <<DescendStep(<<tokens[i + 2].name>>)>> \o rest[i + 3]
       [] Is(i, ".") /\ Is(i + 1, "*") -> <<WildcardStep>> \o rest[i + 2]
       [] Is(i, ".") /\ Is(i + 1, "name") -> <<ChildStep(<<tokens[i + 1].name>>)>> \o rest[i + 2]
       [] Is(i, "[") -> ParseBracket(tokens[i].body) \o rest[i + 1]
       [] Is(i, "*") -> <<WildcardStep>> \o rest[i + 1]
       [] Is(i, "name") -> <<ChildStep(<<tokens[i].name>>)>> \o rest[i + 1]
       [] OTHER -> Unreadable

Parse(tokens) ==
  LET parsed[i \in 1 .. Len(tokens) + 1] == ParseFrom(tokens, parsed, i)
  IN parsed[1]

-------------------------------------------------------------------------------
(* Evaluation *)

\* resolvePath, from the node at `path`: <<>> is undefined. A name is looked up on
\* the object and on its prototype, whose members are functions.
ResolvePath(root, path, keys) ==
  LET At(p) == <<[path |-> p, node |-> root[p]]>>
      Member(from, key) ==
        IF HasOwn(from.node, key.name) THEN At(Append(from.path, PositionOf(from.node, key.name)))
        ELSE IF from.node.type = "object" /\ key.name \in Inherited
               THEN <<[path |-> from.path, node |-> Primitive("function", 0)]>>
        ELSE IF from.node.type = "array" /\ key.name = "" /\ key.index \in 0 .. from.node.size - 1
               THEN At(Append(from.path, key.index + 1))
        ELSE <<>>
      Look(current, key) == IF current = <<>> THEN <<>> ELSE Member(current[1], key)
      current[n \in 0 .. Len(keys)] ==
        IF n = 0 THEN At(path) ELSE Look(current[n - 1], keys[n])
  IN current[Len(keys)]

CompareOrdered(a, b, op) ==
  CASE op = "<" -> a < b [] op = "<=" -> a <= b [] op = ">" -> a > b [] op = ">=" -> a >= b

SameScalar(a, b) == a.type = b.type /\ a.value = b.value /\ a.type \notin {"array", "object"}

EvaluateFilter(filter, root, path) ==
  LET found == ResolvePath(root, path, filter.path)
  IN /\ found # <<>>
     /\ filter.op # "exists" =>
          LET actual == found[1].node
          IN CASE filter.op = "==" -> SameScalar(actual, filter.literal)
               [] filter.op = "!=" -> ~SameScalar(actual, filter.literal)
               [] OTHER -> /\ actual.type = filter.literal.type
                           /\ actual.type \in {"number", "string"}
                           /\ CompareOrdered(actual.value, filter.literal.value, filter.op)

\* Mutant: a negative step stops before the first element.
SliceIndexesShort(segment, length) ==
  LET step == segment.step
      Wrap(n) == IF n < 0 THEN n + length ELSE n
      start == IF segment.start = <<>> THEN IF step > 0 THEN 0 ELSE length - 1 ELSE Wrap(segment.start[1])
      end == IF segment.end = <<>> THEN IF step > 0 THEN length ELSE 0 ELSE Wrap(segment.end[1])
      first == IF step > 0 THEN Max({start, 0}) ELSE Min({start, length - 1})
      count == IF step > 0 THEN (Min({end, length}) - first + step - 1) \div step
               ELSE (first - Max({end, -1}) - step - 1) \div (-step)
  IN IF step = 0 THEN <<>> ELSE [n \in 1 .. count |-> first + (n - 1) * step]

\* The indexes of a slice, in the order they are visited.
SliceIndexes(segment, length) ==
  LET step == segment.step
      Wrap(n) == IF n < 0 THEN n + length ELSE n
      start == IF segment.start = <<>> THEN IF step > 0 THEN 0 ELSE length - 1 ELSE Wrap(segment.start[1])
      end == IF segment.end = <<>> THEN IF step > 0 THEN length ELSE -length - 1 ELSE Wrap(segment.end[1])
      first == IF step > 0 THEN Max({start, 0}) ELSE Min({start, length - 1})
      count == IF step > 0 THEN (Min({end, length}) - first + step - 1) \div step
               ELSE (first - Max({end, -1}) - step - 1) \div (-step)
  IN IF step = 0 THEN <<>> ELSE [n \in 1 .. count |-> first + (n - 1) * step]

\* walk: each node's own path and those of its descendants, each before its own.
Walk(root) ==
  LET walk[p \in DOMAIN root] ==
        <<p>> \o FlattenSeq([i \in 1 .. root[p].size |-> walk[Append(p, i)]])
  IN walk

\* A push under a condition.
If(condition, path) == IF condition THEN <<path>> ELSE <<>>

\* applySegment: the paths a segment leads to from the node at `path`.
ApplySegment(segment, root, path) ==
  LET node == root[path]
      Named(p, name) == If(HasOwn(root[p], name), Append(p, PositionOf(root[p], name)))
      Wrap(n) == IF n < 0 THEN node.size + n ELSE n
  IN CASE segment.kind = "child" ->
            FlattenSeq([i \in DOMAIN segment.names |-> Named(path, segment.names[i])])
       [] segment.kind = "index" ->
            FlattenSeq([i \in DOMAIN segment.indexes |->
                          LET index == Wrap(segment.indexes[i])
                          IN If(node.type = "array" /\ index \in 0 .. node.size - 1, Append(path, index + 1))])
       [] segment.kind = "slice" ->
            LET indexes == IF node.type = "array" THEN SliceIndexes(segment, node.size) ELSE <<>>
            IN [i \in DOMAIN indexes |-> Append(path, indexes[i] + 1)]
       [] segment.kind = "wildcard" -> [i \in 1 .. node.size |-> Append(path, i)]
       [] segment.kind = "descend" ->
            LET nodes == Walk(root)[path]
            IN FlattenSeq([i \in DOMAIN nodes |->
                             IF segment.name = <<>> THEN <<nodes[i]>> ELSE Named(nodes[i], segment.name[1])])
       [] segment.kind = "filter" ->
            FlattenSeq([i \in 1 .. node.size |->
                          If(EvaluateFilter(segment, root, Append(path, i)), Append(path, i))])

\* queryJsonPath: the paths of the matches, or that there are too many.
TooMany == [ok |-> FALSE, paths |-> <<>>]

Bounded(paths) == IF Len(paths) > MaxResults THEN TooMany ELSE [ok |-> TRUE, paths |-> paths]

Apply(segment, root, current) ==
  IF current.ok
    THEN Bounded(FlattenSeq([i \in DOMAIN current.paths |-> ApplySegment(segment, root, current.paths[i])]))
    ELSE TooMany

Evaluate(root, segments) ==
  LET current[k \in 0 .. Len(segments)] ==
        IF k = 0 THEN [ok |-> TRUE, paths |-> << <<>> >>]
        ELSE Apply(segments[k], root, current[k - 1])
  IN current[Len(segments)]

QueryJsonPath(root, tokens) ==
  LET segments == Parse(tokens)
  IN IF \E i \in DOMAIN segments : segments[i].kind = "refused"
       THEN [ok |-> FALSE, paths |-> <<>>]
       ELSE Evaluate(root, segments)

-------------------------------------------------------------------------------
(* The page *)

\* How SUPPORTED_SYNTAX says a segment is written; `..` before a bracket stands
\* for every node.
Written(segments, i) ==
  LET segment == segments[i]
  IN CASE segment.kind = "child" /\ Len(segment.names) = 1 /\ style = "dots" ->
            <<Dot, Word(segment.names[1])>>
       [] segment.kind = "wildcard" /\ style = "dots" -> <<Dot, Asterisk>>
       [] segment.kind = "descend" /\ segment.name # <<>> -> <<Dot, Dot, Word(segment.name[1])>>
       [] segment.kind = "descend" /\ segment.name = <<>> ->
            IF style = "brackets" /\ i < Len(segments) /\ segments[i + 1].kind # "descend"
              THEN <<Dot, Dot>> ELSE <<Dot, Dot, Asterisk>>
       [] OTHER -> <<Bracket(segment)>>

Expression == FlattenSeq([i \in DOMAIN wanted |-> Written(wanted, i)])

Result == QueryJsonPath(document, Expression)

QueryInit ==
  /\ document \in JsonDocuments
  /\ wanted = <<>>
  /\ style \in {"dots", "brackets"}

\* setExpression, one segment more or from the beginning, and setDocument: the
\* memos parse and evaluate anew.
TypeQuery ==
  /\ \/ /\ Len(wanted) < MaxSegments
        /\ \E segment \in Steps : wanted' = Append(wanted, segment)
     \/ wanted' = <<>>
  /\ UNCHANGED <<document, style>>

TypeDocument ==
  /\ document' \in JsonDocuments
  /\ UNCHANGED <<wanted, style>>

-------------------------------------------------------------------------------
(* Properties *)

\* What one segment means: whether it leads from the node at p to the one at q.
Leads(segment, p, q) ==
  LET from == document[p]
      parent == document[Front(q)]
      index == Last(q) - 1
      IsChild == q # <<>> /\ Front(q) = p
      Wrap(n) == IF n < 0 THEN n + from.size ELSE n
  IN CASE segment.kind = "child" ->
            IsChild /\ from.type = "object" /\ \E i \in DOMAIN segment.names : segment.names[i] = from.keys[Last(q)]
       [] segment.kind = "index" ->
            IsChild /\ from.type = "array" /\ \E i \in DOMAIN segment.indexes : Wrap(segment.indexes[i]) = index
       [] segment.kind = "slice" ->
            /\ IsChild /\ from.type = "array"
            /\ \E n \in 0 .. from.size :
                 LET up == segment.step > 0
                     default == IF up THEN 0 ELSE from.size - 1
                     start == IF segment.start = <<>> THEN default ELSE Wrap(segment.start[1])
                     first == IF up /\ start < 0 THEN 0
                              ELSE IF ~up /\ start >= from.size THEN from.size - 1 ELSE start
                 IN /\ index = first + n * segment.step
                    /\ segment.step # 0
                    /\ segment.end # <<>> =>
                         IF up THEN index < Wrap(segment.end[1]) ELSE index > Wrap(segment.end[1])
       [] segment.kind = "wildcard" -> IsChild
       [] segment.kind = "descend" ->
            /\ IsPrefix(p, q)
            /\ segment.name # <<>> => p # q /\ parent.type = "object" /\ parent.keys[Last(q)] = segment.name[1]
       [] segment.kind = "filter" -> IsChild /\ EvaluateFilter(segment, document, q)

\* The nodes that the first k segments lead to from the root.
Selected(segments) ==
  LET Following(k, nodes) == {q \in DOMAIN document : \E p \in nodes : Leads(segments[k], p, q)}
      selected[k \in 0 .. Len(segments)] ==
        IF k = 0 THEN {<<>>} ELSE Following(k, selected[k - 1])
  IN selected

\* A query that is not refused finds what its segments mean, and nothing else:
\* the nodes that can be reached from the root by a step for each segment, with
\* unions, negative indexes, slices in both directions and descent at any depth.
\* Parsing what SUPPORTED_SYNTAX says and evaluating it node by node both have
\* to get it right. No node is found twice, unless two members of one union or
\* two descents lead to it.
QueriesFindTheirMatches ==
  LET found == Result
      Distinct ==
        /\ \A i, j \in DOMAIN wanted : wanted[i].kind = "descend" /\ wanted[j].kind = "descend" => i = j
        /\ \A i \in DOMAIN wanted : /\ wanted[i].kind = "index" => Len(wanted[i].indexes) = 1
                                    /\ wanted[i].kind = "child" => IsInjective(wanted[i].names)
  IN found.ok =>
       /\ Range(found.paths) = Selected(wanted)[Len(wanted)]
       /\ Distinct => IsInjective(found.paths)

===============================================================================
