--------------------------------- MODULE MCTools ------------------------------
(* Small instances of the pages that compute in the browser alone.           *)
EXTENDS LocalTools

(* Git: up to five commits; new branches are called "feat", or like the       *)
(* second commit.                                                             *)
CONSTANT main, feat, feature, bugfix, hotfix

(* Algorithms: all arrays of up to four values of three; all graphs of three  *)
(* nodes with up to four edges, in every order, and with up to three weighted *)
(* ones; tables of one to five buckets that several values, one negative,     *)
(* compete for.                                                               *)
MCArrays == UNION {[1 .. n -> 1 .. 3] : n \in 0 .. 4}

Edge(weights) == {e \in [from : 1 .. 3, to : 1 .. 3, weight : weights] : e.from # e.to}
Lists(weights, n) ==
  {l \in UNION {[1 .. m -> Edge(weights)] : m \in 0 .. n} :
     \A x, y \in DOMAIN l : x # y => <<l[x].from, l[x].to>> # <<l[y].from, l[y].to>>}

MCGraphs == [nodes : {3}, edges : Lists({1}, 4)]
MCWeighted == [nodes : {3}, edges : Lists({1, 3}, 3)]

MCTables == [values : UNION {[1 .. n -> {-1, 1, 5, 11}] : n \in 0 .. 4}, size : {1, 3, 4, 5}]

(* Cron: the clock has minutes of two seconds, hours of three minutes and     *)
(* days of two hours, from before the end of a leap February, so that a       *)
(* month's end and the clock's change fall within the search.                 *)
MCSmall == {<<Star>>, <<Just(0)>>, <<Just(1)>>, <<Every(Star, 2)>>}
MCDates == {<<Star>>, <<Just(30), Just(1)>>, <<Every(Just(29), 2)>>, <<Every(Span(13, 20), 3)>>,
            <<Just(32)>>, <<Span(5, 3)>>}
MCWeekdays == {<<Star>>, <<Just(7)>>, <<Span(1, 5)>>, <<Every(Just(3), 2)>>, <<Every(Star, 0)>>}
MCFields ==
  LET Hours == {<<Star>>, <<Just(1)>>}
  IN {<<m, h, d, <<Star>>, w>> : m \in MCSmall, h \in Hours, d \in MCDates, w \in MCWeekdays}
     \cup {<< <<Just(0)>>, h, d, <<Span(2, 3)>>, w>> :
             h \in Hours, d \in MCDates, w \in {<<Star>>, <<Span(1, 5)>>}}
     \cup {<<s, m, <<Just(0)>>, d, <<Star>>, w>> :
             s \in {<<Just(1)>>, <<Every(Star, 2)>>}, m \in Hours, d \in MCDates,
             w \in {<<Star>>, <<Just(7)>>}}
     \cup {<<>>}
MCExpressions == [shorthand : {""}, fields : MCFields]
                 \cup [shorthand : {"yearly", "monthly", "weekly", "daily", "hourly", "reboot"},
                       fields : {<<>>}]
MCFirstDay == [year |-> 2028, month |-> 2, date |-> 25, weekday |-> 5]

(* Diff: all documents of up to three lines of two; shorter ones of lines     *)
(* that differ in case, in padding or in one word; and three long ones.       *)
MCDocs(lines, n) == UNION {[1 .. m -> lines] : m \in 0 .. n}
MCDocuments ==
  LET One == Line(<<1>>)
      Two == Line(<<2>>)
  IN MCDocs({One, Two}, 3)
     \cup MCDocs({Line(<<-1>>), Padded(<<1>>), Line(<<2, 1, 1>>)}, 2)
     \cup {<<One, Two, One, One, Two>>, <<Two, Two, One, Two, One>>, <<Two, One, One, One, Two>>}
MCContexts == {0, 1}

(* JSONPath: three documents that nest arrays and objects, and a segment of   *)
(* each kind in its variants.                                                 *)
MCJsonDocuments ==
  LET N(v) == Scalar("number", v)
      S(v) == Scalar("string", v)
      Pair(v) == Object(<<"a", "b">>, <<N(v), S(v)>>)
  IN {Array(<<Pair(1), Pair(2), Object(<<"b", "a:b">>, <<Null, N(1)>>), N(3), Array(<<N(1), Pair(1)>>)>>),
      Object(<<"a", "b", "a:b">>, <<Array(<<N(1), N(2), N(3), N(2)>>), Pair(2), Pair(1)>>),
      Object(<<"b", "a">>, <<Object(<<"a">>, <<Pair(2)>>), Array(<<Array(<<>>), Pair(1)>>)>>)}
MCSteps ==
  LET Name(n) == [name |-> n, index |-> 0]
      No == Primitive("null", 0)
  IN {ChildStep(<<"a">>), ChildStep(<<"b", "a">>), ChildStep(<<"a:b">>), IndexStep(<<0>>), IndexStep(<<-1, 1>>),
      SliceStep(<<1>>, <<>>, 1), SliceStep(<<>>, <<-1>>, 2), SliceStep(<<>>, <<>>, -1), SliceStep(<<-1>>, <<0>>, -2),
      SliceStep(<<-9>>, <<9>>, 1), SliceStep(<<>>, <<>>, 0),
      WildcardStep, DescendStep(<<>>), DescendStep(<<"a">>),
      FilterStep(<<Name("a")>>, "exists", No), FilterStep(<<Name("toString")>>, "exists", No),
      FilterStep(<<Name("a")>>, ">=", Primitive("number", 2)), FilterStep(<<Name("b")>>, "<", Primitive("string", 2)),
      FilterStep(<<>>, "==", Primitive("number", 2)), FilterStep(<<Name("a")>>, "!=", No),
      FilterStep(<<[name |-> "", index |-> 1], Name("a")>>, "exists", No)}

(* SQL: one lexeme for each way the formatter and the tokenizer treat one.    *)
MCLexemes ==
  {Token("keyword", word) : word \in {"SELECT", "DELETE", "FROM", "BY", "NULL"}}
  \cup {Token("operator", op) : op \in {".", "-", "=", ">"}}
  \cup {Token("punct", mark) : mark \in {"(", ")", ",", ";"}}
  \cup {Token("identifier", "A"), Token("number", "1"), Token("comment", "--"), Token("comment", "/*"),
        Token("string", "'"), [Token("string", "'") EXCEPT !.layered = TRUE]}

(* Types: records of one or two keys, and lists of one or two of them, whose   *)
(* fields are leaves, lists of up to two leaves or records in turn; a list in  *)
(* a list; and one nested too deep. Both keys make the name "Item" in a list.  *)
MCSamples ==
  LET leaves == {Kind("integer"), Kind("string"), Kind("null")}
      lists == {List(items) : items \in UNION {[1 .. n -> leaves] : n \in 0 .. 2}}
      one(keys, S) == {Record(f) : f \in UNION {[K -> S] : K \in SUBSET keys}}
      inner == one({"item"}, {Kind("integer"), Kind("null")})
      rows == {Record(f) : f \in [{"items"} -> leaves \cup {Kind("number")} \cup lists \cup inner]}
              \cup {Record([key \in {"item", "items"} |-> IF key = "item" THEN v ELSE List(<<v>>)]) : v \in inner}
              \cup {Record(<<>>)}
  IN rows \cup {List(<<r>>) : r \in rows} \cup {List(<<r, s>>) : r, s \in rows}
     \cup {List(<<List(<<r>>), List(<<Record(<<>>), Kind("boolean")>>)>>) : r \in rows}
     \cup {Record([key \in {"items"} |-> List(<<List(<<List(<<Kind("null")>>)>>)>>)])}
MCPascalCase == [name \in {"item", "items", "Row", "Rows"} |->
                   CASE name = "item" -> "Item" [] name = "items" -> "Items" [] OTHER -> name]
MCSingularize == [name \in {"item", "items", "Row", "Rows"} |->
                    IF name \in {"Row", "Rows"} THEN "Row" ELSE "item"]
===============================================================================
