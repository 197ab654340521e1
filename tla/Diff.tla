--------------------------------- MODULE Diff ---------------------------------
(***************************************************************************)
(* The text diff: diff.ts and DiffPage.tsx. A document is a sequence of    *)
(* lines; a line is its words, each one letter long, with a space between  *)
(* two of them and, if it is padded, one more at its end. The word -w is w *)
(* in the other letter case. An edit script is a sequence of kinds: that   *)
(* the code keeps it run-length encoded is left out.                      *)
(***************************************************************************)
EXTENDS Integers, Sequences, FiniteSets, SequencesExt, FiniteSetsExt

CONSTANTS
  Documents,  \* bound: what the user types on either side
  Contexts    \* bound: the numbers chosen as context

\* The field for the context says that it is not negative.
ASSUME DiffAssumption ==
  /\ Documents \subseteq Seq([words : Seq(Int), padded : BOOLEAN])
  /\ Contexts \subseteq Nat

VARIABLES
  leftDoc, rightDoc, \* the two documents
  options      \* [ignoreWhitespace, ignoreCase, context]

diffVars == <<leftDoc, rightDoc, options>>

Line(words) == [words |-> words, padded |-> FALSE]
Padded(words) == [words |-> words, padded |-> TRUE]

Normalize(line) ==
  [words |-> IF options.ignoreCase
               THEN [i \in DOMAIN line.words |-> IF line.words[i] < 0 THEN -line.words[i] ELSE line.words[i]]
               ELSE line.words,
   padded |-> line.padded /\ ~options.ignoreWhitespace]

Times(n, kind) == [i \in 1 .. n |-> kind]

-------------------------------------------------------------------------------
(* The Myers search *)

\* The matching run that starts after x items of a and y of b.
Run(a, b, x, y) ==
  Max({0} \cup {n \in 1 .. Min({Len(a) - x, Len(b) - y}) :
                  \A i \in 1 .. n : a[x + i] = b[y + i]})

\* Whether diagonal k is reached at step d from the one above it, by an insert.
Down(v, d, k) == k = -d \/ (k # d /\ v[k - 1] < v[k + 1])

\* The furthest x on diagonal k after step d.
Furthest(a, b, v, d, k) ==
  LET x == IF Down(v, d, k) THEN v[k + 1] ELSE v[k - 1] + 1
  IN x + Run(a, b, x, x - k)

\* The diagonals of step d.
Diagonals(d) == {k \in -d .. d : (k + d) % 2 = 0}

\* One turn of diffMiddle's loop.
SearchStep(a, b, v, d) ==
  [k \in DOMAIN v |-> IF k \in Diagonals(d) THEN Furthest(a, b, v, d, k) ELSE v[k]]

\* The v that step d starts from.
Trace(a, b) ==
  LET max == Len(a) + Len(b)
      start == [k \in -(max + 1) .. max + 1 |-> IF k = 1 THEN 0 ELSE -1]
      trace[d \in 0 .. max + 1] ==
        IF d = 0 THEN start ELSE SearchStep(a, b, trace[d - 1], d - 1)
  IN trace

\* Whether the step that left v has reached the end of both sides.
Reaches(a, b, v, d) == \E k \in Diagonals(d) : v[k] >= Len(a) /\ v[k] - k >= Len(b)

\* One turn of backtrack's loop: from `at`, on step d, to where step d - 1 had come.
StepBack(trace, d, at) ==
  LET v == trace[d]
      k == at.x - at.y
      down == Down(v, d, k)
      prevK == IF down THEN k + 1 ELSE k - 1
      prevX == v[prevK]
      same == Max({0, Min({at.x - prevX, at.y - (prevX - prevK)})})
  IN [x |-> (at.x - same) - (IF down THEN 0 ELSE 1),
      y |-> (at.y - same) - (IF down THEN 1 ELSE 0),
      script |-> <<IF down THEN "insert" ELSE "delete">> \o Times(same, "equal") \o at.script]

\* Where each turn of backtrack's loop comes to, from the end of both sides.
Way(a, b, found) ==
  LET way[n \in 0 .. found] ==
        IF n = 0 THEN [x |-> Len(a), y |-> Len(b), script |-> <<>>]
        ELSE StepBack(Trace(a, b), found - n + 1, way[n - 1])
  IN way

Backtrack(a, b, found) ==
  LET at == Way(a, b, found)[found]
      same == Min({at.x, at.y})
  IN Times(at.y - same, "insert") \o Times(at.x - same, "delete") \o Times(same, "equal") \o at.script

DiffMiddle(a, b) ==
  LET reached == {d \in 0 .. Len(a) + Len(b) : Reaches(a, b, Trace(a, b)[d + 1], d)}
  IN IF a = <<>> THEN Times(Len(b), "insert")
     ELSE IF b = <<>> THEN Times(Len(a), "delete")
     ELSE IF reached = {} THEN Times(Len(a), "delete") \o Times(Len(b), "insert")
     ELSE Backtrack(a, b, Min(reached))

\* Mutant: the suffix may reach into the prefix.
MyersDiffOverlapping(a, b) ==
  LET prefix == Run(a, b, 0, 0)
      suffix == Run(Reverse(a), Reverse(b), 0, 0)
      Middle(s) == SubSeq(s, prefix + 1, Len(s) - suffix)
  IN Times(prefix, "equal") \o DiffMiddle(Middle(a), Middle(b)) \o Times(suffix, "equal")

\* The common prefix and suffix are stripped first.
MyersDiff(a, b) ==
  LET prefix == Run(a, b, 0, 0)
      suffix == Run(Reverse(SubSeq(a, prefix + 1, Len(a))), Reverse(SubSeq(b, prefix + 1, Len(b))), 0, 0)
      Middle(s) == SubSeq(s, prefix + 1, Len(s) - suffix)
  IN Times(prefix, "equal") \o DiffMiddle(Middle(a), Middle(b)) \o Times(suffix, "equal")

-------------------------------------------------------------------------------
(* The result *)

Script == MyersDiff([i \in DOMAIN leftDoc |-> Normalize(leftDoc[i])],
                    [i \in DOMAIN rightDoc |-> Normalize(rightDoc[i])])

\* How many of the first i changes are of these kinds.
Passed(script, kinds, i) == Cardinality({j \in 1 .. i : script[j] \in kinds})

\* diffText's lines: numbers are 0 on the side a line is not on, and a line that
\* is equal on both is shown as it is on the left.
DiffLines ==
  LET script == Script
  IN [i \in DOMAIN script |->
        LET l == IF script[i] = "insert" THEN 0 ELSE Passed(script, {"equal", "delete"}, i)
            r == IF script[i] = "delete" THEN 0 ELSE Passed(script, {"equal", "insert"}, i)
        IN [kind |-> script[i], leftNumber |-> l, rightNumber |-> r,
            text |-> IF l # 0 THEN leftDoc[l] ELSE rightDoc[r]]]

\* tokenizeWords: words and the gaps, 0, around them.
Tokens(line) ==
  LET n == Len(line.words)
  IN [i \in 1 .. Max({0, 2 * n - 1}) + (IF line.padded THEN 1 ELSE 0) |->
        IF i % 2 = 1 /\ i < 2 * n THEN line.words[(i + 1) \div 2] ELSE 0]

\* isSimilar: half of the longer line's characters are shared.
IsSimilar(a, b) ==
  LET Count(s, c) == Cardinality({i \in DOMAIN s : s[i] = c})
      shared == FoldSet(LAMBDA c, n : n + Min({Count(a, c), Count(b, c)}), 0, Range(a))
  IN a # <<>> /\ b # <<>> /\ 2 * shared >= Max({Len(a), Len(b)})

\* annotateWordChanges: the delete at i and the insert after it are compared
\* word by word.
Paired(lines, i) ==
  /\ i + 1 \in DOMAIN lines
  /\ lines[i].kind = "delete" /\ lines[i + 1].kind = "insert"
  /\ i + 2 \in DOMAIN lines => lines[i + 2].kind # "insert"
  /\ IsSimilar(Tokens(lines[i].text), Tokens(lines[i + 1].text))

Words(lines, i) == MyersDiff(Tokens(lines[i].text), Tokens(lines[i + 1].text))

\* buildHunks: the first and last line of each hunk, as the changed lines are met.
Around(lines, context, i) ==
  [start |-> Max({1, i - context}), end |-> Min({Len(lines), i + context})]

ExtendHunks(lines, context, hunks, i) ==
  IF hunks # <<>> /\ i - context <= Last(hunks).end + 1
    THEN [hunks EXCEPT ![Len(hunks)].end = Around(lines, context, i).end]
    ELSE Append(hunks, Around(lines, context, i))

BuildHunks(lines, context) ==
  LET hunks[i \in 0 .. Len(lines)] ==
        IF i = 0 THEN <<>>
        ELSE IF lines[i].kind = "equal" THEN hunks[i - 1]
        ELSE ExtendHunks(lines, context, hunks[i - 1], i)
  IN hunks[Len(lines)]

\* makeHunk's header: how many of the lines are on either side, and the number
\* of the first, 0 when there is none.
Header(lines, hunk) ==
  LET On(side) == {i \in hunk.start .. hunk.end : lines[i][side] # 0}
      First(side) == IF On(side) = {} THEN 0 ELSE lines[Min(On(side))][side]
  IN [leftStart |-> First("leftNumber"), leftCount |-> Cardinality(On("leftNumber")),
      rightStart |-> First("rightNumber"), rightCount |-> Cardinality(On("rightNumber"))]

Stats(lines) ==
  LET Count(kind) == Cardinality({i \in DOMAIN lines : lines[i].kind = kind})
  IN [added |-> Count("insert"), removed |-> Count("delete"), unchanged |-> Count("equal")]

\* The note that an option hid a difference.
HidesDifference(lines) ==
  /\ options.ignoreWhitespace \/ options.ignoreCase
  /\ Stats(lines).added = 0 /\ Stats(lines).removed = 0
  /\ leftDoc # rightDoc

-------------------------------------------------------------------------------
(* The page *)

NoOptions == [ignoreWhitespace |-> FALSE, ignoreCase |-> FALSE, context |-> 3]

DiffInit ==
  /\ leftDoc \in Documents /\ rightDoc \in Documents
  /\ options = NoOptions

SetSide == \/ leftDoc' \in Documents /\ UNCHANGED <<rightDoc, options>>
           \/ rightDoc' \in Documents /\ UNCHANGED <<leftDoc, options>>

SetOption ==
  /\ \/ options' = [options EXCEPT !.ignoreWhitespace = ~@]
     \/ options' = [options EXCEPT !.ignoreCase = ~@]
     \/ \E n \in Contexts : options' = [options EXCEPT !.context = n]
  /\ UNCHANGED <<leftDoc, rightDoc>>

-------------------------------------------------------------------------------
(* Properties *)

\* The length of a longest common subsequence of each two beginnings of a and b,
\* by its textbook recursion.
Longest(a, b) ==
  LET longest[p \in (0 .. Len(a)) \X (0 .. Len(b))] ==
        LET i == p[1] j == p[2]
        IN IF i = 0 \/ j = 0 THEN 0
           ELSE IF a[i] = b[j] THEN longest[<<i - 1, j - 1>>] + 1
           ELSE Max({longest[<<i - 1, j>>], longest[<<i, j - 1>>]})
  IN longest

\* A script that turns a into b and keeps as much as can be kept.
IsMinimalScript(script, a, b) ==
  LET Left(i) == Passed(script, {"equal", "delete"}, i)
      Right(i) == Passed(script, {"equal", "insert"}, i)
  IN /\ Left(Len(script)) = Len(a) /\ Right(Len(script)) = Len(b)
     /\ \A i \in DOMAIN script : script[i] = "equal" => a[Left(i)] = b[Right(i)]
     /\ Passed(script, {"equal"}, Len(script)) = Longest(a, b)[<<Len(a), Len(b)>>]

\* The search through furthest points on diagonals and the walk back through
\* its trace give a script that turns the left document into the right one,
\* line for line and word for word in a paired line, and no shorter one does;
\* and what is grouped into hunks leaves no change out, shows no line twice, and
\* is on either side the lines that its header says.
DiffIsMinimalAndWhole ==
  LET Normal(doc) == [i \in DOMAIN doc |-> Normalize(doc[i])]
      Numbers(lines, hunk, side) == {lines[i][side] : i \in hunk.start .. hunk.end} \ {0}
  IN /\ IsMinimalScript(Script, Normal(leftDoc), Normal(rightDoc))
     /\ \A lines \in {DiffLines} :
          /\ \A i \in DOMAIN lines :
               Paired(lines, i) => IsMinimalScript(Words(lines, i), Tokens(lines[i].text),
                                                   Tokens(lines[i + 1].text))
          /\ \A hunks \in {BuildHunks(lines, options.context)} :
               /\ \A i \in DOMAIN lines : lines[i].kind # "equal" =>
                    \E h \in DOMAIN hunks : i \in hunks[h].start .. hunks[h].end
               /\ \A h \in 2 .. Len(hunks) : hunks[h - 1].end < hunks[h].start
               /\ \A h \in DOMAIN hunks :
                    LET head == Header(lines, hunks[h])
                    IN /\ Numbers(lines, hunks[h], "leftNumber") =
                            head.leftStart .. head.leftStart + head.leftCount - 1
                       /\ Numbers(lines, hunks[h], "rightNumber") =
                            head.rightStart .. head.rightStart + head.rightCount - 1

===============================================================================
