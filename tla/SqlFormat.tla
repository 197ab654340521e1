------------------------------- MODULE SqlFormat ------------------------------
(***************************************************************************)
(* The SQL assistant: sqlFormat.ts and SqlPage.tsx. Text is a sequence of  *)
(* lexemes with what stands before each: nothing, blanks, or the end of a  *)
(* line. The characters of a lexeme matter only where they decide whether  *)
(* it is still read as itself beside its neighbour. Indentation, the case  *)
(* of keywords and line numbers are layout, and left out.                  *)
(***************************************************************************)
EXTENDS Integers, Sequences, FiniteSets

CONSTANTS
  Lexemes,   \* bound: what the user types
  Dialects,  \* bound: the dialects chosen
  MaxLexemes \* bound: lexemes in the text

TokenTypes ==
  {"keyword", "identifier", "string", "number", "operator", "punct", "comment", "parameter"}

ASSUME SqlAssumption ==
  /\ MaxLexemes \in Nat
  /\ Lexemes \subseteq [type : TokenTypes, upper : STRING, layered : BOOLEAN]
  /\ Dialects \subseteq {"ansi", "postgres", "mysql", "sqlserver", "sqlite"}

VARIABLES
  sql,    \* the text typed
  dialect

sqlVars == <<sql, dialect>>

ClauseKeywords ==
  {"SELECT", "FROM", "WHERE", "GROUP", "HAVING", "ORDER", "LIMIT", "OFFSET", "UNION", "INTERSECT",
   "EXCEPT", "INSERT", "UPDATE", "DELETE", "SET", "VALUES", "RETURNING", "WITH", "WINDOW", "FETCH"}
JoinKeywords == {"JOIN", "INNER", "LEFT", "RIGHT", "FULL", "CROSS", "NATURAL", "LATERAL"}
ContinuationKeywords == {"AND", "OR", "ON"}

\* A token; a layered one is a string or block comment that has lines ending in
\* blanks, or empty lines, inside. A comment's upper is its opening, "--" or "/*".
Token(type, upper) == [type |-> type, upper |-> upper, layered |-> FALSE]
Is(token, type, upper) == token.type = type /\ token.upper = upper
Keyword(token, words) == token.type = "keyword" /\ token.upper \in words
LineComment(token) == Is(token, "comment", "--")
Lexeme(before, token) == [before |-> before, token |-> token]

-------------------------------------------------------------------------------
(* Reading *)

TwoCharacters == {<<"<", "=">>, <<">", "=">>, <<"<", ">">>, <<"!", "=">>, <<"|", "|">>, <<":", ":">>,
                  <<"-", ">">>, <<"=", ">">>, <<"-", "-">>, <<"/", "*">>}

Wordlike == {"keyword", "identifier", "number", "parameter"}

\* Whether two lexemes with nothing between them read as something else.
Joins(a, b) ==
  \/ a.type \in Wordlike /\ b.type \in {"keyword", "identifier", "number"}
  \/ a.type = "number" /\ Is(b, "operator", ".")
  \/ Is(a, "operator", ".") /\ b.type = "number"
  \/ a.type = "operator" /\ a.upper \in {":", "@"} /\ b.type \in {"keyword", "identifier"}
  \/ a.type = "operator" /\ b.type = "operator" /\ <<a.upper, b.upper>> \in TwoCharacters
  \/ a.type = "string" /\ b.type = "string"

\* One turn of tokenizeSql's loop: a line comment takes the rest of its line with it.
ReadLexeme(tokens, lexeme) ==
  LET last == tokens[Len(tokens)]
  IN IF tokens = <<>> THEN <<lexeme.token>>
     ELSE IF LineComment(last) /\ lexeme.before # "line" THEN tokens
     ELSE IF lexeme.before = "nothing" /\ Joins(last, lexeme.token)
            THEN [tokens EXCEPT ![Len(tokens)] = Token("joined", last.upper)]
     ELSE Append(tokens, lexeme.token)

\* The tokens after each lexeme.
Reading(text) ==
  LET read[n \in 0 .. Len(text)] == IF n = 0 THEN <<>> ELSE ReadLexeme(read[n - 1], text[n])
  IN read
TokenizeSql(text) == Reading(text)[Len(text)]

-------------------------------------------------------------------------------
(* Formatting *)

IsFunctionCall(tokens, i) ==
  i > 1 /\ (tokens[i - 1].type = "identifier" \/ Keyword(tokens[i - 1], {"CAST"}))

\* The formatter's state: the text so far, whether the current line is empty,
\* whether the next token goes without a space, and the open parentheses.
Blank == [out |-> <<>>, empty |-> TRUE, suppressSpace |-> FALSE, parenDepth |-> 0]

\* flush and startLine, which differ in the indentation only.
StartLine(f) == [f EXCEPT !.empty = TRUE, !.suppressSpace = FALSE]

Emit(f, token, spaceBefore) ==
  [f EXCEPT !.out = Append(@, Lexeme(IF f.empty THEN "line"
                                     ELSE IF spaceBefore /\ ~f.suppressSpace THEN "blanks" ELSE "nothing",
                                     token)),
            !.empty = FALSE, !.suppressSpace = FALSE]

Open(f) == [f EXCEPT !.suppressSpace = TRUE, !.parenDepth = @ + 1]
Close(f) == [f EXCEPT !.parenDepth = IF @ = 0 THEN 0 ELSE @ - 1]

Punctuate(f, tokens, i) ==
  LET token == tokens[i]
  IN CASE token.upper = "(" -> Open(Emit(f, token, ~IsFunctionCall(tokens, i)))
       [] token.upper = ")" -> Emit(Close(f), token, FALSE)
       [] token.upper = "," ->
            LET g == Emit(f, token, FALSE) IN IF f.parenDepth = 0 THEN StartLine(g) ELSE g
       [] token.upper = ";" -> StartLine(Emit(f, token, FALSE))
       [] OTHER -> Emit(f, token, FALSE)

\* Mutant: a comment does not end its line.
FormatTokenInline(f, tokens, i) ==
  LET token == tokens[i]
  IN IF token.type = "comment" THEN Emit(StartLine(f), token, FALSE)
     ELSE IF token.type = "punct" THEN Punctuate(f, tokens, i)
     ELSE IF Is(token, "operator", ".") THEN [Emit(f, token, FALSE) EXCEPT !.suppressSpace = TRUE]
     ELSE Emit(f, token, TRUE)

\* One turn of formatSql's loop. Keywords end lines only outside parentheses.
FormatToken(f, tokens, i) ==
  LET token == tokens[i]
      outside == token.type = "keyword" /\ f.parenDepth = 0
      Ends == \/ token.upper \in {"BY", "DISTINCT", "ALL", "WHERE", "FROM", "HAVING"}
              \/ /\ token.upper \in {"SELECT", "SET", "VALUES"}
                 /\ i < Len(tokens) /\ ~Keyword(tokens[i + 1], {"DISTINCT"})
  IN IF token.type = "comment" THEN StartLine(Emit(StartLine(f), token, FALSE))
     ELSE IF token.type = "punct" THEN Punctuate(f, tokens, i)
     ELSE IF outside /\ token.upper \in ClauseKeywords \cup JoinKeywords \cup ContinuationKeywords
       THEN LET g == Emit(StartLine(f), token, FALSE) IN IF Ends THEN StartLine(g) ELSE g
     ELSE IF outside /\ Ends THEN StartLine(Emit(f, token, TRUE))
     ELSE IF Is(token, "operator", ".") THEN [Emit(f, token, FALSE) EXCEPT !.suppressSpace = TRUE]
     ELSE Emit(f, token, TRUE)

\* The formatter's state after each token.
Formatting(tokens) ==
  LET formatted[n \in 0 .. Len(tokens)] ==
        IF n = 0 THEN Blank ELSE FormatToken(formatted[n - 1], tokens, n)
  IN formatted

\* formatSql: at last blanks at the ends of lines and runs of empty lines are
\* removed from the whole text, those inside a string or a comment too.
FormatSql(text) ==
  LET tokens == TokenizeSql(text)
      out == Formatting(tokens)[Len(tokens)].out
  IN [i \in DOMAIN out |-> Lexeme(out[i].before, [out[i].token EXCEPT !.layered = FALSE])]

-------------------------------------------------------------------------------
(* Linting: the rules that fire, by name *)

StatementEnd(tokens, from) ==
  LET ends == {i \in from .. Len(tokens) : Is(tokens[i], "punct", ";")}
  IN IF ends = {} THEN Len(tokens) + 1 ELSE CHOOSE i \in ends : \A j \in ends : i <= j

Depth(tokens, from, i) ==
  Cardinality({j \in from .. i : Is(tokens[j], "punct", "(")})
  - Cardinality({j \in from .. i : Is(tokens[j], "punct", ")")})

ClauseEnd(tokens, from) ==
  LET ends == {i \in from .. Len(tokens) :
                 \/ Is(tokens[i], "punct", ";")
                 \/ Depth(tokens, from, i) = 0 /\ Keyword(tokens[i], ClauseKeywords)}
  IN IF ends = {} THEN Len(tokens) + 1 ELSE CHOOSE i \in ends : \A j \in ends : i <= j

Has(tokens, type, upper) == \E i \in DOMAIN tokens : Is(tokens[i], type, upper)

UnboundedWrite(tokens) ==
  \E i \in DOMAIN tokens :
    /\ Keyword(tokens[i], {"DELETE", "UPDATE"})
    /\ \A j \in i .. StatementEnd(tokens, i) - 1 : ~Keyword(tokens[j], {"WHERE"})

StringConcatenation(tokens) ==
  \E i \in DOMAIN tokens :
    LET beside == {tokens[j].type : j \in {i - 1, i + 1} \cap DOMAIN tokens}
    IN tokens[i].type = "operator" /\ tokens[i].upper \in {"||", "+"} /\ {"string", "identifier"} \subseteq beside

CommaJoin(tokens) ==
  \E from \in DOMAIN tokens :
    /\ Keyword(tokens[from], {"FROM"}) /\ \A i \in 1 .. from - 1 : ~Keyword(tokens[i], {"FROM"})
    /\ \E i \in from + 1 .. ClauseEnd(tokens, from + 1) - 1 :
         Is(tokens[i], "punct", ",") /\ Depth(tokens, from + 1, i) = 0

\* The tokens each dialect does not share: LIMIT, TOP, ILIKE, || and ::. Styles
\* of quotation marks and placeholders are left out.
Foreign ==
  [sqlserver |-> {"LIMIT", "ILIKE", "||", "::"}, mysql |-> {"ILIKE", "||", "::"},
   postgres |-> {"TOP"}, sqlite |-> {"TOP", "ILIKE", "::"}, ansi |-> {"LIMIT", "TOP", "ILIKE", "::"}]

Findings(tokens) ==
  LET Next(i) == IF i < Len(tokens) THEN tokens[i + 1] ELSE Token("end", "")
  IN {rule \in {"unbounded-write", "destructive-ddl", "string-concatenation", "select-star",
                "null-comparison", "comma-join", "order-without-limit"} :
        CASE rule = "unbounded-write" -> UnboundedWrite(tokens)
          [] rule = "destructive-ddl" -> Has(tokens, "keyword", "DROP")
          [] rule = "string-concatenation" -> StringConcatenation(tokens)
          [] rule = "select-star" ->
               \E i \in DOMAIN tokens : Keyword(tokens[i], {"SELECT"}) /\ Is(Next(i), "operator", "*")
          [] rule = "null-comparison" ->
               \E i \in DOMAIN tokens : /\ tokens[i].type = "operator" /\ tokens[i].upper \in {"=", "<>", "!="}
                                        /\ Keyword(Next(i), {"NULL"})
          [] rule = "comma-join" -> CommaJoin(tokens)
          [] OTHER -> /\ Has(tokens, "keyword", "ORDER")
                      /\ ~Has(tokens, "keyword", "LIMIT") /\ ~Has(tokens, "keyword", "FETCH")}
     \cup {tokens[i].upper : i \in {j \in DOMAIN tokens : tokens[j].upper \in Foreign[dialect]}}

LintSql(text) == Findings(TokenizeSql(text))

-------------------------------------------------------------------------------
(* The page *)

SqlInit == sql = <<>> /\ dialect = "postgres"

\* setSql, by one lexeme: both memos are computed anew. What would join with
\* the lexeme before it is another lexeme.
TypeSql ==
  /\ Len(sql) < MaxLexemes
  /\ \E before \in {"nothing", "line"}, token \in Lexemes :
       /\ before = "nothing" /\ sql # <<>> =>
            ~LineComment(sql[Len(sql)].token) /\ ~Joins(sql[Len(sql)].token, token)
       /\ sql' = Append(sql, Lexeme(before, token))
  /\ UNCHANGED dialect

\* The Apply button: the text becomes what the page shows beside it.
ApplyFormatted == sql # <<>> /\ sql' = FormatSql(sql) /\ UNCHANGED dialect

SetDialect == dialect' \in Dialects /\ UNCHANGED sql

SqlNext == TypeSql \/ ApplyFormatted \/ SetDialect

-------------------------------------------------------------------------------
(* Properties *)

\* The texts of which this is claimed: a lone dot stands beside a number in no
\* statement; and a string or comment that has blank lines, or lines ending in
\* blanks, is not kept as it is.
Understood(tokens) ==
  \A i \in DOMAIN tokens :
    /\ ~tokens[i].layered
    /\ Is(tokens[i], "operator", ".") =>
         \A j \in {i - 1, i + 1} \cap DOMAIN tokens : tokens[j].type # "number"

\* The formatted statement is the same query: read back, it has the tokens of
\* the text, in their order, none joined with its neighbour where the space
\* between them is suppressed, none swallowed by a comment; and so the linter
\* finds in it what it finds in the text.
FormattingKeepsTheQuery ==
  Understood(TokenizeSql(sql)) =>
    /\ TokenizeSql(FormatSql(sql)) = TokenizeSql(sql)
    /\ LintSql(FormatSql(sql)) = LintSql(sql)

===============================================================================
