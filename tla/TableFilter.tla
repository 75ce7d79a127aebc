----------------------------- MODULE TableFilter -----------------------------
(***************************************************************************)
(* The $filter of a query on a table: the recursive-descent parser of      *)
(* internal/servers/tableserver/filter_parser.go over the tokens of        *)
(* filter_lexer.go, and the comparisons of odata.go.                       *)
(*                                                                         *)
(* What the code compiles to a function of an entity is here the set of    *)
(* the entities it accepts.                                                *)
(***************************************************************************)
EXTENDS Integers, SequencesExt, FiniteSetsExt

CONSTANTS
  Field,
  FieldValue,       \* what a property may be: pairs of a type and a number
  Phrase,           \* what expressions are made of: short sequences of tokens
  MaxPhrase,        \* bound: how many of them
  maxFilterDepth,
  Absent            \* the value of a property an entity does not have

VARIABLES
  expr,             \* the expression, as tokens
  phrases,
  filter            \* what parseFilter answers to it

filterVars == <<expr, phrases, filter>>

\* The tokens: "ident", "op", "literal" (a string, number or bool), "and", "or",
\* "(" and ")".
token(kind, text) == [kind |-> kind, text |-> text]

AnyEntity == [Field -> FieldValue \cup {Absent}]

\* A parser's result: whether it has succeeded, the position and depth it has
\* come to, and the entities accepted.
Parsed(pos, depth, accepted) ==
  [ok |-> TRUE, pos |-> pos, depth |-> depth, accepted |-> accepted]
errFilter == [ok |-> FALSE]

-----------------------------------------------------------------------------
(* compare: values of unlike types match no operator, ne included, and     *)
(* Booleans no order.  numericOp and stringOp alike.                       *)
compare(o, left, right) ==
  /\ left.type = right.type
  /\ CASE o = "eq" -> left.value = right.value
       [] o = "ne" -> left.value # right.value
       [] o = "gt" -> left.value > right.value /\ left.type # "bool"
       [] o = "ge" -> left.value >= right.value /\ left.type # "bool"
       [] o = "lt" -> left.value < right.value /\ left.type # "bool"
       [] o = "le" -> left.value <= right.value /\ left.type # "bool"

(* A number that does not parse is no literal to begin with (classifyWord),*)
(* so the parser cannot fail on one here.                                  *)
comparison(field, o, literal) ==
  {e \in AnyEntity : e[field] # Absent /\ compare(o, e[field], literal)}

Is(tokens, pos, kind) == pos <= Len(tokens) /\ tokens[pos].kind = kind

\* Where a parser may be: a position, and the depth.  parse is parseOr, which calls itself.
At(tokens) == (1..Len(tokens) + 1) \X (0..maxFilterDepth)

MutParsePrimaryDepthKept(tokens, parse, at) ==
  LET pos == at[1]
      depth == at[2]
  IN  IF Is(tokens, pos, "(")
      THEN LET group == IF depth + 1 > maxFilterDepth THEN errFilter ELSE parse[<<pos + 1, depth + 1>>]
           IN  IF group.ok /\ Is(tokens, group.pos, ")")
               THEN Parsed(group.pos + 1, group.depth, group.accepted) ELSE errFilter
      ELSE IF Is(tokens, pos, "ident") /\ Is(tokens, pos + 1, "op") /\ Is(tokens, pos + 2, "literal")
      THEN Parsed(pos + 3, depth,
                  comparison(tokens[pos].text, tokens[pos + 1].text, tokens[pos + 2].text))
      ELSE errFilter

parsePrimary(tokens, parse, at) ==
  LET pos == at[1]
      depth == at[2]
  IN  IF Is(tokens, pos, "(")
      THEN LET group == IF depth + 1 > maxFilterDepth THEN errFilter ELSE parse[<<pos + 1, depth + 1>>]
           IN  IF group.ok /\ Is(tokens, group.pos, ")")
               THEN Parsed(group.pos + 1, group.depth - 1, group.accepted) ELSE errFilter
      ELSE IF Is(tokens, pos, "ident") /\ Is(tokens, pos + 1, "op") /\ Is(tokens, pos + 2, "literal")
      THEN Parsed(pos + 3, depth,
                  comparison(tokens[pos].text, tokens[pos + 1].text, tokens[pos + 2].text))
      ELSE errFilter

Join(kind, left, right) == IF kind = "and" THEN left \cap right ELSE left \cup right

(* The loop of parseOr and parseAnd: an operand, and one more after each   *)
(* keyword, at most as often as there are tokens.                          *)
Loop(tokens, kind, operand, at) ==
  LET left[i \in 0..Len(tokens)] ==
        IF i = 0 THEN operand[at]
        ELSE LET l == left[i - 1] IN
             IF l.ok /\ Is(tokens, l.pos, kind)
             THEN LET right == operand[<<l.pos + 1, l.depth>>]
                  IN  IF right.ok
                      THEN Parsed(right.pos, right.depth, Join(kind, l.accepted, right.accepted))
                      ELSE right
             ELSE l
  IN  left[Len(tokens)]

parseAnd(tokens, parse, at) ==
  LET operand == [a \in At(tokens) |-> parsePrimary(tokens, parse, a)]
  IN  Loop(tokens, "and", operand, at)

parseOr(tokens, parse, at) ==
  LET operand == [a \in At(tokens) |-> parseAnd(tokens, parse, a)]
  IN  Loop(tokens, "or", operand, at)

filterParser(tokens) ==
  LET parse[at \in At(tokens)] == parseOr(tokens, parse, at) IN parse

parseFilter(tokens) ==
  IF tokens = <<>> THEN Parsed(1, 0, AnyEntity)
  ELSE LET all == filterParser(tokens)[<<1, 0>>]
       IN  IF all.ok /\ all.pos = Len(tokens) + 1 THEN all ELSE errFilter

-----------------------------------------------------------------------------
FilterAssumption ==
  /\ \A phrase \in Phrase : phrase \in Seq(ToSet(phrase))
  /\ maxFilterDepth \in Nat

Init ==
  /\ expr = <<>>
  /\ phrases = 0
  /\ filter = parseFilter(<<>>)

\* A client filters by a longer expression.
Query(phrase) ==
  /\ phrases < MaxPhrase
  /\ phrases' = phrases + 1
  /\ expr' = expr \o phrase
  /\ filter' = parseFilter(expr')

Next == \E phrase \in Phrase : Query(phrase)

Spec == Init /\ [][Next]_filterVars

-----------------------------------------------------------------------------
(* Properties.                                                             *)

\* How many parentheses are open after position i.
Nesting(tokens, i) ==
  Cardinality({j \in 1..i : tokens[j].kind = "("}) - Cardinality({j \in 1..i : tokens[j].kind = ")"})

\* Where tokens of a kind are in i..j, outside of the parentheses in i..j.
Outside(tokens, kind, i, j) ==
  {k \in i..j : tokens[k].kind = kind /\ Nesting(tokens, k) = Nesting(tokens, i - 1)}

\* What the tokens i..j mean, given what shorter ones do: they are split at their last or
\* outside of parentheses, if they have none at the last and, else they are a group or a
\* comparison.
MeaningOf(tokens, meaning, i, j) ==
  LET Split(kind) ==
        LET k == Max(Outside(tokens, kind, i, j))
            left == meaning[<<i, k - 1>>]
            right == meaning[<<k + 1, j>>]
        IN  IF left.ok /\ right.ok
            THEN [ok |-> TRUE, accepted |-> Join(kind, left.accepted, right.accepted)]
            ELSE errFilter
  IN  IF Outside(tokens, "or", i, j) # {} THEN Split("or")
      ELSE IF Outside(tokens, "and", i, j) # {} THEN Split("and")
      ELSE IF i < j /\ tokens[i].kind = "(" /\ tokens[j].kind = ")" THEN meaning[<<i + 1, j - 1>>]
      ELSE IF /\ j = i + 2
              /\ tokens[i].kind = "ident" /\ tokens[i + 1].kind = "op" /\ tokens[j].kind = "literal"
      THEN [ok |-> TRUE,
            accepted |-> {e \in AnyEntity : e[tokens[i].text] # Absent
                            /\ compare(tokens[i + 1].text, e[tokens[i].text], tokens[j].text)}]
      ELSE errFilter

Meaning(tokens) ==
  LET meaning[s \in (1..Len(tokens) + 1) \X (0..Len(tokens))] ==
        MeaningOf(tokens, meaning, s[1], s[2])
  IN  meaning

TooDeep == \E i \in DOMAIN expr : Nesting(expr, i) > maxFilterDepth

(* A filter is refused exactly if it is malformed or nested too deeply,    *)
(* however many groups stand side by side, and accepts what it means: and  *)
(* binds tighter than or (parseOr, parseAnd, parsePrimary).                *)
MeansWhatItSays ==
  expr # <<>> =>
    LET meaning == Meaning(expr)[<<1, Len(expr)>>] IN
    /\ filter.ok <=> meaning.ok /\ ~TooDeep
    /\ filter.ok => filter.accepted = meaning.accepted
=============================================================================
