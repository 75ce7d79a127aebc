------------------------------- MODULE LogQuery -------------------------------
(***************************************************************************)
(* The log tables of Azure Monitor and the queries on them:                *)
(* internal/stores/monitorstore and the KQL pipeline of                    *)
(* internal/servers/monitorserver.  A query copies its table under the     *)
(* store's mutex and then works on the copy, stage after stage, beside     *)
(* calls of Ingest.                                                        *)
(***************************************************************************)
EXTENDS Integers, SequencesExt, FiniteSetsExt

CONSTANTS
  Column,
  Record,           \* what is ingested: a value for each column, see literal
  Expr,             \* the predicates of where, see parsePredicate
  MaxRow,           \* bound: how many records are ingested
  MaxStage,         \* bound: how many stages a query has
  nil               \* no value, table, query or order

VARIABLES
  table,            \* Store.tables[name]
  rows,             \* resultTable.rows
  stages,           \* how many stages the query has been through
  \* History, by the words of the stages rather than what they do.
  seen,             \* the rows the query has copied
  kept,             \* the ids of those it should still have
  sorts             \* what it has ordered them by, the last first

logVars == <<table, rows, stages, seen, kept, sorts>>

(* JSON numbers and strings: a kind and a number, in their order.          *)
literal(kind, n) == [kind |-> kind, n |-> n]
Alike(a, b) == a # nil /\ b # nil /\ a.kind = b.kind

Literals == {record[c] : record \in Record, c \in Column} \ {nil}

\* id is the row's place in the table.
Row(id, record) == [id |-> id, cells |-> record]
AnyRow == [id : Nat, cells : [Column -> Literals \cup {nil}]]

Keyword(word) == [op |-> word]

(* What is ingested, and the expressions that are not refused: there is a  *)
(* keyword between every two comparisons, and nowhere else.                *)
LogAssumption ==
  /\ Record \subseteq [Column -> Literals \cup {nil}]
  /\ \A v \in Literals : v.n \in Int
  /\ \A expr \in Expr :
       /\ expr \in Seq(ToSet(expr)) /\ Len(expr) % 2 = 1
       /\ \A i \in DOMAIN expr :
            IF i % 2 = 1 THEN expr[i].op \notin {"and", "or"}
            ELSE expr[i] \in {Keyword("and"), Keyword("or")}
  /\ nil \notin Seq(AnyRow)

Init ==
  /\ table = nil
  /\ rows = nil
  /\ stages = 0
  /\ seen = <<>>
  /\ kept = {}
  /\ sorts = <<>>

-----------------------------------------------------------------------------
(* One record; a call of Ingest appends several with the lock held, which  *)
(* shows queries fewer lengths of the table.                               *)
Ingest(record) ==
  LET old == IF table = nil THEN <<>> ELSE table IN
  /\ Len(old) < MaxRow
  /\ table' = Append(old, Row(Len(old) + 1, record))
  /\ UNCHANGED <<rows, stages, seen, kept, sorts>>

(* evalKQL up to its loop.  A query on no table changes nothing.           *)
Rows ==
  /\ rows = nil /\ table # nil
  /\ rows' = table
  /\ seen' = table
  /\ kept' = DOMAIN table
  /\ UNCHANGED <<table, stages, sorts>>

applyStage ==
  /\ rows # nil /\ stages < MaxStage
  /\ stages' = stages + 1
  /\ UNCHANGED <<table, seen>>

-----------------------------------------------------------------------------
(* where: comparisons joined by and and or.                                *)

Comparison(column, op, lit) == [column |-> column, op |-> op, lit |-> lit]

comparisonEval(c, cells) ==
  LET v == cells[c.column] IN
  /\ Alike(v, c.lit)
  /\ CASE c.op = "==" -> v.n = c.lit.n
       [] c.op = "!=" -> v.n # c.lit.n
       [] c.op = "<" -> v.n < c.lit.n
       [] c.op = "<=" -> v.n <= c.lit.n
       [] c.op = ">" -> v.n > c.lit.n
       [] c.op = ">=" -> v.n >= c.lit.n

splitKeyword(expr, word) ==
  LET cuts == {i \in DOMAIN expr : expr[i] = Keyword(word)} \cup {0, Len(expr) + 1}
  IN  {SubSeq(expr, i + 1, Min({j \in cuts : j > i}) - 1) : i \in cuts \ {Len(expr) + 1}}

\* The groups, of which one must hold; all of a group's comparisons must.
parsePredicate(expr) ==
  {UNION {ToSet(andPart) : andPart \in splitKeyword(orPart, "and")} :
     orPart \in splitKeyword(expr, "or")}

predicateEval(orGroups, cells) ==
  \E group \in orGroups : \A c \in group : comparisonEval(c, cells)

compareValues(a, b) ==
  CASE ~Alike(a, b) -> 0
    [] Alike(a, b) /\ a.n < b.n -> -1
    [] Alike(a, b) /\ a.n = b.n -> 0
    [] OTHER -> 1

MutLessIsNotGreater(column, desc, a, b) ==
  LET lt == compareValues(a.cells[column], b.cells[column]) < 0
  IN  IF desc THEN ~lt ELSE lt

\* The function applySort passes to sort.SliceStable.
less(column, desc, a, b) ==
  LET cmp == compareValues(a.cells[column], b.cells[column])
  IN  IF desc THEN ~(cmp < 0) /\ cmp # 0 ELSE cmp < 0

(* SliceStable, which sorts up to 20 rows by insertion: each goes after    *)
(* the last of the sorted rows it is not less than.                        *)
insertion(sorted, column, desc, row) ==
  LET stay == {i \in DOMAIN sorted : ~less(column, desc, row, sorted[i])}
  IN  InsertAt(sorted, Max(stay \cup {0}) + 1, row)

SliceStable(s, column, desc) ==
  LET sorted[i \in 0..Len(s)] ==
        IF i = 0 THEN <<>> ELSE insertion(sorted[i - 1], column, desc, s[i])
  IN  sorted[Len(s)]

-----------------------------------------------------------------------------
(* What the stages say.                                                    *)

\* A run of comparisons between two ors (or the ends) all of which hold.
Says(expr, cells) ==
  \E i, j \in DOMAIN expr :
    /\ i <= j
    /\ i = 1 \/ expr[i - 1] = Keyword("or")
    /\ j = Len(expr) \/ expr[j + 1] = Keyword("or")
    /\ \A k \in i..j : /\ expr[k] # Keyword("or")
                       /\ expr[k] # Keyword("and") => comparisonEval(expr[k], cells)

\* a before b: by the last order that tells them apart, or as they were ingested.
Precedes(a, b) ==
  LET Before(s, x, y) ==
        LET v == seen[x].cells[s.column]
            w == seen[y].cells[s.column]
        IN  IF s.desc THEN v.n > w.n ELSE v.n < w.n
      Tells(s) == Before(s, a, b) \/ Before(s, b, a)
      Telling == {i \in DOMAIN sorts : Tells(sorts[i])}
  IN  IF Telling = {} THEN a < b ELSE Before(sorts[Min(Telling)], a, b)

\* Once unlike values have been sorted, nothing more is said.
Say(ids, orders) ==
  /\ sorts' = IF sorts = nil THEN nil ELSE orders
  /\ kept' = IF sorts' = nil THEN {} ELSE ids

-----------------------------------------------------------------------------
applyWhere(expr) ==
  /\ applyStage
  /\ rows' = LET match[i \in 0..Len(rows)] ==
                   IF i = 0 THEN <<>>
                   ELSE IF predicateEval(parsePredicate(expr), rows[i].cells)
                        THEN Append(match[i - 1], rows[i]) ELSE match[i - 1]
             IN  match[Len(rows)]
  /\ Say({rows[i].id : i \in {j \in DOMAIN rows : Says(expr, rows[j].cells)}} \cap kept, sorts)

(* The stages that follow find no value in the other columns.              *)
applyProject(columns) ==
  /\ applyStage
  /\ rows' = [i \in DOMAIN rows |->
       Row(rows[i].id, [c \in Column |-> IF c \in columns THEN rows[i].cells[c] ELSE nil])]
  /\ Say(kept, sorts)

applyTake(n) ==
  /\ applyStage
  /\ rows' = SubSeq(rows, 1, Min({n, Len(rows)}))
  /\ Say({i \in kept : Cardinality({j \in kept : Precedes(j, i)}) < n}, sorts)

applySort(column, desc) ==
  LET cells == {rows[i].cells[column] : i \in DOMAIN rows} IN
  /\ applyStage
  /\ rows' = SliceStable(rows, column, desc)
  /\ Say(kept, IF cells \subseteq {nil} THEN sorts
               ELSE IF \A v, w \in cells : Alike(v, w)
                    THEN <<[column |-> column, desc |-> desc]>> \o sorts ELSE nil)

(* The query is answered, or refused at a stage that is malformed.  A      *)
(* count answers one row of its own.                                       *)
Answer ==
  /\ rows # nil
  /\ rows' = nil
  /\ stages' = 0
  /\ seen' = <<>>
  /\ kept' = {}
  /\ sorts' = <<>>
  /\ UNCHANGED table

Next ==
  \/ \E record \in Record : Ingest(record)
  \/ Rows
  \/ \E expr \in Expr : applyWhere(expr)
  \/ \E columns \in (SUBSET Column) \ {{}} : applyProject(columns)
  \/ \E n \in 0..MaxRow : applyTake(n)
  \/ \E column \in Column, desc \in BOOLEAN : applySort(column, desc)
  \/ Answer

Spec == Init /\ [][Next]_logVars

-----------------------------------------------------------------------------
(* Properties.                                                             *)

(* A query has the rows its stages say, each once, in the order they say:  *)
(* by the last sort, where that ties by the one before, and last as they   *)
(* were ingested ("so the sort stays stable"), whatever is ingested        *)
(* meanwhile, filtered or cut in between.  Not after a sort by a column in *)
(* which some rows have no value or an unlike one: those are equal to all, *)
(* and rows on their two sides stay out of order.                          *)
StagesMean ==
  rows # nil /\ sorts # nil =>
    /\ {rows[i].id : i \in DOMAIN rows} = kept
    /\ \A i, j \in DOMAIN rows : i < j => Precedes(rows[i].id, rows[j].id)
=============================================================================
