------------------------------- MODULE MCStores -------------------------------
(***************************************************************************)
(* A small instance of Stores for TLC.                                     *)
(***************************************************************************)
EXTENDS Stores

CONSTANTS a1, a2   \* properties, attributes, columns

\* Expressions out of two comparisons, with groups at most one deep.
Number(n_) == [type |-> "number", value |-> n_]
Token(kind, text) == [kind |-> kind, text |-> text]
Compares(field, op, literal) ==
  <<Token("ident", field), Token("op", op), Token("literal", literal)>>
Phrases ==
  {Compares(a1, "gt", Number(1)), Compares(a2, "ne", Number(1))}
    \cup {<<Token(kind, a1)>> : kind \in {"and", "or", "(", ")"}}

FieldValues == {Number(1), Number(2)}

\* Rows with numbers, one with a string, one without the second column.
Cell(n_) == [kind |-> "number", n |-> n_]
Cells(first, second) == [c \in {a1, a2} |-> IF c = a1 THEN first ELSE second]
Records ==
  {Cells(Cell(1), Cell(1)), Cells(Cell(2), Cell(1)), Cells(Cell(1), Cell(2)),
   Cells([kind |-> "text", n |-> 1], Cell(2)), Cells(Cell(2), None)}
Where(column, op, n_) == [column |-> column, op |-> op, lit |-> Cell(n_)]
Word(word) == [op |-> word]
Exprs ==
  {<<Where(a1, "<", 2), Word("or"), Where(a2, "!=", 1), Word("and"), Where(a1, "==", 2)>>,
   <<Where(a2, ">=", 2)>>}
===============================================================================
