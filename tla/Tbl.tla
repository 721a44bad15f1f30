-------------------------------- MODULE Tbl ---------------------------------
(***************************************************************************)
(* The statement builder of tbl/: grep_view makes conditions, the views    *)
(* for select, update and remove collect them.  A text is a sequence of    *)
(* tokens: comparisons, "and", "or", and a parenthesis with its text.      *)
(***************************************************************************)
EXTENDS Integers, Sequences, SequencesExt

Token(k, a, in) == [k |-> k, a |-> a, in |-> in]
Comparison(field, op, value) == Token("cmp", [field |-> field, op |-> op, value |-> value], <<>>)
And == Token("and", <<>>, <<>>)
Or == Token("or", <<>>, <<>>)

-----------------------------------------------------------------------------
(* grep_view: the text and has_aggr_, "more than one comparison".          *)

grep == [content |-> <<>>, has_aggr |-> FALSE]

(* less, less_equal, greater, greater_equal, equal: the text so far is     *)
(* replaced; has_aggr_ stays.                                              *)
compare(g, field, op, value) == [g EXCEPT !.content = <<Comparison(field, op, value)>>]

(* operator std::string.                                                   *)
grep_string(g) == IF g.has_aggr THEN <<Token("paren", <<>>, g.content)>> ELSE g.content

(* Faulty: the parentheses are forgotten.                                  *)
or_bare(g, h) == [g EXCEPT !.content = @ \o <<Or>> \o grep_string(h)]

(* _or: operator||.                                                        *)
or(g, h) == [content |-> g.content \o <<Or>> \o grep_string(h), has_aggr |-> TRUE]

-----------------------------------------------------------------------------
(* A view: the conditions it has so far.  The views are global objects;    *)
(* their operator() starts a new statement.                                *)

view == [has_condition |-> FALSE, where |-> <<>>]

select_view(v) == [v EXCEPT !.has_condition = FALSE, !.where = <<>>]
remove_view(v) == [v EXCEPT !.has_condition = FALSE, !.where = <<>>]

insert_view(row) == [op |-> "insert", row |-> row, where |-> <<>>]

(* The assignments of an update are joined with "and", so the database     *)
(* reads one: the first field becomes the truth value of all that follows. *)
update_view(row) == [op |-> "update", row |-> row, where |-> <<>>]

(* merge: operator| with a grep_view.                                      *)
merge(v, g) ==
    [has_condition |-> TRUE,
     where |-> IF v.has_condition THEN v.where \o <<And>> \o grep_string(g) ELSE grep_string(g)]

-----------------------------------------------------------------------------
(* The database's reading of a condition: "and" binds more than "or".      *)

CompareHolds(c, row) ==
    LET x == row[c.field] IN
    CASE c.op = "=" -> x = c.value
      [] c.op = "<" -> x < c.value
      [] c.op = "<=" -> x <= c.value
      [] c.op = ">" -> x > c.value
      [] c.op = ">=" -> x >= c.value

RECURSIVE Holds(_, _)

(* Tokens from..to are one operand of an "or" of the text.                 *)
OrOperand(text, from, to) ==
    /\ from = 1 \/ text[from - 1].k = "or"
    /\ to = Len(text) \/ text[to + 1].k = "or"
    /\ \A j \in from..to : text[j].k # "or"

Holds(text, row) ==
    \/ text = <<>>
    \/ \E from \in DOMAIN text : \E to \in from..Len(text) :
           /\ OrOperand(text, from, to)
           /\ \A j \in from..to :
                  CASE text[j].k = "cmp" -> CompareHolds(text[j].a, row)
                    [] text[j].k = "paren" -> Holds(text[j].in, row)
                    [] OTHER -> TRUE
=============================================================================
