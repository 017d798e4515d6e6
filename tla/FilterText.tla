----------------------------- MODULE FilterText -----------------------------
(***************************************************************************)
(* render_filter and render_predicate (_common.py): a WHERE tree and its   *)
(* bind value become an expression of Milvus's filter language, or the     *)
(* statement is refused before anything is sent.  The tree is compared     *)
(* with SQL's three-valued meaning of the same WHERE.  What Milvus makes   *)
(* of an expression is external: three-valued too, and a bare column is no *)
(* predicate to it.                                                        *)
(***************************************************************************)
EXTENDS Integers, Sequences, SequencesExt

CONSTANTS
  Null, Missing,  \* NULL; a bind value the caller did not give
  Bind,           \* the placeholder :p
  Alike           \* the values LIKE's pattern matches

Cmp(op, x, y) ==
  CASE op = "=" -> x = y [] op = "<>" -> x # y
    [] op = ">" -> x > y [] op = ">=" -> x >= y
    [] op = "<" -> x < y [] op = "<=" -> x <= y

-----------------------------------------------------------------------------
(* Three-valued logic: "T", "F" and "U" for unknown.                       *)

Truth(b) == IF b THEN "T" ELSE "F"
Not3(a) == CASE a = "T" -> "F" [] a = "F" -> "T" [] OTHER -> "U"
All3(s) == CASE "F" \in s -> "F" [] "U" \in s -> "U" [] OTHER -> "T"
Any3(s) == CASE "T" \in s -> "T" [] "U" \in s -> "U" [] OTHER -> "F"
Cmp3(op, x, y) == IF Null \in {x, y} THEN "U" ELSE Truth(Cmp(op, x, y))

\* resolve_value: a literal is itself, the placeholder what it is bound to.
Resolve(arg, p) == IF arg = Bind THEN p ELSE arg

\* SQL's meaning of a WHERE tree for a row.
RECURSIVE Sql(_, _, _)
Sql(w, row, p) ==
  LET val(a) == Resolve(a, p) IN
  CASE w.kind = "cmp" -> Cmp3(w.op, row[w.col], val(w.arg))
    [] w.kind \in {"in", "in select"} ->
         Any3({Cmp3("=", row[w.col], val(a)) : a \in ToSet(w.list)})
    [] w.kind = "like" ->
         LET like == IF row[w.col] = Null THEN "U" ELSE Truth(row[w.col] \in Alike)
         IN IF w.negate THEN Not3(like) ELSE like
    [] w.kind = "between" ->
         All3({Cmp3(">=", row[w.col], val(w.low)), Cmp3("<=", row[w.col], val(w.high))})
    [] w.kind = "is null" -> Truth(row[w.col] = Null)
    [] w.kind = "is true" -> Truth(row[w.col] = 1)
    [] w.kind = "column" -> Cmp3("=", row[w.col], 1)
    [] w.kind = "not" -> Not3(Sql(w.of, row, p))
    [] w.kind = "and" -> All3({Sql(w.left, row, p), Sql(w.right, row, p)})
    [] w.kind = "or" -> Any3({Sql(w.left, row, p), Sql(w.right, row, p)})

-----------------------------------------------------------------------------
(* _common.py                                                              *)

First(errors) == LET some == SelectSeq(errors, LAMBDA e : e # "") IN
                 IF some = <<>> THEN "" ELSE some[1]

\* resolve_value and render_filter_value: no value, or one the language has
\* no spelling for.
RefuseValue(arg, p) ==
  CASE Resolve(arg, p) = Missing -> "ProgrammingError"
    [] Resolve(arg, p) = Null -> "NotSupportedError"
    [] OTHER -> ""

RefuseList(list, p) == First([i \in DOMAIN list |-> RefuseValue(list[i], p)])

\* Fault: a subquery is not noticed, and IN renders its empty value list.
RefuseLeafOnly(w, p) ==
  CASE w.kind = "cmp" -> RefuseValue(w.arg, p)
    [] w.kind = "in" -> RefuseList(w.list, p)
    [] w.kind = "between" -> RefuseList(<<w.low, w.high>>, p)
    [] w.kind = "is true" -> "NotSupportedError"
    [] OTHER -> ""

\* The error render_filter raises for one predicate, "" if it renders it.
RefuseLeaf(w, p) ==
  CASE w.kind = "cmp" -> RefuseValue(w.arg, p)
    [] w.kind = "in" -> RefuseList(w.list, p)
    [] w.kind = "between" -> RefuseList(<<w.low, w.high>>, p)
    [] w.kind \in {"in select", "is true"} -> "NotSupportedError"
    [] OTHER -> ""

\* For a tree: that of its leftmost predicate in error.
RECURSIVE Refusal(_, _)
Refusal(w, p) ==
  CASE w.kind = "not" -> Refusal(w.of, p)
    [] w.kind \in {"and", "or"} -> First(<<Refusal(w.left, p), Refusal(w.right, p)>>)
    [] OTHER -> RefuseLeaf(w, p)

Compare(field, op, v) == [dsl |-> "cmp", field |-> field, op |-> op, v |-> v]
Negation(e) == [dsl |-> "not", of |-> e]

\* The filter expression of a tree Refusal lets pass.  Every operand of and,
\* or and not is a predicate, so a bare column becomes col == true there; the
\* WHERE itself is one (render_predicate).
RECURSIVE Render(_, _)
Render(w, p) ==
  LET val(a) == Resolve(a, p) IN
  CASE w.kind = "cmp" -> Compare(w.col, w.op, val(w.arg))
    [] w.kind = "in" /\ w.list # <<>> ->
         [dsl |-> "in", field |-> w.col, vs |-> {val(a) : a \in ToSet(w.list)}]
    [] w.kind \in {"in", "in select"} -> [dsl |-> "false"]
    [] w.kind = "like" ->
         LET like == [dsl |-> "like", field |-> w.col]
         IN IF w.negate THEN Negation(like) ELSE like
    [] w.kind = "between" ->
         [dsl |-> "and", left |-> Compare(w.col, ">=", val(w.low)),
                         right |-> Compare(w.col, "<=", val(w.high))]
    [] w.kind = "is null" -> [dsl |-> "null", field |-> w.col]
    [] w.kind = "column" -> Compare(w.col, "=", 1)
    [] w.kind = "not" -> Negation(Render(w.of, p))
    [] w.kind \in {"and", "or"} ->
         [dsl |-> w.kind, left |-> Render(w.left, p), right |-> Render(w.right, p)]

\* What Milvus computes for an expression and a row.
RECURSIVE Milvus(_, _)
Milvus(e, row) ==
  CASE e.dsl = "cmp" -> Cmp3(e.op, row[e.field], e.v)
    [] e.dsl = "in" -> IF row[e.field] = Null THEN "U" ELSE Truth(row[e.field] \in e.vs)
    [] e.dsl = "like" -> IF row[e.field] = Null THEN "U" ELSE Truth(row[e.field] \in Alike)
    [] e.dsl = "null" -> Truth(row[e.field] = Null)
    [] e.dsl = "false" -> "F"
    [] e.dsl = "not" -> Not3(Milvus(e.of, row))
    [] e.dsl = "and" -> All3({Milvus(e.left, row), Milvus(e.right, row)})
    [] e.dsl = "or" -> Any3({Milvus(e.left, row), Milvus(e.right, row)})

\* The rows a rendered filter selects, and those the SQL text means.
Matches(w, row, p) == Milvus(Render(w, p), row) = "T"
Means(w, row, p) == Sql(w, row, p) = "T"
=============================================================================
