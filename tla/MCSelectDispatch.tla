-------------------------- MODULE MCSelectDispatch --------------------------
(* SelectDispatch on the statements of one collection with LIMIT and OFFSET *)
(* up to 2, over collections of up to 3 rows and a ceiling of 2.            *)
EXTENDS SelectDispatch

Plain == [item |-> "price", where |-> FALSE, order |-> "none",
          limit |-> None, offset |-> None, distinct |-> FALSE]

Statement(outer, level) ==
  [outer |-> outer, inner |-> Plain, nested |-> FALSE, level |-> level]

Nested(outer, inner) ==
  [outer |-> outer, inner |-> inner, nested |-> TRUE, level |-> Unset]

Limits == {None, 1, 2}
Small == [item : {"price", "count", "max"}, where : BOOLEAN,
          order : {"none", "asc", "desc", "ann", "hybrid"},
          limit : Limits, offset : {None, 0, 1}, distinct : BOOLEAN]

\* A clause only where it can reach the server, or both values of it.
LevelsOf(q) == IF CarriesLevel(Statement(q, Unset)) THEN {Unset, "Strong"} ELSE {Unset}

Alone == {q \in Small : CarriedAlone(q)}

Inners == {q \in Alone : q.item = "price" /\ q.order = "none" /\ q.offset = None}
          \cup {[Plain EXCEPT !.order = o, !.limit = 2, !.where = w] : o \in {"asc", "ann"}, w \in BOOLEAN}
Outers == {q \in Small : CarriedByEngine(q) /\ q.offset # 0}

MCStatements ==
  UNION {{Statement(q, l) : l \in LevelsOf(q)} : q \in Alone}
  \cup {st \in {Nested(o, i) : o \in Outers, i \in Inners} : Carried(st)}

\* The statements of the disagreement.
OrderStatements == {Statement([Plain EXCEPT !.order = o], Unset) : o \in {"asc", "desc"}}
=============================================================================
