----------------------------- MODULE MCJoinRead -----------------------------
(* JoinRead on every two-frame statement and on the three-frame chains of   *)
(* equi-joins, with at most two rows per collection, and on longer chains   *)
(* whose last read restricts an earlier one, with at most one.              *)
EXTENDS JoinRead, TLC

Join(how, on, cond) == [how |-> how, on |-> on, cond |-> cond]
Statement(joins, where, search) == [joins |-> joins, where |-> where, search |-> search]

SomeJoins == {Join(h, on, c) : h \in Hows, on \in {0, 1}, c \in BOOLEAN}
             \ {Join(h, 0, FALSE) : h \in Hows \ {"inner"}}
Pairs == {Statement(<<j>>, w, s) :
            j \in SomeJoins, w \in [1..2 -> Predicates], s \in 0..2}

\* One predicate at most, on any of the three frames.
OneWhere == {w \in [1..3 -> Predicates] : Cardinality({f \in 1..3 : w[f] # "true"}) <= 1}
Chains == {Statement(<<Join(h, 1, FALSE), Join(g, on, FALSE)>>, w, s) :
             h \in Hows, g \in Hows, on \in {1, 2}, w \in OneWhere, s \in {0, 3}}
Crosses == {Statement(<<Join("inner", 0, FALSE), Join("inner", 0, TRUE)>>,
                      [f \in 1..3 |-> "true"], 0)}

\* The last frame is read first, and its keys restrict the second frame's read,
\* which outer joins have used by then.
Wide == {Statement(<<Join(h, on, on = 0), Join(g, 2, FALSE)>> \o c \o <<Join("inner", 2, FALSE)>>,
                   [f \in 1..4+Len(c) |-> IF f = 4+Len(c) THEN "v is set" ELSE "true"], 0) :
           h \in Hows, on \in {0, 1}, g \in Hows, c \in {<< >>, <<Join("inner", 0, FALSE)>>}}

MCStatements == Wide \cup Pairs \cup Chains \cup Crosses

\* Where no predicate looks at v, one value of it is enough.
MCContents(st, f) ==
  LET n == Len(st.joins)
      looked == st.where[f] # "true" \/ (f > 1 /\ st.joins[f-1].cond)
  IN {c \in SUBSET [k : Keys \cup {Null}, real : {TRUE},
                    v : IF looked THEN {"set", "null"} ELSE {"set"}] :
        Cardinality(c) <= IF n > 2 THEN 1 ELSE 2}

Symmetry == Permutations(Keys)
=============================================================================
