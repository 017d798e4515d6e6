----------------------------- MODULE MCRelQuery -----------------------------
(* RelQuery on statements over one collection of up to three rows, and over *)
(* two collections of up to two rows.                                       *)
EXTENDS RelQuery

C(i) == [kind |-> "col", at |-> i, by |-> 0, desc |-> FALSE]
One == [C(1) EXCEPT !.kind = "one"]
Sub == [C(1) EXCEPT !.kind = "sub"]
Agg(kind) == [C(2) EXCEPT !.kind = kind]
Rank(kind, by, desc) == [kind |-> kind, at |-> 2, by |-> by, desc |-> desc]
Label(i, desc) == [out |-> TRUE, at |-> i, desc |-> desc]
Column(i, desc) == [out |-> FALSE, at |-> i, desc |-> desc]
Where(i, is) == [at |-> i, is |-> is]

Table(at, coll) == [op |-> "table", at |-> at, coll |-> coll]
A == Table("1", "a")
B == Table("2", "b")
Cte == [op |-> "cte"]

Select(items, from) ==
  [op |-> "select", from |-> from, where |-> Where(1, "anything"), test |-> "none",
   sub |-> Absent, items |-> items, group |-> << >>, having |-> FALSE, order |-> << >>,
   distinct |-> FALSE, offset |-> None, limit |-> None]
SetOp(kind, all, left, right) ==
  [op |-> "set", kind |-> kind, all |-> all, left |-> left, right |-> right,
   order |-> << >>, offset |-> None, limit |-> None]

Limits(qs) == {[q EXCEPT !.limit = l, !.offset = o] : q \in qs, l \in {None, 1}, o \in {None, 1}}
Orders(qs, orders) == {[q EXCEPT !.order = o] : q \in qs, o \in orders}
Plain(qs) == {[cte |-> Absent, query |-> q] : q \in qs}

-----------------------------------------------------------------------------
(* Over one collection.                                                    *)

Groups ==
  LET base == {[Select(<<C(1), Agg(k)>>, A) EXCEPT !.group = <<1>>, !.having = h] :
                 k \in Aggregates, h \in BOOLEAN}
  IN Orders(base, {<< >>, <<Label(2, TRUE), Label(1, FALSE)>>})
     \cup Limits({[Select(<<C(1), Agg("sum")>>, A) EXCEPT !.group = <<1>>, !.order = <<Label(1, TRUE)>>]})
     \cup {[Select(<<Agg("sum"), Agg(k)>>, A) EXCEPT !.having = TRUE] : k \in Aggregates}
     \cup {[Select(<<C(2), Agg("count")>>, A) EXCEPT !.group = <<1>>]}

Distincts ==
  {q \in Limits(Orders({[Select(<<C(1)>>, A) EXCEPT !.distinct = d] : d \in BOOLEAN},
                       {<< >>, <<Label(1, TRUE)>>, <<Column(2, FALSE)>>})) :
     IF q.distinct THEN q.order # <<Column(2, FALSE)>> ELSE q.offset # None}

\* The largest number of a partition first only where ties share it.
Windows ==
  LET base == {Select(<<C(1), Rank(k, by, d)>>, A) : k \in Rankings, by \in {0, 1}, d \in BOOLEAN}
  IN base \cup Orders(base, {<<Label(2, FALSE)>>})
     \cup Orders({q \in base : q.items[2].kind # "row_number"}, {<<Label(2, TRUE)>>})

\* The first of each partition.
TopOfPartition ==
  {[Select(<<C(1)>>, Select(<<C(1), Rank(k, 1, d)>>, A)) EXCEPT !.where = Where(2, "one")] :
     k \in Rankings, d \in BOOLEAN}

\* Other derived tables: a filter over groups, a reduction of what LIMIT leaves.
Derived ==
  {[Select(<<C(1)>>, [Select(<<C(1), Agg(k)>>, A) EXCEPT !.group = <<1>>])
           EXCEPT !.where = Where(2, "one")] : k \in Aggregates}
  \cup {[Select(<<C(1), Agg("count")>>, q) EXCEPT !.group = <<1>>] :
          q \in Limits(Orders({[Select(<<C(1), C(2)>>, A) EXCEPT !.where = Where(2, "set")]},
                              {<< >>, <<Column(1, FALSE)>>}))}

Ranked == Plain(Windows \cup TopOfPartition)
Unranked == Plain(Groups \cup Distincts \cup Derived)

-----------------------------------------------------------------------------
(* Over two.                                                               *)

\* What a subquery may be; a scalar one too, and the forms EXISTS takes.
Subqueries ==
  Limits(Orders({Select(<<C(1)>>, B), [Select(<<C(1)>>, B) EXCEPT !.where = Where(1, "set")]},
                {<< >>, <<Column(1, FALSE)>>}))
  \cup {Select(<<Agg("max")>>, B), Select(<<C(1), C(2)>>, B)}
OrmExists ==
  {[Select(<<One>>, B) EXCEPT !.where = w, !.limit = l, !.order = o, !.distinct = d] :
     w \in {Where(1, "anything"), Where(2, "null"), Where(1, "one")}, l \in {None, 1},
     o \in {<< >>, <<Column(2, TRUE)>>}, d \in BOOLEAN}
  \cup {[Select(<<One>>, B) EXCEPT !.group = <<1>>, !.having = h] : h \in BOOLEAN}
  \cup {[Select(<<One>>, B) EXCEPT !.offset = 1]}

Tested(test, sub, where) ==
  [Select(<<C(1)>>, A) EXCEPT !.test = test, !.sub = sub, !.where = where]
Wheres == {Where(1, "anything"), Where(1, "set")}
Subselects ==
  {Tested(t, s, w) : t \in {"in", "equals", "exists", "not exists"}, s \in Subqueries, w \in Wheres}
  \cup {Tested("not in", s, w) : s \in {q \in Subqueries : q.where.is = "set" /\ q.offset = None}, w \in Wheres}
  \cup {Tested(t, s, w) : t \in Correlated, s \in OrmExists, w \in Wheres}
  \cup {[Tested("any", s, Where(1, "anything")) EXCEPT !.items = <<Agg("count rows")>>] : s \in OrmExists}
  \cup {[Select(<<C(1), Sub>>, A) EXCEPT !.sub = s] : s \in Subqueries}

Operations == {<<"union", TRUE>>, <<"union", FALSE>>, <<"intersect", FALSE>>, <<"except", FALSE>>}
Branches == {Select(<<C(1)>>, B), [Select(<<C(1)>>, B) EXCEPT !.limit = 1],
             [Select(<<C(1)>>, Table("2", "a")) EXCEPT !.where = Where(1, "one")],
             Select(<<Agg("max")>>, B), Select(<<C(1), C(2)>>, B)}
Combinations ==
  LET pairs == {SetOp(o[1], o[2], Select(<<C(1)>>, A), r) : o \in Operations, r \in Branches}
  IN Limits(Orders(pairs, {<< >>, <<Label(1, FALSE)>>, <<Label(1, TRUE)>>}))
     \cup {SetOp(o[1], o[2], SetOp(p[1], p[2], Select(<<C(1)>>, A), Select(<<C(1)>>, B)),
                 Select(<<C(1)>>, Table("3", "b"))) : o \in Operations, p \in Operations}
     \cup {SetOp(k, TRUE, Select(<<C(1)>>, A), Select(<<C(1)>>, B)) : k \in {"intersect", "except"}}

\* WITH c AS (...): c is named twice in the query.
Named ==
  LET ctes == Limits({Select(<<C(1)>>, A)})
              \cup {SetOp("union", FALSE, Select(<<C(1)>>, A), Select(<<C(1)>>, B))}
      over(test, items) == [Select(<<C(1)>>, Cte) EXCEPT !.test = test, !.sub = Select(items, Cte)]
  IN {[cte |-> c, query |-> q] : c \in ctes,
        q \in {over("in", <<C(1)>>), over("any", <<One>>), over("not any", <<One>>),
               over("equals", <<Agg("max")>>)}}

\* MAX of the CTE's one column.
MCStatements ==
  Ranked \cup Unranked \cup Plain(Subselects \cup Combinations)
  \cup {[st EXCEPT !.query.sub.items = IF st.query.test = "equals" THEN <<[C(1) EXCEPT !.kind = "max"]>> ELSE @] :
          st \in Named}

Nested(q) == q.op = "set" /\ q.left.op = "set"

UpTo(n, S) == UNION {[1..m -> S] : m \in 0..n}
Number == {1, 2}
Cell == Number \cup {Null}

Ties == UpTo(3, {1, Null} \X Number)
Pairs == UpTo(2, Cell \X Cell) \cup [1..3 -> {1, Null} \X {1, Null}]
Keyed == UpTo(2, Number \X {1})
Single == UpTo(1, Cell \X {1})
Narrow == UpTo(2, Cell \X {1})
Longer == UpTo(3, Cell \X {1})
Wide == UpTo(2, Cell \X {1, Null})
Found == {s \in Narrow : \E i \in DOMAIN s : s[i][1] # Null}

\* A ranking's column is never NULL.  Nor is what NOT IN compares, and its
\* subquery returns something: there Polars and SQL part (see the README).
MCContents(st, coll) ==
  LET test == IF st.query.op = "select" THEN st.query.test ELSE "none" IN
  CASE st \in Ranked -> Ties
    [] st \in Unranked -> Pairs
    [] test = "not in" -> IF coll = "a" THEN Keyed ELSE Found
    [] test \in Correlated /\ coll = "b" -> Wide
    [] Nested(st.query) -> Single
    [] st.query.op = "select" /\ st.cte.op # "set" /\ coll = "a" -> Longer
    [] OTHER -> Narrow
=============================================================================
