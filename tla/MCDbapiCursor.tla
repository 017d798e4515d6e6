--------------------------- MODULE MCDbapiCursor ---------------------------
\* An instance of DbapiCursor over FilterText's reading of WHERE.
EXTENDS DbapiCursor

CONSTANTS t1, c1,       \* the task with the larger workload; the cursor both use
          Bind, Alike   \* see FilterText

F == INSTANCE FilterText
MCRefusal(w, p) == F!Refusal(w, p)
MCSelects(w, row, p) == F!Matches(w, row, p)
MCMeans(w, row, p) == F!Means(w, row, p)

N(op, arg) == [kind |-> "cmp", col |-> "n", op |-> op, arg |-> arg]
In(list) == [kind |-> "in", col |-> "n", list |-> list]
Flag == [kind |-> "column", col |-> "b"]
Neg(w) == [kind |-> "not", of |-> w]
Like(negate) == [kind |-> "like", col |-> "n", negate |-> negate]
Between == [kind |-> "between", col |-> "n", low |-> 1, high |-> Bind]
IsNull(col) == [kind |-> "is null", col |-> col]
Both(k, l, r) == [kind |-> k, left |-> l, right |-> r]

\* WHEREs with the placeholder, and without.
Bound == {N("=", Bind), N("<>", Bind), In(<<1, Bind>>), Neg(In(<<Bind>>)), Between,
          Both("or", Neg(Flag), N("<", Bind)), Both("and", Flag, Neg(N("=", Bind)))}
Unbound == {In(<<>>), Neg(In(<<>>)), Neg([kind |-> "in select", col |-> "n", list |-> <<1>>]),
            Flag, Neg(Flag), Like(TRUE), Neg(Like(FALSE)), Neg(Between), IsNull("n"),
            Neg(IsNull("b")), [kind |-> "is true", col |-> "b"], N("<=", 1),
            Both("or", IsNull("b"), Neg(Flag))}
MCWheres == Bound \cup Unbound

MCStart == <<[n |-> 1, b |-> 1], [n |-> 2, b |-> 0], [n |-> Null, b |-> Null]>>

Job(c, op, where, many, sets) ==
  [cursor |-> c, call |-> [op |-> op, where |-> where], many |-> many, sets |-> sets,
   at |-> 1, total |-> 0]

\* t1 reads with every WHERE, deletes, and runs executemany's batch and its loop
\* with sets that can and cannot be built; t2, on the same cursor, inserts,
\* reads, and runs an executemany of nothing.
MCWorkload(t) ==
  IF t = t1
  THEN {Job(c1, "select", w, FALSE, <<2>>) : w \in MCWheres}
       \cup {Job(c1, "delete", w, FALSE, <<p>>) :
               w \in {N("<>", Bind), Neg(In(<<Bind>>))}, p \in {1, Null}}
       \cup {Job(c1, "delete", N("=", Bind), TRUE, s) :
               s \in {<<1, 2>>, <<1, 1>>, <<2, Missing, 1>>, <<1, 2, Null>>}}
       \cup {Job(c1, "insert", None, TRUE, s) : s \in {<<1, Null>>, <<1, Missing>>}}
       \cup {Job(c1, "ddl", None, FALSE, <<1>>)}
  ELSE {Job(c1, "insert", None, FALSE, <<1>>), Job(c1, "select", N("<=", 1), FALSE, <<1>>),
        Job(c1, "delete", Flag, TRUE, <<>>)}
=============================================================================
