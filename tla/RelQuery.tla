------------------------------ MODULE RelQuery ------------------------------
(***************************************************************************)
(* The relational engine beyond joins: subqueries, CTEs, derived tables,   *)
(* set operations, GROUP BY and window functions.  A statement is planned  *)
(* into one chain of reads -- those of every nested query included, and    *)
(* no snapshot spans them -- and evaluated on the client once the last     *)
(* read is in.  A read is one step here, as in JoinRead, which has FROM    *)
(* lists of more than one source.                                          *)
(*                                                                         *)
(* A frame is a sequence of rows, a row a sequence of cells, and a cell a  *)
(* number or NULL.  Columns go by their position.                          *)
(***************************************************************************)
EXTENDS Integers, Sequences, FiniteSets, SequencesExt, TLC

CONSTANTS
  Null,              \* SQL NULL
  Statements,        \* the statements considered: see StatementShape
  Contents(_, _)     \* Contents(st, coll): what a collection may hold

VARIABLES
  stmt,              \* the statement being answered
  pc,                \* "scan", "done", "raised", "refused" or "failed"
  index,             \* how many of the scans have been read
  frames,            \* frames[key]: the rows read under that key
  result,            \* the rows of the answer
  held               \* history: held[at]: what the collection named at place
                     \* `at` of the statement held when it was read

vars == <<stmt, pc, index, frames, result, held>>

-----------------------------------------------------------------------------
(* Statements.  A source is a collection, the statement's CTE or a query;  *)
(* a query is a SELECT over one source, or two queries combined.           *)

None == -1                                   \* no LIMIT, no OFFSET
Absent == [op |-> "absent"]                  \* no CTE, no subquery

Aggregates == {"count rows", "count", "count distinct", "sum", "max"}
Rankings == {"row_number", "rank", "dense_rank"}

\* A SELECT item: a column, the literal 1, the value of the subquery, an
\* aggregate of a column, or a ranking by a column within equal values of
\* column `by` (0: no PARTITION BY).
ItemShape(c) ==
  /\ c.kind \in {"col", "one", "sub"} \cup Aggregates \cup Rankings
  /\ c.at \in 1..2 /\ c.by \in 0..2 /\ c.desc \in BOOLEAN

\* `any` is EXISTS (... WHERE inner column 1 = outer column 1 ...), the form
\* ORMs write; the other tests are on a subquery that does not correlate.
Correlated == {"any", "not any"}
Tests == {"none", "in", "not in", "equals", "exists", "not exists"} \cup Correlated

RECURSIVE QueryShape(_)
QueryShape(q) ==
  CASE q.op \in {"absent", "cte"} -> TRUE
    [] q.op = "table" -> q.at \in STRING /\ q.coll \in STRING
    [] q.op = "set" ->
         /\ q.kind \in {"union", "intersect", "except"} /\ q.all \in BOOLEAN
         /\ QueryShape(q.left) /\ QueryShape(q.right)
    [] q.op = "select" ->
         /\ QueryShape(q.from) /\ QueryShape(q.sub)
         /\ q.where.is \in {"anything", "null", "set", "one"}
         /\ q.test \in Tests /\ (q.test # "none" => q.sub # Absent)
         /\ \A i \in DOMAIN q.items : ItemShape(q.items[i])
         /\ q.having => q.group # << >> \/ \E i \in DOMAIN q.items : q.items[i].kind \in Aggregates

ASSUME StatementsAssumption ==
  \A st \in Statements : QueryShape(st.cte) /\ QueryShape(st.query)

\* A row passes `column IS NULL`, `column IS NOT NULL` or `column = 1`.
Passes(p, row) ==
  CASE p.is = "anything" -> TRUE
    [] p.is = "null" -> row[p.at] = Null
    [] p.is = "set" -> row[p.at] # Null
    [] p.is = "one" -> row[p.at] = 1

-----------------------------------------------------------------------------
(* Planning.                                                               *)

\* Fault: Django's LIMIT 1 is applied to the decorrelated subquery.
DecorrelatedKeepsLimit(q) ==
  [q EXCEPT !.items = <<[kind |-> "col", at |-> 1, by |-> 0, desc |-> FALSE]>>, !.order = << >>]

\* _plan_exists: the subquery without its correlation, select list, LIMIT and
\* ORDER BY, returning the column it correlates by.
Decorrelated(q) ==
  [q EXCEPT !.items = <<[kind |-> "col", at |-> 1, by |-> 0, desc |-> FALSE]>>,
            !.order = << >>, !.limit = None]

\* The query planned for a SELECT's subquery.
Inner(q) == IF q.test \in Correlated THEN Decorrelated(q.sub) ELSE q.sub

\* The reads of a query in the order _plan_select appends them: its source's,
\* its subquery's, then its own, with what Milvus filters it by.  A name of the
\* CTE adds none.
RECURSIVE Scans(_)
Scans(q) ==
  CASE q.op \in {"absent", "cte"} -> << >>
    [] q.op = "set" -> Scans(q.left) \o Scans(q.right)
    [] q.op = "select" ->
         IF q.from.op = "table"
         THEN Append(Scans(q.sub), [table |-> q.from, filter |-> q.where])
         ELSE Scans(q.from) \o Scans(q.sub)

\* Filtered reads go first.
OrderScans(scans) ==
  SelectSeq(scans, LAMBDA s : s.filter.is # "anything")
  \o SelectSeq(scans, LAMBDA s : s.filter.is = "anything")

\* Fault: the CTE is planned again where it is named.
ChainReplanned(st) == OrderScans(Scans(st.cte) \o Scans(st.cte) \o Scans(st.query))

Chain(st) == OrderScans(Scans(st.cte) \o Scans(st.query))

\* Fault: reads are kept by the name of the collection.
KeyByName(table) == table.coll

\* A read is kept by its place in the statement.
Key(table) == table.at

\* INTERSECT ALL and EXCEPT ALL; a correlated EXISTS with an OFFSET.
RECURSIVE Refuses(_)
Refuses(q) ==
  CASE q.op \in {"absent", "cte", "table"} -> FALSE
    [] q.op = "set" -> \/ q.kind # "union" /\ q.all
                       \/ Refuses(q.left) \/ Refuses(q.right)
    [] q.op = "select" -> \/ q.test \in Correlated /\ q.sub.offset # None
                          \/ Refuses(q.from) \/ Refuses(q.sub)

-----------------------------------------------------------------------------
(* Evaluation, in Polars.                                                  *)

Deduped(s) == FoldLeft(LAMBDA acc, x : IF Contains(acc, x) THEN acc ELSE Append(acc, x), << >>, s)

\* OFFSET, then LIMIT.
Cut(q, rows) ==
  LET sliced == IF q.offset > 0 THEN SubSeq(rows, q.offset + 1, Len(rows)) ELSE rows
  IN IF q.limit = None \/ q.limit > Len(sliced) THEN sliced ELSE SubSeq(sliced, 1, q.limit)

\* Ascending puts NULL last, descending first.
Before(x, y, desc) ==
  IF desc THEN y # Null /\ (x = Null \/ x > y)
  ELSE x # Null /\ (y = Null \/ x < y)

\* Does i come before j, by the first key that tells them apart?
Precedes(order, KeyAt(_, _), i, j) ==
  \E m \in DOMAIN order :
    /\ Before(KeyAt(order[m], i), KeyAt(order[m], j), order[m].desc)
    /\ \A l \in 1..m-1 : KeyAt(order[l], i) = KeyAt(order[l], j)

\* frame.sort(maintain_order=True) of n rows: their indexes, in order.
Sorted(n, order, KeyAt(_, _)) ==
  SetToSortSeq(1..n, LAMBDA i, j : \/ Precedes(order, KeyAt, i, j)
                                   \/ i < j /\ ~Precedes(order, KeyAt, j, i))

\* The value of a scalar subquery that returned these rows.
Scalar(inner) == IF inner = << >> THEN Null ELSE inner[1][1]

\* frame.select: literals alone make a frame of one row.
Projected(items, n, Cell(_, _)) ==
  IF \A m \in DOMAIN items : items[m].kind \in {"one", "sub"}
  THEN <<[m \in DOMAIN items |-> Cell(items[m], 0)]>>
  ELSE [i \in 1..n |-> [m \in DOMAIN items |-> Cell(items[m], i)]]

\* Fault: MAX starts from -1.
LargestSeeded(values) == FoldLeft(LAMBDA x, y : IF x < y THEN y ELSE x, -1, values)

Largest(values) ==
  IF values = << >> THEN Null ELSE FoldLeft(LAMBDA x, y : IF x < y THEN y ELSE x, Head(values), values)

\* _reduce: NULLs do not count, and SUM over nothing is 0.
Reduced(c, rows) ==
  LET known == SelectSeq([i \in DOMAIN rows |-> rows[i][c.at]], LAMBDA x : x # Null) IN
  CASE c.kind = "count rows" -> Len(rows)
    [] c.kind = "count" -> Len(known)
    [] c.kind = "count distinct" -> Len(Deduped(known))
    [] c.kind = "sum" -> FoldLeft(+, 0, known)
    [] c.kind = "max" -> Largest(known)

Aggregated(q) == q.group # << >> \/ \E i \in DOMAIN q.items : q.items[i].kind \in Aggregates

\* Is the item neither grouped nor aggregated in a query that reduces?
Ungrouped(q, c) == Aggregated(q) /\ c.kind = "col" /\ ~Contains(q.group, c.at)

\* rank().over(): by order of appearance, with gaps or dense; NULL has no rank.
Ranking(c, rows, i) ==
  LET peers == {j \in DOMAIN rows : /\ c.by = 0 \/ rows[j][c.by] = rows[i][c.by]
                                    /\ rows[j][c.at] # Null}
      ahead == {j \in peers : Before(rows[j][c.at], rows[i][c.at], c.desc)}
      ties == {j \in peers : rows[j][c.at] = rows[i][c.at] /\ j < i}
  IN IF rows[i][c.at] = Null THEN Null
     ELSE 1 + CASE c.kind = "row_number" -> Cardinality(ahead \cup ties)
                [] c.kind = "rank" -> Cardinality(ahead)
                [] c.kind = "dense_rank" -> Cardinality({rows[j][c.at] : j \in ahead})

\* An ORDER BY key names a result column, by label or position, or a column of
\* the source.
KeyOf(q, key, row, Cell(_)) == IF key.out THEN Cell(q.items[key.at]) ELSE row[key.at]

\* A SELECT that does not reduce: sort, then project.
Listed(q, rows, inner) ==
  LET Cell(over, c, i) ==
        CASE c.kind = "col" -> over[i][c.at]
          [] c.kind = "one" -> 1
          [] c.kind = "sub" -> Scalar(inner)
          [] c.kind \in Rankings -> Ranking(c, over, i)
      perm == Sorted(Len(rows), q.order,
                     LAMBDA key, i : KeyOf(q, key, rows[i], LAMBDA c : Cell(rows, c, i)))
      ordered == [i \in DOMAIN rows |-> rows[perm[i]]]
  IN Projected(q.items, Len(rows), LAMBDA c, i : Cell(ordered, c, i))

\* _aggregate: reduce each group, HAVING COUNT(*) > 1, sort, then project.
Grouped(q, rows, inner) ==
  LET GroupOf(row) == [m \in DOMAIN q.group |-> row[q.group[m]]]
      labels == Deduped([i \in DOMAIN rows |-> GroupOf(rows[i])])
      groups == IF q.group = << >> THEN <<rows>>
                ELSE [g \in DOMAIN labels |-> SelectSeq(rows, LAMBDA row : GroupOf(row) = labels[g])]
      kept == SelectSeq(groups, LAMBDA g : q.having => Len(g) > 1)
      Cell(c, g) ==
        CASE c.kind = "col" -> g[1][c.at]
          [] c.kind = "one" -> 1
          [] c.kind = "sub" -> Scalar(inner)
          [] c.kind \in Aggregates -> Reduced(c, g)
      perm == Sorted(Len(kept), q.order,
                     LAMBDA key, i : KeyOf(q, key, kept[i][1], LAMBDA c : Cell(c, kept[i])))
  IN Projected(q.items, Len(kept), LAMBDA c, i : Cell(c, IF i = 0 THEN << >> ELSE kept[perm[i]]))

\* _apply_semi_join: the key has a partner; NULL never has.
Matches(row, inner) == row[1] # Null /\ Contains(inner, <<row[1]>>)

\* Polars keeps a row only if its condition is true, and is_in ignores NULLs.
Satisfies(q, row, inner) ==
  CASE q.test = "none" -> TRUE
    [] q.test \in {"in", "any"} -> Matches(row, inner)
    [] q.test = "not in" -> row[1] # Null /\ ~Matches(row, inner)
    [] q.test = "not any" -> ~Matches(row, inner)
    [] q.test = "equals" -> row[1] # Null /\ row[1] = Scalar(inner)
    [] q.test = "exists" -> inner # << >>
    [] q.test = "not exists" -> inner = << >>

\* _evaluate on the rows of the source and of the subquery.
Selected(q, source, inner) ==
  LET filtered == IF q.from.op = "table" THEN source
                  ELSE SelectSeq(source, LAMBDA row : Passes(q.where, row))
      tested == SelectSeq(filtered, LAMBDA row : Satisfies(q, row, inner))
      out == IF Aggregated(q) THEN Grouped(q, tested, inner) ELSE Listed(q, tested, inner)
  IN Cut(q, IF q.distinct THEN Deduped(out) ELSE out)

\* _evaluate_set_operation: here NULL equals NULL.
Combined(q, left, right) ==
  LET both == CASE q.kind = "union" -> left \o right
                [] q.kind = "intersect" -> SelectSeq(left, LAMBDA row : Contains(right, row))
                [] q.kind = "except" -> SelectSeq(left, LAMBDA row : ~Contains(right, row))
      rows == IF q.all THEN both ELSE Deduped(both)
      perm == Sorted(Len(rows), q.order, LAMBDA key, i : rows[i][key.at])
  IN Cut(q, [i \in DOMAIN rows |-> rows[perm[i]]])

\* The rows of a query, over the frames f that were read.
RECURSIVE Evaluated(_, _, _)
Evaluated(st, q, f) ==
  CASE q.op = "absent" -> << >>
    [] q.op = "table" -> f[Key(q)]
    [] q.op = "cte" -> Evaluated(st, st.cte, f)
    [] q.op = "set" -> Combined(q, Evaluated(st, q.left, f), Evaluated(st, q.right, f))
    [] q.op = "select" -> Selected(q, Evaluated(st, q.from, f), Evaluated(st, Inner(q), f))

RECURSIVE Width(_)
Width(q) == IF q.op = "set" THEN Width(q.left) ELSE Len(q.items)

UsesScalar(q) == q.test = "equals" \/ \E i \in DOMAIN q.items : q.items[i].kind = "sub"

\* Fault: a scalar subquery must return exactly one row.
TooManyUnlessOne(rows) == Len(rows) # 1

TooMany(rows) == Len(rows) > 1

\* Does evaluating the query raise ProgrammingError?
RECURSIVE Raises(_, _, _)
Raises(st, q, f) ==
  CASE q.op \in {"absent", "table"} -> FALSE
    [] q.op = "cte" -> Raises(st, st.cte, f)
    [] q.op = "set" -> \/ Raises(st, q.left, f) \/ Raises(st, q.right, f)
                       \/ Width(q.left) # Width(q.right)
    [] q.op = "select" ->
         \/ Raises(st, q.from, f) \/ Raises(st, Inner(q), f)
         \/ \E i \in DOMAIN q.items : Ungrouped(q, q.items[i])
         \/ UsesScalar(q) /\ TooMany(Evaluated(st, q.sub, f))
         \/ (UsesScalar(q) \/ q.test \in {"in", "not in"}) /\ Width(q.sub) # 1

-----------------------------------------------------------------------------
(* The statement.                                                          *)

\* One link of the chain: read the next collection; the last one evaluates.
Scan ==
  LET scan == Chain(stmt)[index + 1] IN
  /\ pc = "scan"
  /\ \E rows \in Contents(stmt, scan.table.coll) :
       /\ held' = (scan.table.at :> rows) @@ held
       /\ frames' = (Key(scan.table) :> SelectSeq(rows, LAMBDA row : Passes(scan.filter, row)))
                    @@ frames
  /\ index' = index + 1
  /\ IF index + 1 < Len(Chain(stmt))
     THEN UNCHANGED <<pc, result>>
     ELSE IF Raises(stmt, stmt.query, frames')
     THEN pc' = "raised" /\ UNCHANGED result
     ELSE pc' = "done" /\ result' = Evaluated(stmt, stmt.query, frames')
  /\ UNCHANGED stmt

RpcFails ==
  /\ pc = "scan"
  /\ pc' = "failed"
  /\ UNCHANGED <<stmt, index, frames, result, held>>

\* Planning reads nothing and may refuse the statement.
Init ==
  /\ stmt \in Statements
  /\ pc = IF Refuses(stmt.cte) \/ Refuses(stmt.query) THEN "refused" ELSE "scan"
  /\ index = 0
  /\ frames = << >>
  /\ result = << >>
  /\ held = << >>

Next == Scan \/ RpcFails

Spec == Init /\ [][Next]_vars

-----------------------------------------------------------------------------
(* SQL.  Answers are sets of row sequences: whatever the statement leaves  *)
(* open may go either way.                                                 *)

\* The orders ORDER BY allows of the indexes in S.
Arrangements(S, order, KeyAt(_, _)) ==
  {p \in SetToSeqs(S) : \A i, j \in DOMAIN p : i < j => ~Precedes(order, KeyAt, p[j], p[i])}

SqlCut(q, rows) ==
  LET skipped == IF q.offset = None THEN 0 ELSE q.offset IN
  SubSeq(rows, skipped + 1,
         IF q.limit = None THEN Len(rows) ELSE Min({Len(rows), skipped + q.limit}))

\* What an aggregate is over the rows in u.  SUM over nothing is 0, as
\* select_aggregate/act.py has it.
SqlAggregate(c, rows, u) ==
  LET known == {i \in u : rows[i][c.at] # Null}
      values == {rows[i][c.at] : i \in known}
  IN CASE c.kind = "count rows" -> Cardinality(u)
       [] c.kind = "count" -> Cardinality(known)
       [] c.kind = "count distinct" -> Cardinality(values)
       [] c.kind = "sum" -> MapThenSumSet(LAMBDA i : rows[i][c.at], known)
       [] c.kind = "max" -> IF values = {} THEN Null ELSE Max(values)

\* The rank of row i when the window goes through the rows in the order w.
SqlRanking(c, rows, w, i) ==
  LET upTo == {x \in DOMAIN w : /\ \E y \in x..Len(w) : w[y] = i
                                /\ c.by = 0 \/ rows[w[x]][c.by] = rows[i][c.by]}
  IN CASE c.kind = "row_number" -> Cardinality(upTo)
       [] c.kind = "rank" -> 1 + Cardinality({x \in upTo : rows[w[x]][c.at] # rows[i][c.at]})
       [] c.kind = "dense_rank" -> Cardinality({rows[w[x]][c.at] : x \in upTo})

\* The answers of a SELECT over the rows its WHERE accepts.  Every result row
\* stands for a set of them: one, or a group.
SqlList(q, rows, inner) ==
  LET Label(i) == [m \in DOMAIN q.group |-> rows[i][q.group[m]]]
      units == IF ~Aggregated(q) THEN {{i} : i \in DOMAIN rows}
               ELSE IF q.group = << >> THEN {DOMAIN rows}
               ELSE {{j \in DOMAIN rows : Label(j) = Label(i)} : i \in DOMAIN rows}
      kept == {u \in units : q.having => Cardinality(u) > 1}
      windows == {c \in Range(q.items) : c.kind \in Rankings}
      Item(c, u, w) ==
        CASE c.kind = "col" -> rows[CHOOSE i \in u : TRUE][c.at]
          [] c.kind = "one" -> 1
          [] c.kind = "sub" -> IF inner = << >> THEN Null ELSE Head(inner)[1]
          [] c.kind \in Aggregates -> SqlAggregate(c, rows, u)
          [] c.kind \in Rankings -> SqlRanking(c, rows, w, CHOOSE i \in u : TRUE)
      Out(u, w) == [m \in DOMAIN q.items |-> Item(q.items[m], u, w)]
      KeyAt(w, key, u) == IF key.out THEN Item(q.items[key.at], u, w)
                          ELSE rows[CHOOSE i \in u : TRUE][key.at]
      Distinct(w) == IF ~q.distinct THEN kept
                     ELSE {CHOOSE u \in kept : Out(u, w) = out : out \in {Out(u, w) : u \in kept}}
      through == IF windows = {} THEN {<< >>}
                 ELSE LET c == CHOOSE c \in windows : TRUE IN
                      Arrangements(DOMAIN rows, <<c>>, LAMBDA key, i : rows[i][key.at])
  IN UNION {{SqlCut(q, [x \in DOMAIN p |-> Out(p[x], w)]) :
               p \in Arrangements(Distinct(w), q.order, LAMBDA key, u : KeyAt(w, key, u))} :
            w \in through}

\* x IN values, in three-valued logic.
SqlIn(x, values) ==
  IF x # Null /\ x \in values THEN "true"
  ELSE IF values # {} /\ (x = Null \/ Null \in values) THEN "unknown" ELSE "false"

\* Is the subquery's condition true of the row?  `inner` is the subquery's
\* answer or, if it correlates, the rows of its source.
SqlSatisfies(q, row, inner) ==
  LET values == {inner[i][1] : i \in DOMAIN inner}
      Partners == SelectSeq(inner, LAMBDA r : SqlIn(r[1], {row[1]}) = "true" /\ Passes(q.sub.where, r))
      found == \E answer \in SqlList(q.sub, Partners, << >>) : answer # << >>
  IN CASE q.test = "none" -> TRUE
       [] q.test = "in" -> SqlIn(row[1], values) = "true"
       [] q.test = "not in" -> SqlIn(row[1], values) = "false"
       [] q.test = "equals" -> values # {} /\ SqlIn(row[1], values) = "true"
       [] q.test = "exists" -> Len(inner) > 0
       [] q.test = "not exists" -> Len(inner) = 0
       [] q.test = "any" -> found
       [] q.test = "not any" -> ~found

\* The answers of a SELECT; there is none if SQL has an error for it.
SqlSelects(q, source, inner) ==
  IF \/ \E i \in DOMAIN q.items : Ungrouped(q, q.items[i])
     \/ UsesScalar(q) /\ Len(inner) >= 2
     \/ (UsesScalar(q) \/ q.test \in {"in", "not in"}) /\ Width(q.sub) # 1
  THEN {}
  ELSE SqlList(q, SelectSeq(source, LAMBDA row : /\ Passes(q.where, row)
                                                 /\ SqlSatisfies(q, row, inner)), inner)

\* How often a row is in the combination of two queries.
SqlTimes(q, left, right, row) ==
  LET l == Cardinality({i \in DOMAIN left : left[i] = row})
      r == Cardinality({i \in DOMAIN right : right[i] = row})
      times == CASE q.kind = "union" -> l + r
                 [] q.kind = "intersect" -> Min({l, r})
                 [] q.kind = "except" -> IF r > 0 THEN 0 ELSE l
  IN IF q.all THEN times ELSE Min({1, times})

SqlCombines(q, left, right) ==
  LET all == left \o right
      \* one index in `all` for every time a row is in the combination
      copies == {i \in DOMAIN all :
                   Cardinality({j \in 1..i : all[j] = all[i]}) <= SqlTimes(q, left, right, all[i])}
  IN IF Width(q.left) # Width(q.right) THEN {}
     ELSE {SqlCut(q, [x \in DOMAIN p |-> all[p[x]]]) :
             p \in Arrangements(copies, q.order, LAMBDA key, i : all[i][key.at])}

\* The answers of a query over what its collections held (h), when the CTE's
\* answer is c.
RECURSIVE SqlRows(_, _, _)
SqlRows(q, h, c) ==
  CASE q.op = "absent" -> {<< >>}
    [] q.op = "table" -> {h[q.at]}
    [] q.op = "cte" -> {c}
    [] q.op = "set" -> UNION {SqlCombines(q, l, r) : l \in SqlRows(q.left, h, c),
                                                     r \in SqlRows(q.right, h, c)}
    [] q.op = "select" ->
         UNION {SqlSelects(q, s, i) :
                  s \in SqlRows(q.from, h, c),
                  i \in SqlRows(IF q.test \in Correlated THEN q.sub.from ELSE q.sub, h, c)}

SqlAnswers(st, h) ==
  UNION {SqlRows(st.query, h, c) : c \in SqlRows(st.cte, h, << >>)}

-----------------------------------------------------------------------------
Cells == Nat \cup {Null}

Frame(s, width) ==
  \A i \in DOMAIN s : DOMAIN s[i] = 1..width /\ \A m \in 1..width : s[i][m] \in Cells

TypeOK ==
  /\ QueryShape(stmt.cte) /\ QueryShape(stmt.query)
  /\ pc \in {"scan", "done", "raised", "refused", "failed"}
  /\ index \in 0..Len(Chain(stmt))
  /\ \A key \in DOMAIN frames : Frame(frames[key], 2)
  /\ \A at \in DOMAIN held : Frame(held[at], 2)
  /\ Frame(result, Width(stmt.query))

\* The answer is one SQL allows for what each collection held when it was read:
\* decorrelating an EXISTS, pushing WHERE into the reads and sharing a CTE
\* change nothing, and the clauses of every nested query keep SQL's order.
AnswersAreSQL == pc = "done" => result \in SqlAnswers(stmt, held)

\* ProgrammingError is raised only for what SQL has no answer to: a width that
\* does not fit, an ungrouped column, a scalar subquery with too many rows.
RaisesOnlyWithoutAnswer == pc = "raised" => SqlAnswers(stmt, held) = {}

RECURSIVE Mentions(_)
Mentions(q) ==
  CASE q.op \in {"absent", "cte"} -> {}
    [] q.op = "table" -> {q.at}
    [] q.op = "set" -> Mentions(q.left) \cup Mentions(q.right)
    [] q.op = "select" -> Mentions(q.from) \cup Mentions(q.sub)

\* Every mention of a collection is read once, however many queries share the
\* CTE it is in, and none is left out.
MentionsReadOnce ==
  pc \in {"done", "raised"} =>
    LET mentions == Mentions(stmt.cte) \cup Mentions(stmt.query) IN
    DOMAIN held = mentions /\ index = Cardinality(mentions)
=============================================================================
