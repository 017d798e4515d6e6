--------------------------- MODULE SelectDispatch ---------------------------
(***************************************************************************)
(* SELECT over one collection: which of the read paths _build_select takes *)
(* and what comes back, against what the SQL means.  A path decides what   *)
(* Milvus is asked and what is left to the client; the paths differ in     *)
(* which clauses they carry through.                                       *)
(*                                                                         *)
(* A collection is a sequence of rows in order of vector distance, and a   *)
(* row is its price: a number or NULL.  Statements select the price, or    *)
(* aggregate it.  The specification is SelectSpec; its parts are named so  *)
(* that one module can extend this one and PagedRead.                      *)
(***************************************************************************)
EXTENDS KeyOrder, Sequences, SequencesExt

CONSTANTS
  Prices,            \* the prices considered
  MaxRows,           \* bound: rows in the collection
  Ceiling,           \* DEFAULT_QUERY_LIMIT (16384)
  Statements,        \* the statements considered
  ConnectionLevels   \* consistency levels a connection may be opened with

ASSUME PricesAssumption == Prices \subseteq Nat
ASSUME BoundsAssumption == MaxRows \in Nat /\ Ceiling \in Nat \ {0}

None == -1           \* no such clause; as a price, NULL
Unset == "unset"     \* no consistency level
Levels == {Unset, "Strong", "Bounded"}

\* A SELECT without its FROM: `where` is `price IS NOT NULL`, order is "none",
\* "asc", "desc" (by price), "ann" (by distance) or "hybrid" (HYBRID SEARCH).
\* LIMIT 0 is left out: what Milvus answers to it is its own.
Selects ==
  [item : {"price", "count", "max"}, where : BOOLEAN,
   order : {"none", "asc", "desc", "ann", "hybrid"},
   limit : (Nat \ {0}) \cup {None}, offset : Nat \cup {None}, distinct : BOOLEAN]

\* The whole statement: FROM the collection or, if nested, FROM (inner); level
\* is its CONSISTENCY LEVEL clause.
StatementShape(st) ==
  /\ st.outer \in Selects
  /\ st.inner \in Selects
  /\ st.nested \in BOOLEAN
  /\ st.level \in Levels

ASSUME StatementsAssumption == \A st \in Statements : StatementShape(st)
ASSUME LevelsAssumption == ConnectionLevels \subseteq Levels

VARIABLES
  table,             \* the rows the server holds, nearest first
  connection,        \* the connection's consistency_level
  stmt,              \* the statement
  phase,             \* "ready", "done" or "raised"
  used,              \* the consistency_level the RPC was sent with
  answer             \* the rows of the answer

selectVars == <<table, connection, stmt, phase, used, answer>>

-----------------------------------------------------------------------------
(* SQL.                                                                    *)

Orders(s) ==
  {[i \in DOMAIN s |-> s[p[i]]] : p \in {q \in [DOMAIN s -> DOMAIN s] : IsInjective(q)}}

\* Ascending puts NULL last, descending first (_sort, _sorted_query_rows).
NotAfter(x, y) == y = None \/ (x # None /\ x <= y)

SortedBy(s, order) ==
  \A i, j \in DOMAIN s : i < j =>
    IF order = "asc" THEN NotAfter(s[i], s[j]) ELSE NotAfter(s[j], s[i])

\* The orders ORDER BY allows; a hybrid score may be anything.
Ordered(s, order) ==
  CASE order \in {"none", "hybrid"} -> Orders(s)
    [] order = "ann" -> {s}
    [] OTHER -> {o \in Orders(s) : SortedBy(o, order)}

\* The rows of s at these positions, in the order of s.
RowsAt(s, positions) ==
  LET kept == InKeyOrder(positions) IN [k \in 1..Len(kept) |-> s[kept[k]]]

Filtered(s, where) == IF where THEN RowsAt(s, {i \in DOMAIN s : s[i] # None}) ELSE s

First(s, n) == IF n = None THEN s ELSE SubSeq(s, 1, IF n < Len(s) THEN n ELSE Len(s))
After(s, n) == IF n \in {None, 0} THEN s ELSE SubSeq(s, n + 1, Len(s))

\* DISTINCT, keeping first occurrences.
Deduped(s) == RowsAt(s, {i \in DOMAIN s : \A j \in DOMAIN s : s[j] = s[i] => i <= j})

Aggregate(s, item) ==
  LET known == Range(s) \ {None} IN
  IF item = "count" THEN Len(s)
  ELSE IF known = {} THEN None ELSE CHOOSE m \in known : \A x \in known : x <= m

\* What the clauses of q leave of the ordered rows s, in SQL's clause order.
Clauses(q, s) ==
  LET out == IF q.item = "price" THEN s ELSE <<Aggregate(s, q.item)>>
  IN First(After(IF q.distinct THEN Deduped(out) ELSE out, q.offset), q.limit)

Answers(q, s) == {Clauses(q, o) : o \in Ordered(Filtered(s, q.where), q.order)}

Meaning(st, s) ==
  IF st.nested THEN UNION {Answers(st.outer, o) : o \in Answers(st.inner, s)}
  ELSE Answers(st.outer, s)

-----------------------------------------------------------------------------
(* _build_select.                                                          *)

\* _flatten_trivial_subquery: the inner SELECT goes away, its WHERE is ANDed to
\* the outer one, and nothing else of it is looked at.
Flattens(st) ==
  /\ st.nested
  /\ st.inner.order = "none" /\ st.inner.limit = None /\ ~st.inner.distinct

\* Fault: OFFSET alone does not ask for the relational engine.
NeedsRelationalEngineNoOffset(q, nested) == q.distinct \/ nested

\* needs_relational_engine (JOIN, GROUP BY, WITH and subqueries are not here).
NeedsRelationalEngine(q, nested) == q.distinct \/ q.offset # None \/ nested

Path(q, nested) ==
  CASE q.order = "hybrid" -> "hybrid"
    [] q.order # "hybrid" /\ NeedsRelationalEngine(q, nested) -> "relational"
    [] q.order # "hybrid" /\ ~NeedsRelationalEngine(q, nested) ->
         IF q.item # "price" THEN "aggregate"
         ELSE IF q.order = "ann" THEN "search" ELSE "query"

RowLimit(q) == IF q.limit = None THEN Ceiling ELSE q.limit

\* The answer of each path for q over the rows s (in the order of distance).
\* A read with no limit pages to completion; its order is the server's.
HybridAnswers(q, s) == {First(o, RowLimit(q)) : o \in Orders(Filtered(s, q.where))}

SearchAnswers(q, s) == {First(Filtered(s, q.where), RowLimit(q))}

AggregateAnswers(q, s) == {<<Aggregate(Filtered(s, q.where), q.item)>>}

PlainAnswers(q, s) ==
  IF q.order = "none" THEN {First(o, q.limit) : o \in Orders(Filtered(s, q.where))}
  ELSE {First(o, RowLimit(q)) : o \in Ordered(Filtered(s, q.where), q.order)}

\* _evaluate once the source's rows are sorted: reduce or project, unique,
\* slice, head.
Evaluated(q, sorted) ==
  LET projected == IF q.item = "price" THEN sorted ELSE <<Aggregate(sorted, q.item)>>
      unique == IF q.distinct THEN Deduped(projected) ELSE projected
      sliced == IF q.offset > 0 THEN After(unique, q.offset) ELSE unique
  IN First(sliced, q.limit)

\* One source of the relational engine, read whole -- or its LIMIT nearest hits
\* when the leading ORDER BY key is a distance.
RelationalAnswers(q, s) ==
  LET read == IF q.order = "ann" THEN First(Filtered(s, q.where), q.limit)
              ELSE Filtered(s, q.where)
  IN {Evaluated(q, o) : o \in Ordered(read, q.order)}

PathAnswers(path, q, s) ==
  CASE path = "hybrid" -> HybridAnswers(q, s)
    [] path = "relational" -> RelationalAnswers(q, s)
    [] path = "aggregate" -> AggregateAnswers(q, s)
    [] path = "search" -> SearchAnswers(q, s)
    [] path = "query" -> PlainAnswers(q, s)

\* On a source that is not a scan the distance key is dropped: no search runs.
Unranked(q) == IF q.order = "ann" THEN [q EXCEPT !.order = "none"] ELSE q

CodeAnswers(st, s) ==
  CASE ~st.nested -> PathAnswers(Path(st.outer, FALSE), st.outer, s)
    [] Flattens(st) -> PathAnswers(Path(st.outer, FALSE), st.outer, Filtered(s, st.inner.where))
    [] OTHER -> UNION {RelationalAnswers(Unranked(st.outer), o) : o \in RelationalAnswers(st.inner, s)}

\* Only the search and relational paths put the clause into the RPC.
ClauseLevel(st) ==
  IF Path(st.outer, st.nested /\ ~Flattens(st)) \in {"search", "relational"}
  THEN st.level ELSE Unset

\* Faults: no level is sent as the string "None"; the connection's level wins.
SentLevelNone(clause, default) == IF clause # Unset THEN clause ELSE "None"
SentLevelDefault(clause, default) == IF default # Unset THEN default ELSE clause

\* _invoke: the connection's level, unless the Call brings its own.
SentLevel(clause, default) == IF clause # Unset THEN clause ELSE default

\* _plan_search: a vector search in the relational engine needs a LIMIT.
Refused(st) ==
  \/ /\ st.nested /\ ~Flattens(st)
     /\ "ann" \in {q.order : q \in {x \in {st.inner, st.outer} : x.limit = None}}
  \/ ~st.nested /\ st.outer.order = "ann" /\ st.outer.limit = None
     /\ NeedsRelationalEngine(st.outer, FALSE)

Execute ==
  /\ phase = "ready"
  /\ used' = SentLevel(ClauseLevel(stmt), connection)
  /\ IF Refused(stmt)
     THEN phase' = "raised" /\ UNCHANGED answer
     ELSE phase' = "done" /\ answer' \in CodeAnswers(stmt, table)
  /\ UNCHANGED <<table, connection, stmt>>

ReadFails ==
  /\ phase = "ready"
  /\ phase' = "raised"
  /\ UNCHANGED <<table, connection, stmt, used, answer>>

SelectInit ==
  /\ table \in SeqOf(Prices \cup {None}, MaxRows)
  /\ connection \in ConnectionLevels
  /\ stmt \in Statements
  /\ phase = "ready"
  /\ used = Unset
  /\ answer = << >>

SelectNext == Execute \/ ReadFails

SelectSpec == SelectInit /\ [][SelectNext]_selectVars

-----------------------------------------------------------------------------
SelectTypeOK ==
  /\ table \in Seq(Prices \cup {None})
  /\ connection \in Levels
  /\ StatementShape(stmt)
  /\ phase \in {"ready", "done", "raised"}
  /\ used \in Levels
  /\ answer \in Seq(Nat \cup {None})

\* An aggregate has no ORDER BY; HYBRID SEARCH stands alone.
Legal(q) ==
  /\ q.item # "price" => q.order = "none"
  /\ q.order = "hybrid" => q.offset = None /\ ~q.distinct

\* What the relational engine carries through: a search's LIMIT is spent before
\* its OFFSET and its DISTINCT are applied.
CarriedByEngine(q) == Legal(q) /\ (q.order = "ann" => q.offset \in {None, 0} /\ ~q.distinct)

\* What a SELECT of one collection carries through: without LIMIT, a read that is
\* ordered outside the relational engine is cut at the ceiling.
CarriedAlone(q) ==
  /\ CarriedByEngine(q)
  /\ q.order # "none" => q.limit # None \/ q.offset # None \/ q.distinct

\* The statements whose every clause is carried through.  A subquery that is
\* flattened only filters; over any other, no distance is left to rank by.
Carried(st) ==
  CASE ~st.nested -> CarriedAlone(st.outer)
    [] Flattens(st) -> /\ CarriedAlone(st.outer)
                       /\ st.inner.item = "price" /\ st.inner.offset \in {None, 0}
    [] OTHER -> /\ \A q \in {st.inner, st.outer} : CarriedByEngine(q) /\ q.order # "hybrid"
                /\ st.outer.order # "ann"

\* Whatever path a statement takes and whatever order the server sends rows in,
\* the answer is one that SQL allows: the routing between the single-RPC paths
\* and the relational engine drops and reorders no clause.
AnswersAreSQL == phase = "done" /\ Carried(stmt) => answer \in Meaning(stmt, table)

\* The statements whose CONSISTENCY LEVEL clause reaches the server: searches,
\* and what the relational engine reads.
CarriesLevel(st) ==
  /\ st.outer.order # "hybrid"
  /\ \/ st.nested /\ ~Flattens(st)
     \/ st.outer.distinct \/ st.outer.offset # None
     \/ st.outer.order = "ann" /\ st.outer.item = "price"

\* Such a read is sent with its own CONSISTENCY LEVEL, else the connection's;
\* any other, unless it has the clause, with the connection's.
LevelHonoured ==
  phase = "done" /\ (stmt.level # Unset => CarriesLevel(stmt)) =>
    used = IF stmt.level # Unset THEN stmt.level ELSE connection

\* README.md, "Reads page past Milvus's 16384-row per-call ceiling": client-side
\* ORDER BY covers every matching row, so with no LIMIT it returns every one.
OrderByCoversEveryRow ==
  phase = "done" /\ stmt.outer.order \in {"asc", "desc"} /\ stmt.outer.limit = None
    => Len(answer) = Len(Filtered(table, stmt.outer.where))
=============================================================================
