------------------------------ MODULE JoinRead ------------------------------
(***************************************************************************)
(* SELECT ... FROM f1 JOIN f2 ON ... [JOIN f3 ON ...] [WHERE ...], as      *)
(* relational.py answers it: plan one read per collection, run the reads   *)
(* one after the other -- each narrowed by its own WHERE conjuncts and by  *)
(* the join keys an earlier read returned -- and join what came back on    *)
(* the client.  No snapshot spans the reads: what a collection holds when  *)
(* its read is served is arbitrary, whatever it held before.  A read is    *)
(* one step here (PagedRead takes it apart).                               *)
(*                                                                         *)
(* Frames are numbered in FROM order.  A row is its join column `k`, which *)
(* may be NULL, and a nullable column `v` the predicates look at.          *)
(***************************************************************************)
EXTENDS Integers, Sequences, FiniteSetsExt, KeyOrder

CONSTANTS
  Keys,              \* values of the join columns
  Null,              \* SQL NULL in a join column
  Statements,        \* the statements considered: see StatementShape
  Contents(_, _),    \* Contents(st, f): what frame f's collection may hold
  TopK,              \* LIMIT of the vector search
  MaxKeys,           \* _PUSHDOWN_MAX_KEYS (1024)
  MaxSide            \* _QUADRATIC_JOIN_MAX_SIDE (16384)

Hows == {"inner", "left", "right", "full"}
Predicates == {"true", "v is set", "v is null"}

Rows == [k : Keys \cup {Null}, v : {"set", "null"}, real : {TRUE}]
NoRow == [k |-> Null, v |-> "null", real |-> FALSE]  \* what an outer join invents

\* joins[i] joins frame i+1: on equality with frame `on` (0: no equality) and,
\* if `cond`, on v of the joined row being set.  search is the frame ranked by
\* vector distance, 0 if there is none.
StatementShape(st) ==
  LET n == Len(st.joins) IN
  /\ st.joins \in Seq([how : Hows, on : Nat, cond : BOOLEAN])
  /\ \A i \in 1..n : /\ st.joins[i].on \in 0..i
                     /\ st.joins[i].how = "inner" \/ st.joins[i].on # 0 \/ st.joins[i].cond
  /\ st.where \in [1..n+1 -> Predicates]
  /\ st.search \in 0..n+1

ASSUME StatementsAssumption == \A st \in Statements : StatementShape(st)
ASSUME ContentsAssumption ==
  \A st \in Statements : \A f \in 1..Len(st.joins)+1 : \A c \in Contents(st, f) :
    c \subseteq Rows /\ IsFiniteSet(c)
ASSUME NullAssumption == Null \notin Keys
ASSUME BoundsAssumption == TopK \in Nat /\ MaxKeys \in Nat /\ MaxSide \in Nat

VARIABLES
  stmt,              \* the statement being answered
  pc,                \* "scan", "done", "raised" or "failed"
  index,             \* how many of the scans have been read
  frames,            \* frames[f]: the rows read for frame f
  result,            \* the joined rows: sequences of one row per frame
  held               \* history: held[f]: what the collection held when read
                     \* (for a vector search: its hits)

vars == <<stmt, pc, index, frames, result, held>>

Frames(st) == 1..Len(st.joins)+1

Passes(p, row) ==
  CASE p = "true" -> TRUE
    [] p = "v is set" -> row.v = "set"
    [] p = "v is null" -> row.v = "null"

-----------------------------------------------------------------------------
(* Planning.                                                               *)

\* Fault: a RIGHT or FULL join null-extends the one frame before it.
NullSupplyingNeighbour(st) ==
  UNION {CASE st.joins[i].how = "left" -> {i + 1}
           [] st.joins[i].how = "right" -> {i}
           [] st.joins[i].how = "full" -> {i, i + 1}
           [] OTHER -> {} : i \in DOMAIN st.joins}

\* The frames join i invents null rows for, and those any outer join does.
NullExtended(st, i) ==
  CASE st.joins[i].how = "left" -> {i + 1}
    [] st.joins[i].how = "right" -> 1..i
    [] st.joins[i].how = "full" -> 1..i+1
    [] OTHER -> {}
NullSupplying(st) == UNION {NullExtended(st, i) : i \in DOMAIN st.joins}

\* The conjunct Milvus filters frame f by, and the one left to the client.
Pushed(st, f) == IF f \in NullSupplying(st) THEN "true" ELSE st.where[f]
Residual(st, f) == IF f \in NullSupplying(st) THEN st.where[f] ELSE "true"

Rank(st, f) ==
  CASE f = st.search -> 0
    [] f # st.search /\ Pushed(st, f) # "true" -> 1
    [] OTHER -> 2

\* A stable sort: equal ranks stay in FROM order.
Ranked(st, r) == InKeyOrder({f \in Frames(st) : Rank(st, f) = r})
OrderScans(st) == Ranked(st, 0) \o Ranked(st, 1) \o Ranked(st, 2)

ReadBefore(st, f, g) ==
  \E i, j \in Frames(st) : i < j /\ OrderScans(st)[i] = f /\ OrderScans(st)[j] = g

\* The read whose keys join i may restrict frame f's by, 0 for none: only
\* towards the side whose unmatched rows the join drops.
Candidate(st, i, f) ==
  LET j == st.joins[i] IN
  CASE j.on # 0 /\ j.how \in {"inner", "left"} /\ f = i + 1 -> j.on
    [] j.on # 0 /\ j.how \in {"inner", "right"} /\ f = j.on -> i + 1
    [] OTHER -> 0

\* The read whose keys do restrict frame f's, 0 for none: the first candidate
\* in join order that is read earlier.  A vector search is never restricted.
KeySource(st, f) ==
  LET able == {i \in DOMAIN st.joins : ReadBefore(st, Candidate(st, i, f), f)}
  IN IF able = {} \/ f = st.search THEN 0 ELSE Candidate(st, Min(able), f)

-----------------------------------------------------------------------------
(* Execution.                                                              *)

KeysOf(rows) == {r.k : r \in rows} \ {Null}

\* _apply_pushdown: `k in [...]`, or `false` when there are no keys.
Narrowed(rows, f) ==
  LET source == KeySource(stmt, f) IN
  IF source = 0 THEN rows
  ELSE IF Cardinality(KeysOf(frames[source])) > MaxKeys THEN rows
  ELSE {r \in rows : r.k \in KeysOf(frames[source])}

\* An ANN search returns the TopK nearest of the rows its filter passes.
Hits(rows) ==
  {h \in SUBSET rows : \/ Cardinality(h) = TopK
                       \/ h = rows /\ Cardinality(rows) <= TopK}

On(j, left, row) ==
  /\ j.on # 0 => row.k # Null /\ left[j.on].k = row.k
  /\ j.cond => row.v = "set"

\* Fault: a row of the joined frame is not null-extended over every earlier one.
JoinedShort(st, i, lefts, rows) ==
  LET j == st.joins[i]
      pairs == {p \in lefts \X rows : On(j, p[1], p[2])}
  IN {Append(p[1], p[2]) : p \in pairs}
     \cup {Append(l, NoRow) : l \in
             {x \in lefts : j.how \in {"left", "full"} /\ \A r \in rows : <<x, r>> \notin pairs}}
     \cup {<<r>> : r \in
             {x \in rows : j.how \in {"right", "full"} /\ \A l \in lefts : <<l, x>> \notin pairs}}

\* _join: the pairs ON accepts; an outer join puts the rows of its preserved
\* side that found no partner back, null-extended.
Joined(st, i, lefts, rows) ==
  LET j == st.joins[i]
      pairs == {p \in lefts \X rows : On(j, p[1], p[2])}
      blank == [x \in 1..i |-> NoRow]
  IN {Append(p[1], p[2]) : p \in pairs}
     \cup {Append(l, NoRow) : l \in
             {x \in lefts : j.how \in {"left", "full"} /\ \A r \in rows : <<x, r>> \notin pairs}}
     \cup {Append(blank, r) : r \in
             {x \in rows : j.how \in {"right", "full"} /\ \A l \in lefts : <<l, x>> \notin pairs}}

\* Fault: the bound itself is refused.
TooLargeAtBound(lefts, rows) == Cardinality(lefts) >= MaxSide \/ Cardinality(rows) >= MaxSide

\* Without an equality every combination is formed: refused past the bound.
TooLarge(lefts, rows) == Cardinality(lefts) > MaxSide \/ Cardinality(rows) > MaxSide

\* FROM and its JOINs over one set of rows per frame, left to right: the rows
\* after i joins.
Stages(st, rowsOf) ==
  LET after[i \in 0..Len(st.joins)] ==
        IF i = 0 THEN {<<r>> : r \in rowsOf[1]}
        ELSE Joined(st, i, after[i - 1], rowsOf[i + 1])
  IN after

\* A quadratic join on the way is too large.
Refused(st, rowsOf) ==
  \E i \in DOMAIN st.joins :
    st.joins[i].on = 0 /\ TooLarge(Stages(st, rowsOf)[i - 1], rowsOf[i + 1])

\* _evaluate: joins, then what is left of WHERE.
Evaluated(st, rowsOf) ==
  {t \in Stages(st, rowsOf)[Len(st.joins)] : \A f \in Frames(st) : Passes(Residual(st, f), t[f])}

\* One link of the chain: read the next frame; the last one evaluates.
Scan ==
  LET f == OrderScans(stmt)[index + 1] IN
  /\ pc = "scan"
  /\ \E rows \in Contents(stmt, f) :
       LET passing == {r \in rows : Passes(Pushed(stmt, f), r)} IN
       IF f = stmt.search
       THEN \E hits \in Hits(passing) :
              /\ frames' = [frames EXCEPT ![f] = hits]
              /\ held' = [held EXCEPT ![f] = hits]
       ELSE /\ frames' = [frames EXCEPT ![f] = Narrowed(passing, f)]
            /\ held' = [held EXCEPT ![f] = rows]
  /\ index' = index + 1
  /\ IF index + 1 < Len(stmt.joins) + 1
     THEN UNCHANGED <<pc, result>>
     ELSE IF Refused(stmt, frames')
     THEN pc' = "raised" /\ UNCHANGED result
     ELSE pc' = "done" /\ result' = Evaluated(stmt, frames')
  /\ UNCHANGED stmt

RpcFails ==
  /\ pc = "scan"
  /\ pc' = "failed"
  /\ UNCHANGED <<stmt, index, frames, result, held>>

\* build_relational_call: the plan is a function of the statement alone.
Init ==
  /\ stmt \in Statements
  /\ pc = "scan"
  /\ index = 0
  /\ frames = [f \in Frames(stmt) |-> {}]
  /\ held = [f \in Frames(stmt) |-> {}]
  /\ result = {}

Next == Scan \/ RpcFails

Spec == Init /\ [][Next]_vars

-----------------------------------------------------------------------------
TypeOK ==
  /\ StatementShape(stmt)
  /\ pc \in {"scan", "done", "raised", "failed"}
  /\ index \in 0..Len(stmt.joins)+1
  /\ frames \in [Frames(stmt) -> SUBSET Rows]
  /\ held \in [Frames(stmt) -> SUBSET Rows]
  /\ \A t \in result : t \in [Frames(stmt) -> Rows \cup {NoRow}]

\* JOIN, declaratively: l and r are paired if ON holds; a side the join
\* preserves also keeps its rows that nothing is paired with.
SqlJoin(st, i, lefts, rows) ==
  LET j == st.joins[i]
      blank == [x \in 1..i |-> NoRow]
      Keeps(l, r) ==
        CASE l # blank /\ r # NoRow -> On(j, l, r)
          [] l # blank /\ r = NoRow -> j.how \in {"left", "full"} /\ ~\E x \in rows : On(j, l, x)
          [] l = blank /\ r # NoRow -> j.how \in {"right", "full"} /\ ~\E x \in lefts : On(j, x, r)
          [] OTHER -> FALSE
  IN {Append(p[1], p[2]) : p \in {q \in (lefts \cup {blank}) \X (rows \cup {NoRow}) : Keeps(q[1], q[2])}}

\* FROM and its JOINs as SQL has them, after i joins.
SqlStages(st, rowsOf) ==
  LET after[i \in 0..Len(st.joins)] ==
        IF i = 0 THEN {<<r>> : r \in rowsOf[1]}
        ELSE SqlJoin(st, i, after[i - 1], rowsOf[i + 1])
  IN after

\* What SQL says of the rows every collection held when it was read: join
\* them all, then apply the whole WHERE.
Answer(st, rowsOf) ==
  {t \in SqlStages(st, rowsOf)[Len(st.joins)] : \A f \in Frames(st) : Passes(st.where[f], t[f])}

\* Planning is transparent: pushing WHERE conjuncts and join keys into the
\* reads, in whatever order they run and whatever writers do between them,
\* changes no joined row -- through inner, outer and mixed chains of joins.
PlanIsTransparent == pc = "done" => result = Answer(stmt, held)

\* A FULL join on a frame that an earlier outer join may have left null.
FullOverNulls(st) ==
  \E i \in DOMAIN st.joins : /\ st.joins[i].how = "full"
                             /\ \E h \in 1..i-1 : st.joins[i].on \in NullExtended(st, h)

\* A statement is refused for its size only when a join SQL describes has a
\* side that is too large.  Planning never makes a join larger, but for one
\* case: where a row that the planner's restriction took away would have kept
\* the two sides of a later FULL join together, they come out apart.
RefusedOnlyIfLarge ==
  pc = "raised" /\ ~FullOverNulls(stmt) =>
    \E i \in DOMAIN stmt.joins :
      /\ stmt.joins[i].on = 0
      /\ \/ Cardinality(SqlStages(stmt, held)[i - 1]) > MaxSide
         \/ Cardinality(held[i + 1]) > MaxSide
=============================================================================
