----------------------------- MODULE UpdateStmt -----------------------------
(***************************************************************************)
(* UPDATE t SET col = 1 [WHERE col2 = 0], as _build_update runs it: read   *)
(* every matching row whole (output_fields ["*"], primary-key pages), then *)
(* merge the SET values into the rows read, then write them back with one  *)
(* upsert RPC per chunk.  Several sessions UPDATE one collection while     *)
(* others DELETE from it; no transaction spans the RPCs.  The page loop is *)
(* that of PagedRead, here with the rows' contents; a short read is its    *)
(* first page.  A column is 0 until some UPDATE sets it to 1.              *)
(***************************************************************************)
EXTENDS Integers, Sequences, FiniteSets, SequencesExt, KeyOrder

CONSTANTS
  Sessions,          \* cursors running UPDATE statements
  Cols,              \* the collection's scalar columns
  MaxKey,            \* bound: primary keys are 1..MaxKey
  InitialKeys,       \* keys that may hold a row at first
  Wheres,            \* the WHERE clauses considered: "all", or `col = 0`
  Limit,             \* DEFAULT_QUERY_LIMIT, rows per page (16384)
  MaxStatements,     \* bound: UPDATE statements run in all
  Batch              \* _UPSERT_BATCH_ROWS, rows per upsert (1000)

ASSUME BoundsAssumption ==
  /\ MaxKey \in Nat /\ MaxStatements \in Nat /\ Limit \in Nat \ {0} /\ Batch \in Nat \ {0}
  /\ InitialKeys \in SUBSET (1..MaxKey) /\ Cols # {}
  /\ Wheres \subseteq Cols \cup {"all"} /\ Wheres # {}

Keys == 1..MaxKey
NoRow == [who |-> 0]
Disturbed == << >>

\* A row: its columns, and (history) the row of the initial collection it is.
Rows == [who : InitialKeys, col : [Cols -> {0, 1}]]
Statements == [set : Cols, where : Wheres]

VARIABLES
  autoId,            \* the primary key is auto_id
  level,             \* consistency level of reads: "Strong" or "Bounded"
  coll,              \* coll[k]: the row with primary key k, or NoRow
  replica,           \* what a Bounded read may still see instead of coll
  minted,            \* the largest key ever used
  pc,                \* pc[s]: "idle", "read", "write", "done" or "failed"
  stmt,              \* stmt[s]: the UPDATE statement s runs
  after,             \* after[s]: the page cursor, 0 for None
  merged,            \* merged[s]: rows read, with the SET values merged in
  start,             \* start[s]: how many of them have been upserted
  count,             \* count[s]: sum of the upsert_count answers
  begun,             \* statements begun, up to MaxStatements
  before,            \* history: the collection when s began, or Disturbed once
                     \* someone else has written, or s may read stale rows
  overlapped,        \* history: another UPDATE was running at the same time
  settled,           \* history: <<row, column>> set by statements nothing overlapped
  buried             \* history: rows deleted while no UPDATE was running

session == <<pc, stmt, after, merged, start, count>>
vars == <<autoId, level, coll, replica, minted, session, begun,
          before, overlapped, settled, buried>>

Busy(s) == pc[s] \in {"read", "write"}

-----------------------------------------------------------------------------
(* The server (external).                                                  *)

\* Fault: the read ignores the consistency level it should run at.
VisibleBounded == replica

Visible == IF level = "Strong" THEN coll ELSE replica

Matching(st, c) ==
  {k \in Keys : c[k] # NoRow /\ (st.where # "all" => c[k].col[st.where] = 0)}

\* The Limit smallest matching keys past the cursor, in order.
PageKeys(st, c, a) ==
  LET past == {k \in Matching(st, c) : k > a}
  IN InKeyOrder({k \in past : Cardinality({j \in past : j < k}) < Limit})

\* upsert(data=chunk): a caller-assigned key is replaced or inserted; an
\* auto_id key is not honoured: the row moves to a new key.
Upserted(chunk) ==
  LET old == {chunk[i].pk : i \in DOMAIN chunk}
      Placed(i) == IF autoId THEN minted + i ELSE chunk[i].pk
      RowAt(k) == chunk[CHOOSE i \in DOMAIN chunk : Placed(i) = k].row
  IN [k \in Keys |->
        IF \E i \in DOMAIN chunk : Placed(i) = k THEN RowAt(k)
        ELSE IF k \in old THEN NoRow ELSE coll[k]]

-----------------------------------------------------------------------------
(* _build_update and _chunked_upsert.                                      *)

\* Faults: SET col = col + 1; the row is rebuilt from the SET list alone.
MergeIncrement(row, st) == [row EXCEPT !.col[st.set] = @ + 1]
MergeSetOnly(row, st) == [row EXCEPT !.col = [c \in Cols |-> IF c = st.set THEN 1 ELSE 0]]

\* merged = {**row, **set_values}.
Merge(row, st) == [row EXCEPT !.col[st.set] = 1]

\* merged[start : start + _UPSERT_BATCH_ROWS].
Chunk(s) == SubSeq(merged[s], start[s] + 1, Min({start[s] + Batch, Len(merged[s])}))

\* Fault: one row between two chunks is skipped.
FollowingPlusOne(s) == start[s] + Batch + 1

\* The offset of the next link, if it has rows.
Following(s) == start[s] + Batch

\* Fault: the rows of the last statement are still there for the next.
ForgetStartOnly(s) ==
  /\ start' = [start EXCEPT ![s] = 0]
  /\ UNCHANGED merged

\* The closures of a finished statement are gone.
Forget(s) ==
  /\ merged' = [merged EXCEPT ![s] = << >>]
  /\ start' = [start EXCEPT ![s] = 0]

Begin(s, st) ==
  /\ ~Busy(s) /\ begun < MaxStatements
  /\ begun' = begun + 1
  /\ pc' = [pc EXCEPT ![s] = "read"]
  /\ stmt' = [stmt EXCEPT ![s] = st]
  /\ count' = [count EXCEPT ![s] = 0]
  /\ before' = [before EXCEPT ![s] = IF Visible = coll THEN coll ELSE Disturbed]
  /\ LET busy == {o \in Sessions \ {s} : Busy(o)} IN
       overlapped' = [o \in Sessions |-> IF o = s THEN busy # {}
                                         ELSE overlapped[o] \/ o \in busy]
  /\ UNCHANGED <<autoId, level, coll, replica, minted, after, merged, start,
                 settled, buried>>

\* One page of the read.  The last one calls _write_back, which has nothing
\* to do when no row matched.
ReadPage(s) ==
  /\ pc[s] = "read"
  /\ LET keys == PageKeys(stmt[s], Visible, after[s])
         rows == [i \in DOMAIN keys |->
                    [pk |-> keys[i], row |-> Merge(Visible[keys[i]], stmt[s])]]
     IN /\ merged' = [merged EXCEPT ![s] = @ \o rows]
        /\ IF Len(keys) >= Limit
           THEN /\ after' = [after EXCEPT ![s] = Last(keys)]
                /\ UNCHANGED pc
           ELSE /\ pc' = [pc EXCEPT ![s] = IF merged'[s] = << >> THEN "done" ELSE "write"]
                /\ after' = [after EXCEPT ![s] = 0]
  /\ UNCHANGED <<autoId, level, coll, replica, minted, stmt, start, count, begun,
                 before, overlapped, settled, buried>>

\* The server applies one chunk.
Apply(s) ==
  LET chunk == Chunk(s) IN
  /\ autoId => minted + Len(chunk) <= MaxKey
  /\ coll' = Upserted(chunk)
  /\ minted' = IF autoId THEN minted + Len(chunk) ELSE minted
  /\ before' = [o \in Sessions |-> IF o = s THEN before[o] ELSE Disturbed]

\* The rows of an acknowledged statement that nothing overlapped.
Settled(s) ==
  IF ~overlapped[s]
  THEN {<<merged[s][i].row.who, stmt[s].set>> : i \in DOMAIN merged[s]} ELSE {}

\* link(start): one upsert RPC, answered; then the next link, or the end.
UpsertChunk(s) ==
  /\ pc[s] = "write"
  /\ Apply(s)
  /\ count' = [count EXCEPT ![s] = @ + Len(Chunk(s))]
  /\ IF Following(s) < Len(merged[s])
     THEN /\ start' = [start EXCEPT ![s] = Following(s)]
          /\ UNCHANGED <<pc, merged, settled>>
     ELSE /\ pc' = [pc EXCEPT ![s] = "done"]
          /\ settled' = settled \cup Settled(s)
          /\ Forget(s)
  /\ UNCHANGED <<autoId, level, replica, stmt, after, begun, overlapped, buried>>

\* An RPC raises: the statement ends there, whatever it has written stays.
\* The failing upsert may have been applied all the same.
Fail(s) ==
  /\ Busy(s)
  /\ pc' = [pc EXCEPT ![s] = "failed"]
  /\ \/ UNCHANGED <<coll, minted, before>>
     \/ pc[s] = "write" /\ Apply(s)
  /\ Forget(s)
  /\ after' = [after EXCEPT ![s] = 0]
  /\ UNCHANGED <<autoId, level, replica, stmt, count, begun,
                 overlapped, settled, buried>>

\* Another client's DELETE of one row.
Delete(k) ==
  /\ coll[k] # NoRow
  /\ coll' = [coll EXCEPT ![k] = NoRow]
  /\ before' = [s \in Sessions |-> Disturbed]
  /\ buried' = IF \A s \in Sessions : ~Busy(s)
               THEN buried \cup ({coll[k].who} \ {coll'[j].who : j \in Keys})
               ELSE buried
  /\ UNCHANGED <<autoId, level, replica, minted, session, begun,
                 overlapped, settled>>

\* Replication catches up.
Sync ==
  /\ replica # coll
  /\ replica' = coll
  /\ UNCHANGED <<autoId, level, coll, minted, session, begun,
                 before, overlapped, settled, buried>>

Init ==
  /\ autoId \in BOOLEAN /\ level \in {"Strong", "Bounded"}
  /\ coll \in {c \in [Keys -> Rows \cup {NoRow}] :
                 \A k \in Keys : IF k \in InitialKeys THEN c[k] \in {NoRow,
                     [who |-> k, col |-> [x \in Cols |-> 0]]} ELSE c[k] = NoRow}
  /\ replica = coll
  /\ minted = Max(InitialKeys \cup {0})
  /\ pc = [s \in Sessions |-> "idle"]
  /\ stmt \in [Sessions -> {CHOOSE st \in Statements : TRUE}]
  /\ after = [s \in Sessions |-> 0]
  /\ merged = [s \in Sessions |-> << >>]
  /\ start = [s \in Sessions |-> 0] /\ count = [s \in Sessions |-> 0]
  /\ before = [s \in Sessions |-> Disturbed]
  /\ overlapped = [s \in Sessions |-> FALSE]
  /\ begun = 0 /\ settled = {} /\ buried = {}

Next ==
  \/ \E s \in Sessions :
       \/ \E st \in Statements : Begin(s, st)
       \/ ReadPage(s)
       \/ UpsertChunk(s)
       \/ Fail(s)
  \/ \E k \in Keys : Delete(k)
  \/ Sync

Spec == Init /\ [][Next]_vars

-----------------------------------------------------------------------------
TypeOK ==
  /\ autoId \in BOOLEAN /\ level \in {"Strong", "Bounded"}
  /\ coll \in [Keys -> Rows \cup {NoRow}]
  /\ replica \in [Keys -> Rows \cup {NoRow}]
  /\ minted \in 0..MaxKey
  /\ pc \in [Sessions -> {"idle", "read", "write", "done", "failed"}]
  /\ stmt \in [Sessions -> Statements]
  /\ after \in [Sessions -> 0..MaxKey]
  /\ \A s \in Sessions : merged[s] \in Seq([pk : Keys, row : Rows])
  /\ start \in [Sessions -> Nat] /\ count \in [Sessions -> Nat]
  /\ begun \in 0..MaxStatements

\* The row as SQL's UPDATE leaves it.
Updated(row, st) ==
  [who |-> row.who, col |-> [c \in Cols |-> IF c = st.set THEN 1 ELSE row.col[c]]]

Contents(c) == {c[k] : k \in Keys} \ {NoRow}
RowsOf(c, w) == {k \in Keys : c[k] # NoRow /\ c[k].who = w}

\* An UPDATE that nothing overlapped and that returned has set the column in
\* exactly the rows that matched, lost no other column of theirs, touched no
\* other row, and neither dropped nor duplicated one -- on auto_id tables too,
\* where every row comes out under a new key.  Its rowcount is their number.
ExactWhenAlone ==
  \A s \in Sessions : pc[s] = "done" /\ before[s] # Disturbed =>
    LET hit == Matching(stmt[s], before[s]) IN
    /\ Contents(coll) = {Updated(before[s][k], stmt[s]) : k \in hit}
                        \cup Contents([k \in Keys |-> IF k \in hit THEN NoRow ELSE before[s][k]])
    /\ \A w \in InitialKeys : Cardinality(RowsOf(coll, w)) = Cardinality(RowsOf(before[s], w))
    /\ count[s] = Cardinality(hit)

\* One that failed part-way left every row either as it was or updated.
WholeRowsWhenFailed ==
  \A s \in Sessions : pc[s] = "failed" /\ before[s] # Disturbed =>
    /\ \A w \in InitialKeys : Cardinality(RowsOf(coll, w)) = Cardinality(RowsOf(before[s], w))
    /\ Contents(coll) \subseteq
         Contents(before[s]) \cup {Updated(row, stmt[s]) : row \in Contents(before[s])}

\* With Strong reads, a statement that began after an UPDATE was acknowledged
\* never writes the old value of that column back.  (With Bounded reads it may:
\* it can read, and write back, the row as it was before that UPDATE.)
UpdatesStay ==
  level = "Strong" /\ ~autoId =>
    \A p \in settled : \A k \in RowsOf(coll, p[1]) : coll[k].col[p[2]] = 1

\* With Strong reads, a row deleted while no UPDATE was running stays deleted.
DeletesStay == level = "Strong" => \A w \in buried : RowsOf(coll, w) = {}
=============================================================================
