---------------------------- MODULE DbapiCursor ----------------------------
(***************************************************************************)
(* The DBAPI cursor (cursor.py, and AsyncCursor in aio.py): execute,       *)
(* executemany with its batched INSERT and its loop over parameter sets,   *)
(* the attributes they publish, the fetches, and closing a cursor or the   *)
(* connection.  Statements are cut at their RPC: the cursor's code runs up *)
(* to the RPC that a call sends, and on from its answer, and nothing of it *)
(* runs in between.  Tasks share the connection and, in aio.py, may share  *)
(* a cursor.  Statements here are the ones of one RPC (INSERT, DELETE, a   *)
(* bounded SELECT, DDL); reading WHERE is left to the operators FilterText *)
(* gives the constants.  Milvus, its failures and lost answers are         *)
(* external.                                                               *)
(***************************************************************************)
EXTENDS Integers, Sequences, SequencesExt, FiniteSets, KeyOrder

CONSTANTS
  Tasks, Cursors,
  Values,           \* values of column n; bind values are these, Null or Missing
  Null, Missing,    \* NULL; a bind value that is not given
  None,             \* no row, no key
  Wheres,           \* WHERE trees
  Start0,           \* rows at the start: a sequence of [n, b] records
  MaxId,            \* bound: keys the server may assign
  MaxSets,          \* bound: parameter sets of an executemany
  MaxCalls,         \* bound: calls of execute and executemany, over all tasks
  Workload(_),      \* bound: the calls a task may make, a subset of Jobs
  WhereRefusal(_, _),    \* the error a tree and bind value are refused with, or ""
  WhereSelects(_, _, _), \* the filter sent selects a row
  WhereMeans(_, _, _)    \* the WHERE, as SQL, is true of a row

ASSUME SetsAssumption == MaxSets \in Nat \ {0} /\ MaxCalls \in Nat

VARIABLES
  table,    \* the collection: key -> row, None where there is none
  keys,     \* auto_id keys assigned so far
  cur,      \* cur[c]: the cursor's attributes
  open,     \* the connection is
  calls,    \* calls made so far
  pc,       \* pc[t]: "idle", "sent" (an RPC is under way) or "answered"
  job,      \* job[t]: the call to execute or executemany t runs, or ran last
  reply,    \* reply[t]: the answer to its RPC
  outcome,  \* outcome[t]: "ok", the error its last call raised, "" while it runs
  work,     \* history: what the server did for t's call
  got,      \* history: rowcount and lastrowid when t's call returned
  given     \* history: rows fetched from a cursor since it was last published to

vars == <<table, keys, cur, open, calls, pc, job, reply, outcome, work, got, given>>

Ids == 1..MaxId
Rows == [n : Values \cup {Null}, b : {0, 1, Null}]
Binds == Values \cup {Null, Missing}
Ops == {"select", "insert", "delete", "ddl"}
Calls == [op : {"select", "delete"}, where : Wheres]
         \cup [op : {"insert", "ddl"}, where : {None}]

\* A call of execute (one set) or executemany on a cursor.
Jobs == [cursor : Cursors, call : Calls, many : BOOLEAN, sets : SeqOf(Binds, MaxSets),
         at : {1}, total : {0}]

ASSUME StartAssumption == MaxId \in Nat /\ Start0 \in Seq(Rows) /\ Len(Start0) <= MaxId
ASSUME WorkloadAssumption == \A t \in Tasks : Workload(t) \subseteq Jobs

Present == {i \in Ids : table[i] # None}
Batched(j) == j.many /\ j.call.op = "insert"

-----------------------------------------------------------------------------
(* errors.py                                                               *)

\* What sqlglot, pymilvus and gRPC raise.  An RPC that failed with one of
\* Ambiguous may have been applied all the same.
SqlglotErrors == {"ParseError", "TokenError", "UnsupportedError"}
Ambiguous == {"MilvusUnavailable", "ConnectError", "UNAVAILABLE", "DEADLINE_EXCEEDED",
              "other milvus", "other grpc"}
RpcErrors == Ambiguous \cup {"ParamError", "not loaded", "COLLECTION_NOT_FOUND", "UNIMPLEMENTED"}

\* Fault: a deadline reads as a request Milvus cannot do.
TranslateDeadline(e) ==
  CASE e \in {"UnsupportedError", "UNIMPLEMENTED", "DEADLINE_EXCEEDED"} -> "NotSupportedError"
    [] OTHER -> "DatabaseError"

\* translate
Translate(e) ==
  CASE e \in {"ParseError", "TokenError"} -> "ProgrammingError"
    [] e \in {"ParamError", "not loaded", "COLLECTION_NOT_FOUND"} -> "ProgrammingError"
    [] e \in {"UnsupportedError", "UNIMPLEMENTED"} -> "NotSupportedError"
    [] e \in {"MilvusUnavailable", "ConnectError", "UNAVAILABLE", "DEADLINE_EXCEEDED"} ->
         "OperationalError"
    [] OTHER -> "DatabaseError"

\* Errors after which nothing of the failed statement has been applied.
Definite == {"InterfaceError", "ProgrammingError", "NotSupportedError"}
Errors == Definite \cup {"OperationalError", "DatabaseError"}

\* A WHERE is refused while the call is built, before anything is sent.
ASSUME RefusalAssumption ==
  \A w \in Wheres, p \in Binds : WhereRefusal(w, p) \in Definite \cup {""}

-----------------------------------------------------------------------------
(* ast_to_pymilvus.py: building the call, and its postprocess.             *)

\* A set of parameters INSERT or a WHERE cannot be built from.
RefusedSet(j, i) ==
  CASE j.call.op = "insert" -> IF j.sets[i] = Missing THEN "ProgrammingError" ELSE ""
    [] j.call.op = "ddl" -> ""
    [] OTHER -> WhereRefusal(j.call.where, j.sets[i])

\* build_call for the current set, build_batch_call for all of them: the
\* first error, "" if the call is built.
Build(j) ==
  IF ~Batched(j) THEN RefusedSet(j, j.at)
  ELSE LET bad == {i \in DOMAIN j.sets : RefusedSet(j, i) # ""} IN
       IF bad = {} THEN ""
       ELSE RefusedSet(j, CHOOSE i \in bad : \A k \in bad : i <= k)

\* The sets an RPC carries.
Carried(j) == IF Batched(j) THEN [i \in DOMAIN j.sets |-> i] ELSE <<j.at>>

\* The keys a statement selects, in key order.
Hits(j) == InKeyOrder({i \in Present : WhereSelects(j.call.where, table[i], j.sets[j.at])})

-----------------------------------------------------------------------------
(* cursor.py                                                               *)

NewCursor == [rows |-> <<>>, index |-> 0, rowcount |-> -1, lastrowid |-> None,
              described |-> FALSE, closed |-> FALSE]

\* Faults: the key of an earlier INSERT stays; only the last set is counted.
PublishKeepsKey(c, a) ==
  [c EXCEPT !.rows = a.rows, !.index = 0, !.rowcount = a.count, !.described = a.described]
CountLastSet(total, count) == IF count > 0 THEN count ELSE 0

\* The end of _run: all attributes at once.
Publish(c, a) ==
  [c EXCEPT !.rows = a.rows, !.index = 0, !.rowcount = a.count,
            !.lastrowid = a.key, !.described = a.described]

\* executemany's total: counts that are not known (-1) are left out.
AddCount(total, count) == IF count > 0 THEN total + count ELSE total

\* A call raises: the cursor is left as it is.
Raise(t, error) ==
  /\ outcome' = [outcome EXCEPT ![t] = error]
  /\ pc' = [pc EXCEPT ![t] = "idle"]
  /\ UNCHANGED got

\* It returns, and its caller reads rowcount and lastrowid of cursor c.
Return(t, c) ==
  /\ outcome' = [outcome EXCEPT ![t] = "ok"]
  /\ pc' = [pc EXCEPT ![t] = "idle"]
  /\ got' = [got EXCEPT ![t] = [count |-> c.rowcount, key |-> c.lastrowid]]

\* _check_open, build and send, or raise.  A closed client refuses to send.
Dispatch(t, j) ==
  CASE cur[j.cursor].closed -> Raise(t, "InterfaceError")
    [] ~cur[j.cursor].closed /\ Build(j) # "" -> Raise(t, Build(j))
    [] ~cur[j.cursor].closed /\ Build(j) = "" /\ ~open -> Raise(t, Translate("other milvus"))
    [] OTHER -> /\ pc' = [pc EXCEPT ![t] = "sent"]
                /\ outcome' = [outcome EXCEPT ![t] = ""]
                /\ UNCHANGED got

\* The first segment of execute and executemany.
Begin(t, j) ==
  /\ pc[t] = "idle"
  /\ calls < MaxCalls
  /\ calls' = calls + 1
  /\ job' = [job EXCEPT ![t] = j]
  /\ work' = [work EXCEPT ![t] = [sets |-> <<>>, changed |-> 0, counted |-> TRUE, key |-> None]]
  /\ IF j.sets = <<>> /\ ~cur[j.cursor].closed
     THEN LET c == [cur[j.cursor] EXCEPT !.rowcount = 0] IN
          cur' = [cur EXCEPT ![j.cursor] = c] /\ Return(t, c)
     ELSE /\ \/ Dispatch(t, j)
             \/ /\ ~cur[j.cursor].closed
                /\ \E e \in SqlglotErrors : Raise(t, Translate(e))
          /\ UNCHANGED cur
  /\ UNCHANGED <<table, keys, open, reply, given>>

Execute(t) == \E j \in Workload(t) : ~j.many /\ Len(j.sets) = 1 /\ Begin(t, j)
Executemany(t) == \E j \in Workload(t) : j.many /\ Begin(t, j)

Answer(rows, count, key, described) ==
  [rows |-> rows, count |-> count, key |-> key, described |-> described]

\* The server applies t's RPC: a is the answer it gives, n rows changed.
Apply(t, a, n) ==
  /\ pc[t] = "sent"
  /\ pc' = [pc EXCEPT ![t] = "answered"]
  /\ work' = [work EXCEPT ![t] =
       [sets |-> @.sets \o Carried(job[t]), changed |-> @.changed + n,
        counted |-> @.counted /\ a.count >= 0, key |-> a.key]]
  /\ reply' = [reply EXCEPT ![t] = a]
  /\ UNCHANGED <<calls, cur, open, job, outcome, got, given>>

Op(t, op) == pc[t] = "sent" /\ job[t].call.op = op

ServeSelect(t) ==
  /\ Op(t, "select")
  /\ LET hits == Hits(job[t]) IN Apply(t, Answer(hits, Len(hits), None, TRUE), 0)
  /\ UNCHANGED <<table, keys>>

\* delete answers with a count, with the list of keys, or with neither.
ServeDelete(t) ==
  /\ Op(t, "delete")
  /\ LET hits == Hits(job[t]) IN
     /\ table' = [i \in Ids |-> IF i \in ToSet(hits) THEN None ELSE table[i]]
     /\ \E count \in {Len(hits), -1} : Apply(t, Answer(<<>>, count, None, FALSE), Len(hits))
  /\ UNCHANGED keys

\* The server assigns the keys.
ServeInsert(t) ==
  /\ Op(t, "insert")
  /\ LET new == Carried(job[t]) IN
     /\ keys + Len(new) <= MaxId
     /\ keys' = keys + Len(new)
     /\ table' = [i \in Ids |-> IF i \in keys + 1..keys'
                                THEN [n |-> job[t].sets[new[i - keys]], b |-> Null]
                                ELSE table[i]]
     /\ Apply(t, Answer(<<>>, Len(new), keys', FALSE), Len(new))

ServeDdl(t) ==
  /\ Op(t, "ddl")
  /\ Apply(t, Answer(<<>>, -1, None, FALSE), 0)
  /\ UNCHANGED <<table, keys>>

\* The RPC fails before it is applied, or after that its answer is lost: the
\* error is translated and raised.
RpcFails(t) ==
  /\ \/ pc[t] = "sent" /\ \E e \in RpcErrors : Raise(t, Translate(e))
     \/ pc[t] = "answered" /\ \E e \in Ambiguous : Raise(t, Translate(e))
  /\ reply' = [reply EXCEPT ![t] = None]
  /\ UNCHANGED <<calls, table, keys, cur, open, job, work, given>>

\* An answer is published; executemany's loop goes on to its next set.
Succeed(t) ==
  LET j == job[t]
      looping == j.many /\ ~Batched(j)
      c == Publish(cur[j.cursor], reply[t])
      total == IF looping THEN AddCount(j.total, reply[t].count) ELSE 0
      last == looping => j.at = Len(j.sets)
      next == [j EXCEPT !.total = total, !.at = IF last THEN @ ELSE @ + 1]
      done == IF looping /\ last THEN [c EXCEPT !.rowcount = total] ELSE c
  IN /\ pc[t] = "answered"
     /\ cur' = [cur EXCEPT ![j.cursor] = done]
     /\ given' = [given EXCEPT ![j.cursor] = <<>>]
     /\ job' = [job EXCEPT ![t] = next]
     /\ IF last THEN Return(t, done) ELSE Dispatch(t, next)
     /\ reply' = [reply EXCEPT ![t] = None]
     /\ UNCHANGED <<calls, table, keys, open, work>>

\* Faults: the index moves by the size asked for; not at all.
TakeAsked(c, size) == c.index + size
TakeNothing(c, size) == c.index

\* The index after a slice of at most size rows.
TakeTo(c, size) == Min({c.index + size, Len(c.rows)})

\* fetchone (1), fetchmany (size) and fetchall (every row) of an open cursor.
Fetch(c, size) ==
  /\ ~cur[c].closed
  /\ cur[c].rows # <<>>
  /\ given' = [given EXCEPT ![c] =
       @ \o SubSeq(cur[c].rows, cur[c].index + 1, Min({cur[c].index + size, Len(cur[c].rows)}))]
  /\ cur' = [cur EXCEPT ![c].index = TakeTo(cur[c], size)]
  /\ UNCHANGED <<calls, table, keys, open, pc, job, reply, outcome, work, got>>

Close(c) ==
  /\ cur' = [cur EXCEPT ![c].closed = TRUE]
  /\ UNCHANGED <<calls, table, keys, open, pc, job, reply, outcome, work, got, given>>

-----------------------------------------------------------------------------
(* connection.py.  commit does nothing, and rollback raises.               *)

\* Connection.cursor, in the place of a cursor that is done with.
OpenCursor(c) ==
  /\ open
  /\ cur[c].closed
  /\ \A t \in Tasks : pc[t] # "idle" => job[t].cursor # c
  /\ cur' = [cur EXCEPT ![c] = NewCursor]
  /\ given' = [given EXCEPT ![c] = <<>>]
  /\ UNCHANGED <<calls, table, keys, open, pc, job, reply, outcome, work, got>>

\* Connection.close: what is under way may still be answered; its cursors do
\* not know.
CloseConnection ==
  /\ open
  /\ open' = FALSE
  /\ UNCHANGED <<calls, table, keys, cur, pc, job, reply, outcome, work, got, given>>

Init ==
  /\ table = [i \in Ids |-> IF i <= Len(Start0) THEN Start0[i] ELSE None]
  /\ keys = Len(Start0)
  /\ cur = [c \in Cursors |-> NewCursor]
  /\ open = TRUE
  /\ calls = 0
  /\ pc = [t \in Tasks |-> "idle"]
  /\ job = [t \in Tasks |-> None]
  /\ reply = [t \in Tasks |-> None]
  /\ outcome = [t \in Tasks |-> ""]
  /\ work = [t \in Tasks |-> [sets |-> <<>>, changed |-> 0, counted |-> TRUE, key |-> None]]
  /\ got = [t \in Tasks |-> [count |-> -1, key |-> None]]
  /\ given = [c \in Cursors |-> <<>>]

Next ==
  \/ \E t \in Tasks :
       \/ Execute(t) \/ Executemany(t)
       \/ ServeSelect(t) \/ ServeDelete(t) \/ ServeInsert(t) \/ ServeDdl(t)
       \/ RpcFails(t) \/ Succeed(t)
  \/ CloseConnection
  \/ \E c \in Cursors : Close(c) \/ OpenCursor(c) \/ \E size \in 1..MaxId : Fetch(c, size)

Spec == Init /\ [][Next]_vars

-----------------------------------------------------------------------------
TypeOK ==
  /\ table \in [Ids -> Rows \cup {None}]
  /\ keys \in 0..MaxId /\ open \in BOOLEAN
  /\ \A c \in Cursors :
       /\ cur[c].rows \in Seq(Ids)
       /\ cur[c].index \in 0..Len(cur[c].rows)
       /\ cur[c].rowcount \in -1..MaxId * MaxSets
       /\ cur[c].lastrowid \in Ids \cup {None}
       /\ given[c] \in Seq(Ids)
  /\ pc \in [Tasks -> {"idle", "sent", "answered"}]
  /\ outcome \in [Tasks -> Errors \cup {"", "ok"}]
  /\ \A t \in Tasks : job[t] # None =>
       job[t].at \in 1..MaxSets /\ job[t].total \in 0..MaxId * MaxSets

\* Whatever fetches are mixed, and whoever makes them, the rows of a result
\* are handed out in order, each once, and the ones not handed out are left.
EveryRowGivenOnce ==
  \A c \in Cursors :
    given[c] \o SubSeq(cur[c].rows, cur[c].index + 1, Len(cur[c].rows)) = cur[c].rows

\* The sets of a call that were applied are a prefix of those given.  A batched
\* INSERT is applied whole or not at all; a call that returned applied every
\* set, and one that raised ProgrammingError, NotSupportedError or
\* InterfaceError none past those that had returned.
SetsAppliedInOrder ==
  \A t \in Tasks : job[t] # None =>
    LET j == job[t]
        n == Len(work[t].sets)
    IN /\ work[t].sets = [i \in 1..n |-> i]
       /\ Batched(j) => n \in {0, Len(j.sets)}
       /\ outcome[t] = "ok" => n = Len(j.sets)
       /\ outcome[t] \in Definite => n = j.at - 1

\* rowcount of an INSERT or DELETE, or the total of an executemany of them, is
\* the number of rows it changed, and less only if the server left out a
\* count; other tasks' statements, on this cursor or another, do not count.
CountIsWork ==
  \A t \in Tasks : outcome[t] = "ok" /\ job[t].call.op \in {"insert", "delete"} =>
    IF work[t].counted THEN got[t].count = work[t].changed
    ELSE got[t].count <= work[t].changed

\* lastrowid is the last key this very INSERT was assigned, None after any
\* other statement; an executemany of no sets leaves it alone.
LastKeyIsOwn ==
  \A t \in Tasks : outcome[t] = "ok" /\ job[t].sets # <<>> => got[t].key = work[t].key

\* A SELECT or DELETE that is served reaches exactly the rows its WHERE is true
\* of; a WHERE that cannot be said in Milvus's language is refused.
WhereIsHonoured ==
  [][\A t \in Tasks : Op(t, "select") \/ Op(t, "delete") =>
       LET meant == {i \in Present : WhereMeans(job[t].call.where, table[i], job[t].sets[job[t].at])}
       IN /\ ServeSelect(t) => ToSet(reply'[t].rows) = meant
          /\ ServeDelete(t) => {i \in Present : table'[i] = None} = meant]_vars
=============================================================================
