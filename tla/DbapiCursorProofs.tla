--------------------------- MODULE DbapiCursorProofs ---------------------------
(***************************************************************************)
(* Proofs about DbapiCursor, for any tasks, cursors, workloads, WHERE      *)
(* trees and readings of them, and bounds.  The inductive invariant IInv   *)
(* has one part about each cursor (CursorOK) and one about each task       *)
(* (TaskOK): how far its call is, which sets the server has applied by     *)
(* then, and what the loop of executemany has added up so far.             *)
(***************************************************************************)
EXTENDS DbapiCursor, SequenceTheorems, FiniteSetTheorems, NatSetProofs, TLAPS

Keys == Ids \cup {None}
Counts == -1..MaxId

\* A call that has begun.
Begun == [cursor : Cursors, call : Calls, many : BOOLEAN, sets : Seq(Binds),
          at : 1..MaxSets, total : Nat]
Answers == [rows : Seq(Ids), count : Counts, key : Keys, described : BOOLEAN]
Works == [sets : Seq(Nat), changed : Nat, counted : BOOLEAN, key : Keys]

\* What the loop over sets has added up, or the one answer there is.
Looping(j) == j.many /\ ~Batched(j)
Sofar(t) ==
  IF Looping(job[t])
  THEN IF pc[t] = "answered" THEN AddCount(job[t].total, reply[t].count) ELSE job[t].total
  ELSE IF pc[t] = "answered" THEN reply[t].count ELSE 0

\* The sets the server has applied: up to the one under way, and that one if it
\* has been answered.
Applied(t) ==
  LET j == job[t]
      n == Len(work[t].sets)
  IN /\ work[t].sets = [i \in 1..n |-> i]
     /\ Batched(j) => n \in {0, Len(j.sets)}
     /\ pc[t] = "sent" => n = j.at - 1
     /\ pc[t] = "answered" => n = IF Batched(j) THEN Len(j.sets) ELSE j.at
     /\ pc[t] = "idle" /\ outcome[t] = "ok" => n = Len(j.sets)
     /\ outcome[t] \in Definite => n = j.at - 1

\* What the job itself says.
JobOK(j) ==
  /\ j \in Begun
  /\ Len(j.sets) <= MaxSets
  /\ Batched(j) => j.at = 1
  /\ ~j.many => Len(j.sets) = 1
  /\ j.total <= MaxId * MaxSets

Counted(t) ==
  LET exact == work[t].counted IN
  /\ pc[t] # "idle" /\ job[t].call.op \in {"insert", "delete"} =>
       Sofar(t) <= work[t].changed /\ (exact => Sofar(t) = work[t].changed)
  /\ outcome[t] = "ok" /\ job[t].call.op \in {"insert", "delete"} =>
       got[t].count <= work[t].changed /\ (exact => got[t].count = work[t].changed)

Keyed(t) ==
  /\ pc[t] = "answered" => reply[t].key = work[t].key
  /\ outcome[t] = "ok" /\ job[t].sets # <<>> => got[t].key = work[t].key

\* A task that has called nothing yet, or is at a point of its call.
TaskOK(t) ==
  \/ pc[t] = "idle" /\ outcome[t] = "" /\ job[t] = None
  \/ /\ JobOK(job[t])
     /\ pc[t] # "idle" => /\ outcome[t] = "" /\ job[t].at \in DOMAIN job[t].sets
                          /\ job[t].total <= MaxId * (job[t].at - 1)
     /\ pc[t] = "sent" => Build(job[t]) = ""
     /\ pc[t] = "answered" => reply[t] \in Answers
     /\ Applied(t) /\ Counted(t) /\ Keyed(t)

\* The rows still to be fetched follow those given.
CursorOK(c) ==
  /\ cur[c] \in [rows : Seq(Ids), index : Nat, rowcount : -1..MaxId * MaxSets,
                 lastrowid : Keys, described : BOOLEAN, closed : BOOLEAN]
  /\ cur[c].index <= Len(cur[c].rows)
  /\ given[c] \in Seq(Ids)
  /\ given[c] \o SubSeq(cur[c].rows, cur[c].index + 1, Len(cur[c].rows)) = cur[c].rows

Shapes ==
  /\ table \in [Ids -> Rows \cup {None}]
  /\ keys \in 0..MaxId /\ open \in BOOLEAN
  /\ DOMAIN cur = Cursors /\ DOMAIN given = Cursors
  /\ pc \in [Tasks -> {"idle", "sent", "answered"}]
  /\ outcome \in [Tasks -> Errors \cup {"", "ok"}]
  /\ work \in [Tasks -> Works]
  /\ DOMAIN job = Tasks /\ DOMAIN reply = Tasks /\ DOMAIN got = Tasks

IInv ==
  /\ Shapes
  /\ \A c \in Cursors : CursorOK(c)
  /\ \A t \in Tasks : TaskOK(t)

-----------------------------------------------------------------------------
(* Sorting, building, translating.                                         *)

LEMMA Bounds == MaxId \in Nat /\ MaxSets \in Nat /\ MaxSets > 0
  BY StartAssumption, SetsAssumption

\* The keys a SELECT or DELETE answers with or removes, and their number.
LEMMA HitsFacts ==
  ASSUME NEW j
  PROVE  Hits(j) \in Seq(Ids) /\ Len(Hits(j)) \in 0..MaxId
<1> DEFINE S == {i \in Present : WhereSelects(j.call.where, table[i], j.sets[j.at])}
<1>1. S \in SUBSET Ids /\ S \subseteq Nat
  BY Bounds DEF Present, Ids
<1>2. IsFiniteSet(Ids) /\ Cardinality(Ids) = MaxId
  BY Bounds, FS_Interval DEF Ids
<1>3. Hits(j) = InKeyOrder(S)
  BY DEF Hits
<1> HIDE DEF S
<1>4. IsFiniteSet(S) /\ Cardinality(S) <= MaxId /\ Cardinality(S) \in Nat
  BY <1>1, <1>2, FS_Subset, FS_CardinalityType
<1>5. InKeyOrder(S) \in Seq(S) /\ Len(InKeyOrder(S)) = Cardinality(S)
  BY <1>1, <1>4, InKeyOrderFacts
<1>6. \A s \in Seq(S) : s \in Seq(Ids)
  <2> SUFFICES ASSUME NEW s \in Seq(S) PROVE s \in Seq(Ids)
    OBVIOUS
  <2>1. s \in [1..Len(s) -> S] /\ Len(s) \in Nat
    BY LenProperties
  <2>2. s \in [1..Len(s) -> Ids]
    BY <1>1, <2>1
  <2> HIDE DEF Ids
  <2> QED BY <2>1, <2>2
<1> QED BY <1>3, <1>4, <1>5, <1>6, Bounds

\* What errors.translate makes of what a failed RPC and sqlglot raise.
LEMMA TranslateFacts ==
  /\ \A e \in SqlglotErrors \cup RpcErrors \cup {"other milvus"} : Translate(e) \in Errors
  /\ \A e \in Ambiguous \cup {"other milvus"} : Translate(e) \in Errors \ Definite
<1>1. \A e : Translate(e) \in Errors
  BY DEF Translate, Errors, Definite
<1>2. "OperationalError" \notin Definite /\ "DatabaseError" \notin Definite
  BY DEF Definite
<1>3. \A e \in Ambiguous \cup {"other milvus"} : Translate(e) \in {"OperationalError", "DatabaseError"}
  BY DEF Translate, Ambiguous
<1> QED BY <1>1, <1>2, <1>3

LEMMA ErrorFacts ==
  /\ Definite \subseteq Errors /\ "InterfaceError" \in Definite
  /\ "ok" \notin Errors /\ "" \notin Errors
BY DEF Errors, Definite

\* What a workload's calls are.
LEMMA JobBegins ==
  ASSUME NEW j \in Jobs, ~j.many => Len(j.sets) = 1
  PROVE  JobOK(j) /\ j.at = 1 /\ j.total = 0 /\ j.cursor \in Cursors
<1>1. /\ j.cursor \in Cursors /\ j.call \in Calls /\ j.many \in BOOLEAN
      /\ j.sets \in SeqOf(Binds, MaxSets) /\ j.at = 1 /\ j.total = 0
      /\ j = [cursor |-> j.cursor, call |-> j.call, many |-> j.many, sets |-> j.sets,
              at |-> j.at, total |-> j.total]
  BY DEF Jobs
<1>2. PICK m \in 0..MaxSets : j.sets \in [1..m -> Binds]
  BY <1>1 DEF SeqOf
<1>3. j.sets \in Seq(Binds) /\ Len(j.sets) = m /\ m <= MaxSets
  BY <1>2, Bounds
<1>4. 1 \in 1..MaxSets /\ 0 \in Nat /\ 0 <= MaxId * MaxSets
  BY Bounds
<1>5. j \in Begun
  BY <1>1, <1>3, <1>4 DEF Begun
<1> QED BY <1>1, <1>3, <1>4, <1>5 DEF JobOK

\* A call that has begun operates on WHEREs and bind values that it may.
LEMMA BegunFacts ==
  ASSUME NEW j, JobOK(j)
  PROVE  /\ j.cursor \in Cursors /\ j.many \in BOOLEAN /\ j.sets \in Seq(Binds)
         /\ j.at \in 1..MaxSets /\ j.total \in Nat /\ j.total <= MaxId * MaxSets
         /\ Len(j.sets) \in Nat /\ Len(j.sets) <= MaxSets /\ DOMAIN j.sets = 1..Len(j.sets)
         /\ \A i \in DOMAIN j.sets : j.sets[i] \in Binds
         /\ j.call.op \in Ops
         /\ j.call.op \in {"select", "delete"} => j.call.where \in Wheres
<1>1. j \in Begun /\ Len(j.sets) <= MaxSets /\ j.total <= MaxId * MaxSets
  BY DEF JobOK
<1>2. /\ j.cursor \in Cursors /\ j.call \in Calls /\ j.many \in BOOLEAN
      /\ j.sets \in Seq(Binds) /\ j.at \in 1..MaxSets /\ j.total \in Nat
  BY <1>1 DEF Begun
<1>3. j.call.op \in Ops /\ (j.call.op \in {"select", "delete"} => j.call.where \in Wheres)
  BY <1>2 DEF Calls, Ops
<1>4. /\ Len(j.sets) \in Nat /\ DOMAIN j.sets = 1..Len(j.sets)
      /\ \A i \in 1..Len(j.sets) : j.sets[i] \in Binds
  BY <1>2, LenProperties, ElementOfSeq
<1> QED BY <1>1, <1>2, <1>3, <1>4

\* The current set is refused with an error of a failed build, or not at all.
LEMMA RefusedSetFacts ==
  ASSUME NEW j, JobOK(j), NEW i \in DOMAIN j.sets
  PROVE  /\ RefusedSet(j, i) \in Definite \cup {""}
         /\ RefusedSet(j, i) = "" /\ j.call.op = "insert" => j.sets[i] \in Values \cup {Null}
<1>1. j.sets[i] \in Binds /\ j.call.op \in Ops
      /\ (j.call.op \in {"select", "delete"} => j.call.where \in Wheres)
  BY BegunFacts
<1>2. CASE j.call.op = "insert"
  BY <1>1, <1>2 DEF RefusedSet, Definite, Binds
<1>3. CASE j.call.op = "ddl"
  BY <1>3 DEF RefusedSet
<1>4. CASE j.call.op \in {"select", "delete"}
  <2>1. RefusedSet(j, i) = WhereRefusal(j.call.where, j.sets[i])
    BY <1>4 DEF RefusedSet
  <2> QED BY <1>1, <1>4, <2>1, RefusalAssumption
<1> QED BY <1>1, <1>2, <1>3, <1>4 DEF Ops

LEMMA BuildFacts ==
  ASSUME NEW j, JobOK(j), j.at \in DOMAIN j.sets
  PROVE  /\ Build(j) \in Definite \cup {""}
         /\ Build(j) = "" /\ j.call.op = "insert" =>
              \A i \in (IF Batched(j) THEN DOMAIN j.sets ELSE {j.at}) :
                j.sets[i] \in Values \cup {Null}
<1>1. CASE ~Batched(j)
  <2>1. Build(j) = RefusedSet(j, j.at)
    BY <1>1 DEF Build
  <2> QED BY <1>1, <2>1, RefusedSetFacts
<1>2. CASE Batched(j)
  <2> DEFINE bad == {i \in DOMAIN j.sets : RefusedSet(j, i) # ""}
  <2>1. Build(j) = IF bad = {} THEN "" ELSE RefusedSet(j, CHOOSE i \in bad : \A k \in bad : i <= k)
    BY <1>2 DEF Build
  <2>2. CASE bad = {}
    <3>1. \A i \in DOMAIN j.sets : RefusedSet(j, i) = ""
      BY <2>2
    <3>2. Build(j) = ""
      BY <2>1, <2>2
    <3> QED BY <1>2, <3>1, <3>2, RefusedSetFacts
  <2>3. CASE bad # {}
    <3>1. bad \subseteq Nat
      <4>1. DOMAIN j.sets = 1..Len(j.sets) /\ Len(j.sets) \in Nat
        BY BegunFacts
      <4>2. \A i \in DOMAIN j.sets : i \in Nat
        BY <4>1
      <4> QED BY <4>2
    <3>2. (CHOOSE i \in bad : \A k \in bad : i <= k) \in bad
      <4> HIDE DEF bad
      <4> QED BY <2>3, <3>1, LeastNatural
    <3>3. PICK i \in DOMAIN j.sets : Build(j) = RefusedSet(j, i) /\ RefusedSet(j, i) # ""
      BY <2>1, <2>3, <3>2
    <3> QED BY <3>3, RefusedSetFacts
  <2> QED BY <2>2, <2>3
<1> QED BY <1>1, <1>2

\* executemany's total stays within what its sets can have changed.
LEMMA TotalBound ==
  ASSUME NEW at \in 1..MaxSets, NEW total \in Nat, total <= MaxId * (at - 1), NEW count \in Counts
  PROVE  /\ AddCount(total, count) \in Nat
         /\ AddCount(total, count) <= MaxId * at
         /\ AddCount(total, count) \in -1..MaxId * MaxSets
         /\ count \in -1..MaxId * MaxSets
<1>1. MaxId \in Nat /\ MaxSets \in Nat /\ at \in Nat /\ at >= 1 /\ at <= MaxSets
  BY Bounds
<1>2. MaxId * at = MaxId * (at - 1) + MaxId
  BY <1>1
<1>3. MaxId * at \in Nat /\ MaxId * MaxSets \in Nat /\ MaxId * at <= MaxId * MaxSets
  <2>1. MaxId * MaxSets = MaxId * at + MaxId * (MaxSets - at)
    BY <1>1
  <2>2. MaxId * (MaxSets - at) \in Nat /\ MaxId * at \in Nat
    BY <1>1
  <2> QED BY <2>1, <2>2
<1>4. MaxId <= MaxId * MaxSets
  <2>1. MaxId * MaxSets = MaxId + MaxId * (MaxSets - 1)
    BY <1>1
  <2>2. MaxId * (MaxSets - 1) \in Nat
    BY <1>1
  <2> QED BY <1>1, <2>1, <2>2
<1>5. AddCount(total, count) \in Nat /\ AddCount(total, count) <= total + MaxId
  BY <1>1 DEF AddCount, Counts
<1>6. MaxId * (at - 1) \in Nat
  BY <1>1
<1> DEFINE most == MaxId * MaxSets
           upTo == MaxId * at
           before == MaxId * (at - 1)
<1> HIDE DEF most, upTo, before
<1>7. upTo = before + MaxId /\ upTo \in Nat /\ most \in Nat /\ upTo <= most /\ MaxId <= most
      /\ before \in Nat /\ total <= before
  BY <1>2, <1>3, <1>4, <1>6 DEF most, upTo, before
<1>8. /\ AddCount(total, count) <= upTo /\ AddCount(total, count) \in -1..most
      /\ count \in -1..most
  BY <1>1, <1>5, <1>7 DEF Counts
<1> QED BY <1>5, <1>8 DEF upTo, most

-----------------------------------------------------------------------------
(* Cursors.                                                                *)

\* A slice that begins where the last one ended leaves the rest of the rows.
LEMMA SliceOn ==
  ASSUME NEW rows \in Seq(Ids), NEW taken \in Seq(Ids), NEW i \in Nat, NEW m \in Nat,
         i <= m, m <= Len(rows),
         taken \o SubSeq(rows, i + 1, Len(rows)) = rows
  PROVE  /\ taken \o SubSeq(rows, i + 1, m) \in Seq(Ids)
         /\ (taken \o SubSeq(rows, i + 1, m)) \o SubSeq(rows, m + 1, Len(rows)) = rows
<1> DEFINE now == SubSeq(rows, i + 1, m)
           rest == SubSeq(rows, m + 1, Len(rows))
<1>1. Len(rows) \in Nat
  BY LenProperties
<1>2. now \in Seq(Ids) /\ rest \in Seq(Ids)
  <2>1. \A k \in 1..Len(rows) : rows[k] \in Ids
    BY ElementOfSeq
  <2>2. \A k \in i + 1..m : rows[k] \in Ids
    BY <1>1, <2>1
  <2>3. \A k \in m + 1..Len(rows) : rows[k] \in Ids
    BY <1>1, <2>1
  <2> QED BY <1>1, <2>2, <2>3, SubSeqProperties
<1>3. now \o rest = SubSeq(rows, i + 1, Len(rows))
  <2>1. i + 1 \in 1..Len(rows) + 1 /\ m \in (i + 1) - 1..Len(rows) /\ Len(rows) \in m..Len(rows)
    BY <1>1
  <2> QED BY <2>1, ConcatAdjacentSubSeq
<1> HIDE DEF now, rest
<1>4. taken \o now \in Seq(Ids)
  BY <1>2, ConcatProperties
<1>5. (taken \o now) \o rest = taken \o (now \o rest)
  <2>1. taken \in Seq(Ids)
    OBVIOUS
  <2> QED BY ONLY <1>2, <2>1, ConcatAssociative
<1> QED BY <1>3, <1>4, <1>5 DEF now, rest

\* What a cursor is: its attributes and the rows given from it, s and g.
ResultOK(s, g) ==
  /\ s \in [rows : Seq(Ids), index : Nat, rowcount : -1..MaxId * MaxSets,
            lastrowid : Keys, described : BOOLEAN, closed : BOOLEAN]
  /\ s.index <= Len(s.rows)
  /\ g \in Seq(Ids)
  /\ g \o SubSeq(s.rows, s.index + 1, Len(s.rows)) = s.rows

LEMMA CursorIs ==
  /\ \A c : CursorOK(c) <=> ResultOK(cur[c], given[c])
  /\ \A c : CursorOK(c)' <=> ResultOK(cur'[c], given'[c])
BY DEF CursorOK, ResultOK

\* A result of which nothing has been fetched.
LEMMA Fresh ==
  ASSUME NEW s, s \in [rows : Seq(Ids), index : {0}, rowcount : -1..MaxId * MaxSets,
                       lastrowid : Keys, described : BOOLEAN, closed : BOOLEAN]
  PROVE  ResultOK(s, <<>>)
<1>1. s.rows \in Seq(Ids) /\ s.index = 0
  OBVIOUS
<1>2. SubSeq(s.rows, 1, Len(s.rows)) = s.rows /\ Len(s.rows) \in Nat
  BY <1>1, SubSeqFull, LenProperties
<1>3. <<>> \o s.rows = s.rows /\ <<>> \in Seq(Ids)
  BY <1>1, ConcatEmptySeq, EmptySeq
<1>4. <<>> \o SubSeq(s.rows, s.index + 1, Len(s.rows)) = s.rows
  BY <1>1, <1>2, <1>3
<1>5. s \in [rows : Seq(Ids), index : Nat, rowcount : -1..MaxId * MaxSets,
             lastrowid : Keys, described : BOOLEAN, closed : BOOLEAN]
  OBVIOUS
<1> QED BY <1>1, <1>2, <1>3, <1>4, <1>5 DEF ResultOK

\* The end of a round of the loop, or of the call: j.at's answer is published.
LEMMA Publishes ==
  ASSUME NEW s, NEW g, ResultOK(s, g), NEW a \in Answers, NEW count \in -1..MaxId * MaxSets,
         a.count \in -1..MaxId * MaxSets
  PROVE  /\ ResultOK(Publish(s, a), <<>>)
         /\ ResultOK([Publish(s, a) EXCEPT !.rowcount = count], <<>>)
         /\ Publish(s, a).rowcount = a.count /\ Publish(s, a).lastrowid = a.key
         /\ [Publish(s, a) EXCEPT !.rowcount = count].rowcount = count
         /\ [Publish(s, a) EXCEPT !.rowcount = count].lastrowid = a.key
<1> DEFINE most == MaxId * MaxSets
<1> HIDE DEF most
<1>1. /\ s \in [rows : Seq(Ids), index : Nat, rowcount : -1..most,
                lastrowid : Keys, described : BOOLEAN, closed : BOOLEAN]
      /\ a \in [rows : Seq(Ids), count : Counts, key : Keys, described : BOOLEAN]
      /\ a.count \in -1..most /\ count \in -1..most
  BY DEF ResultOK, Answers, most
<1>2. /\ a.rows \in Seq(Ids) /\ a.count \in -1..most /\ a.key \in Keys /\ a.described \in BOOLEAN
      /\ 0 \in Nat
  BY <1>1
<1> DEFINE New == [rows : Seq(Ids), index : {0}, rowcount : -1..most,
                   lastrowid : Keys, described : BOOLEAN, closed : BOOLEAN]
           p == Publish(s, a)
           q == [p EXCEPT !.rowcount = count]
<1>3. /\ p \in New /\ p.rowcount = a.count /\ p.lastrowid = a.key
  BY <1>1, <1>2 DEF Publish
<1> HIDE DEF p
<1>4. q \in New /\ q.rowcount = count /\ q.lastrowid = a.key
  BY <1>1, <1>3
<1> HIDE DEF q
<1>5. ResultOK(p, <<>>) /\ ResultOK(q, <<>>)
  BY <1>3, <1>4, Fresh DEF most
<1> QED BY <1>3, <1>4, <1>5 DEF p, q

-----------------------------------------------------------------------------
(* Tasks.                                                                  *)

\* A task that a step does not touch stays as it is.
LEMMA Untouched ==
  ASSUME NEW e \in Tasks, TaskOK(e),
         pc'[e] = pc[e], job'[e] = job[e], reply'[e] = reply[e], outcome'[e] = outcome[e],
         work'[e] = work[e], got'[e] = got[e]
  PROVE  TaskOK(e)'
<1>1. Applied(e)' <=> Applied(e)
  BY DEF Applied
<1>2. Counted(e)' <=> Counted(e)
  BY DEF Counted, Sofar
<1>3. Keyed(e)' <=> Keyed(e)
  BY DEF Keyed
<1> QED BY <1>1, <1>2, <1>3 DEF TaskOK

\* A call that is not sent raises.
LEMMA Dispatched ==
  ASSUME NEW t \in Tasks, NEW j, JobOK(j), Dispatch(t, j),
         cur[j.cursor].closed \/ j.at \in DOMAIN j.sets
  PROVE  \/ \E e \in Definite \cup {Translate("other milvus")} : Raise(t, e)
         \/ /\ Build(j) = "" /\ j.at \in DOMAIN j.sets
            /\ pc' = [pc EXCEPT ![t] = "sent"]
            /\ outcome' = [outcome EXCEPT ![t] = ""]
            /\ UNCHANGED got
<1> DEFINE closed == cur[j.cursor].closed
<1>1. CASE closed
  <2>1. Raise(t, "InterfaceError")
    BY <1>1 DEF Dispatch
  <2> QED BY <2>1, ErrorFacts
<1>2. CASE ~closed /\ Build(j) # ""
  <2>1. Raise(t, Build(j))
    BY <1>2 DEF Dispatch
  <2>2. Build(j) \in Definite
    BY <1>2, BuildFacts
  <2> QED BY <2>1, <2>2
<1>3. CASE ~closed /\ Build(j) = "" /\ ~open
  <2>1. Raise(t, Translate("other milvus"))
    BY <1>3 DEF Dispatch
  <2> QED BY <2>1
<1>4. CASE ~closed /\ Build(j) = "" /\ open
  BY <1>4 DEF Dispatch
<1> QED BY <1>1, <1>2, <1>3, <1>4

\* What Raise and Return leave of a task.
LEMMA Raised ==
  ASSUME Shapes, NEW t \in Tasks, NEW e \in Errors, Raise(t, e)
  PROVE  /\ pc'[t] = "idle" /\ outcome'[t] = e /\ got' = got
         /\ pc' \in [Tasks -> {"idle", "sent", "answered"}]
         /\ outcome' \in [Tasks -> Errors \cup {"", "ok"}]
         /\ \A o \in Tasks : o # t => pc'[o] = pc[o] /\ outcome'[o] = outcome[o]
BY DEF Shapes, Raise

LEMMA Returned ==
  ASSUME Shapes, NEW t \in Tasks, NEW c, Return(t, c)
  PROVE  /\ pc'[t] = "idle" /\ outcome'[t] = "ok"
         /\ got'[t].count = c.rowcount /\ got'[t].key = c.lastrowid
         /\ pc' \in [Tasks -> {"idle", "sent", "answered"}]
         /\ outcome' \in [Tasks -> Errors \cup {"", "ok"}]
         /\ DOMAIN got' = Tasks
         /\ \A o \in Tasks : /\ o # t => pc'[o] = pc[o] /\ outcome'[o] = outcome[o]
                             /\ o # t => got'[o] = got[o]
BY DEF Shapes, Return

\* A call that is over with an error: the sets applied are what they were.
LEMMA RaisedOK ==
  ASSUME NEW t \in Tasks, NEW e \in Errors, pc'[t] = "idle", outcome'[t] = e, JobOK(job'[t]),
         LET n == Len(work'[t].sets) IN
           /\ work'[t].sets = [i \in 1..n |-> i]
           /\ Batched(job'[t]) => n \in {0, Len(job'[t].sets)}
           /\ e \in Definite => n = job'[t].at - 1
  PROVE  TaskOK(t)'
<1>1. e # "ok"
  BY ErrorFacts
<1>2. Applied(t)' /\ Counted(t)' /\ Keyed(t)'
  BY <1>1 DEF Applied, Counted, Keyed
<1> QED BY <1>2 DEF TaskOK

\* No set is applied yet.
LEMMA NoSets ==
  /\ Len(<<>>) = 0 /\ <<>> = [i \in 1..Len(<<>>) |-> i]
  /\ <<>> \in Seq(Nat)
<1>1. Len(<<>>) = 0 /\ <<>> \in Seq(Nat)
  BY EmptySeq
<1>2. [i \in 1..0 |-> i] = <<>>
  <2>1. [i \in 1..0 |-> i] \in [1..0 -> Nat]
    OBVIOUS
  <2>2. [i \in 1..0 |-> i] \in Seq(Nat) /\ Len([i \in 1..0 |-> i]) = 0
    BY <2>1
  <2> QED BY <1>1, <2>2, EmptySeq
<1> QED BY <1>1, <1>2

\* A set is indexed from one, so a call of none is one of no index.
LEMMA FirstSet ==
  ASSUME NEW j, JobOK(j), j.at = 1, j.sets # <<>>
  PROVE  j.at \in DOMAIN j.sets
<1>1. j.sets \in Seq(Binds) /\ Len(j.sets) \in Nat /\ DOMAIN j.sets = 1..Len(j.sets)
  BY BegunFacts
<1>2. Len(j.sets) # 0
  BY <1>1, EmptySeq
<1> QED BY <1>1, <1>2

LEMMA BeginStep ==
  ASSUME IInv, NEW t \in Tasks, NEW j \in Workload(t), ~j.many => Len(j.sets) = 1, Begin(t, j)
  PROVE  Shapes' /\ (\A c \in Cursors : CursorOK(c)') /\ (\A e \in Tasks : TaskOK(e)')
<1> DEFINE none == [sets |-> <<>>, changed |-> 0, counted |-> TRUE, key |-> None]
           empty == j.sets = <<>> /\ ~cur[j.cursor].closed
           c0 == [cur[j.cursor] EXCEPT !.rowcount = 0]
<1>1. /\ Shapes /\ (\A c \in Cursors : CursorOK(c)) /\ (\A e \in Tasks : TaskOK(e))
      /\ pc[t] = "idle"
      /\ job' = [job EXCEPT ![t] = j] /\ work' = [work EXCEPT ![t] = none]
      /\ UNCHANGED <<table, keys, open, reply, given>>
  BY DEF IInv, Begin
<1>2. JobOK(j) /\ j.at = 1 /\ j.total = 0 /\ j.cursor \in Cursors
  BY WorkloadAssumption, JobBegins
<1>3. /\ job'[t] = j /\ work'[t] = none /\ DOMAIN job' = Tasks
      /\ \A e \in Tasks : e # t => job'[e] = job[e] /\ work'[e] = work[e] /\ reply'[e] = reply[e]
  BY <1>1 DEF Shapes
<1>4. none \in Works /\ none.sets = <<>> /\ none.changed = 0 /\ none.counted = TRUE
      /\ Len(none.sets) = 0 /\ none.sets = [i \in 1..Len(none.sets) |-> i]
  BY NoSets DEF Works, Keys
<1>5. work' \in [Tasks -> Works]
  BY <1>1, <1>4 DEF Shapes
<1>6. Batched(j) => Len(none.sets) \in {0, Len(j.sets)}
  BY <1>4
<1> HIDE DEF none, empty
\* Nothing to do.
<1>7. CASE empty
  <2>1. cur' = [cur EXCEPT ![j.cursor] = c0] /\ Return(t, c0)
    BY <1>7 DEF Begin, empty
  <2>2. cur[j.cursor] \in [rows : Seq(Ids), index : Nat, rowcount : -1..MaxId * MaxSets,
                           lastrowid : Keys, described : BOOLEAN, closed : BOOLEAN]
    BY <1>1, <1>2 DEF CursorOK
  <2>3. 0 \in -1..MaxId * MaxSets
    BY Bounds
  <2>4. /\ c0 \in [rows : Seq(Ids), index : Nat, rowcount : -1..MaxId * MaxSets,
                   lastrowid : Keys, described : BOOLEAN, closed : BOOLEAN]
        /\ c0.rows = cur[j.cursor].rows /\ c0.index = cur[j.cursor].index /\ c0.rowcount = 0
    BY <2>2, <2>3
  <2> HIDE DEF c0
  <2>5. CursorOK(j.cursor)'
    <3>1. cur'[j.cursor] = c0 /\ given'[j.cursor] = given[j.cursor]
      BY <1>1, <1>2, <2>1 DEF Shapes
    <3> QED BY <1>1, <1>2, <2>4, <3>1 DEF CursorOK
  <2>6. \A c \in Cursors : c # j.cursor => CursorOK(c)'
    BY <1>1, <2>1 DEF Shapes, CursorOK
  <2>7. Shapes'
    BY <1>1, <1>3, <1>5, <2>1, Returned DEF Shapes
  <2>8. TaskOK(t)'
    <3>1. pc'[t] = "idle" /\ outcome'[t] = "ok" /\ got'[t].count = 0
      BY <1>1, <2>1, <2>4, Returned
    <3>2. Len(j.sets) = 0
      BY <1>7, NoSets DEF empty
    <3>3. "ok" \notin Definite
      BY ErrorFacts
    <3>4. Applied(t)'
      BY <1>3, <1>4, <3>1, <3>2, <3>3 DEF Applied
    <3>5. Counted(t)'
      BY <1>3, <1>4, <3>1 DEF Counted
    <3>6. Keyed(t)'
      BY <1>3, <1>7, <3>1 DEF Keyed, empty
    <3> QED BY <1>2, <1>3, <3>1, <3>4, <3>5, <3>6 DEF TaskOK
  <2>9. ASSUME NEW e \in Tasks, e # t PROVE TaskOK(e)'
    <3>1. pc'[e] = pc[e] /\ outcome'[e] = outcome[e] /\ got'[e] = got[e]
      BY <1>1, <2>1, <2>9, Returned
    <3> QED BY <1>1, <1>3, <2>9, <3>1, Untouched
  <2> QED BY <2>5, <2>6, <2>7, <2>8, <2>9
<1>8. CASE ~empty
  <2>1. /\ UNCHANGED cur
        /\ \/ Dispatch(t, j)
           \/ ~cur[j.cursor].closed /\ \E e \in SqlglotErrors : Raise(t, Translate(e))
    BY <1>8 DEF Begin, empty
  <2>2. \A c \in Cursors : CursorOK(c)'
    BY <1>1, <2>1 DEF CursorOK
  <2>3. ASSUME NEW e \in Errors, Raise(t, e)
        PROVE  Shapes' /\ (\A o \in Tasks : TaskOK(o)')
    <3>1. Shapes'
      BY <1>1, <1>3, <1>5, <2>1, <2>3, Raised DEF Shapes
    <3>2. TaskOK(t)'
      <4>1. pc'[t] = "idle" /\ outcome'[t] = e
        BY <1>1, <2>3, Raised
      <4>2. /\ work'[t].sets = [i \in 1..Len(work'[t].sets) |-> i]
            /\ Batched(job'[t]) => Len(work'[t].sets) \in {0, Len(job'[t].sets)}
            /\ Len(work'[t].sets) = job'[t].at - 1
        BY <1>2, <1>3, <1>4, <1>6
      <4>3. JobOK(job'[t])
        BY <1>2, <1>3
      <4> QED BY <4>1, <4>2, <4>3, RaisedOK
    <3>3. ASSUME NEW o \in Tasks, o # t PROVE TaskOK(o)'
      <4>1. pc'[o] = pc[o] /\ outcome'[o] = outcome[o] /\ got'[o] = got[o]
        BY <1>1, <2>3, <3>3, Raised
      <4> QED BY <1>1, <1>3, <3>3, <4>1, Untouched
    <3> QED BY <3>1, <3>2, <3>3
  <2>4. CASE ~cur[j.cursor].closed /\ \E e \in SqlglotErrors : Raise(t, Translate(e))
    BY <2>2, <2>3, <2>4, TranslateFacts
  <2>5. CASE Dispatch(t, j)
    <3>1. cur[j.cursor].closed \/ j.at \in DOMAIN j.sets
      BY <1>2, <1>8, FirstSet DEF empty
    <3>2. CASE \E e \in Definite \cup {Translate("other milvus")} : Raise(t, e)
      BY <2>2, <2>3, <3>2, TranslateFacts, ErrorFacts
    <3>3. CASE /\ Build(j) = "" /\ j.at \in DOMAIN j.sets
               /\ pc' = [pc EXCEPT ![t] = "sent"]
               /\ outcome' = [outcome EXCEPT ![t] = ""]
               /\ UNCHANGED got
      <4>1. Shapes'
        BY <1>1, <1>3, <1>5, <2>1, <3>3 DEF Shapes
      <4>2. pc'[t] = "sent" /\ outcome'[t] = ""
        BY <1>1, <3>3 DEF Shapes
      <4>3. "" \notin Definite
        BY ErrorFacts
      <4>4. Applied(t)'
        <5>1. /\ work'[t].sets = [i \in 1..Len(work'[t].sets) |-> i]
              /\ Batched(job'[t]) => Len(work'[t].sets) \in {0, Len(job'[t].sets)}
              /\ Len(work'[t].sets) = job'[t].at - 1
          BY <1>2, <1>3, <1>4, <1>6
        <5> QED BY <4>2, <4>3, <5>1 DEF Applied
      <4>5. Counted(t)' /\ Keyed(t)'
        <5>1. job'[t].total = 0 /\ work'[t].changed = 0
          BY <1>2, <1>3, <1>4
        <5>2. Sofar(t)' = 0
          BY <4>2, <5>1 DEF Sofar
        <5>3. Counted(t)'
          <6>1. 0 <= work'[t].changed /\ 0 = work'[t].changed
            BY <5>1
          <6> QED BY <4>2, <5>2, <6>1 DEF Counted
        <5>4. Keyed(t)'
          BY <4>2 DEF Keyed
        <5> QED BY <5>3, <5>4
      <4>6. 0 <= MaxId * (1 - 1)
        BY Bounds
      <4>7. TaskOK(t)'
        BY <1>2, <1>3, <3>3, <4>2, <4>4, <4>5, <4>6 DEF TaskOK
      <4>8. \A o \in Tasks : o # t => TaskOK(o)'
        BY <1>1, <1>3, <3>3, Untouched DEF Shapes
      <4> QED BY <2>2, <4>1, <4>7, <4>8
    <3> QED BY <1>2, <2>5, <3>1, <3>2, <3>3, Dispatched
  <2> QED BY <2>1, <2>4, <2>5
<1> QED BY <1>7, <1>8

-----------------------------------------------------------------------------
(* The server.                                                             *)

\* The sets a call carries are the next ones.
LEMMA CarriedOn ==
  ASSUME NEW j, JobOK(j), j.at \in DOMAIN j.sets, NEW s \in Seq(Nat),
         s = [i \in 1..Len(s) |-> i], Len(s) = j.at - 1
  PROVE  LET new == Carried(j)
             u == s \o new
         IN /\ new \in Seq(Nat) /\ u \in Seq(Nat)
            /\ u = [i \in 1..Len(u) |-> i]
            /\ Len(u) = IF Batched(j) THEN Len(j.sets) ELSE j.at
            /\ DOMAIN new = 1..Len(new) /\ Len(new) > 0 /\ Len(new) \in Nat
            /\ \A i \in DOMAIN new : new[i] \in (IF Batched(j) THEN DOMAIN j.sets ELSE {j.at})
<1> DEFINE new == Carried(j)
           u == s \o new
           n == Len(j.sets)
<1>1. /\ n \in Nat /\ DOMAIN j.sets = 1..n /\ j.at \in Nat /\ j.at >= 1 /\ j.at <= n
      /\ Batched(j) => j.at = 1
  BY BegunFacts DEF JobOK
<1>2. /\ new \in Seq(Nat) /\ DOMAIN new = 1..Len(new) /\ Len(new) \in Nat /\ Len(new) > 0
      /\ Len(new) = IF Batched(j) THEN n ELSE 1
      /\ \A i \in 1..Len(new) : new[i] = i + j.at - 1
      /\ \A i \in DOMAIN new : new[i] \in (IF Batched(j) THEN DOMAIN j.sets ELSE {j.at})
  <2>1. CASE Batched(j)
    <3>1. new = [i \in 1..n |-> i]
      BY <1>1, <2>1 DEF Carried
    <3>2. new \in [1..n -> Nat]
      BY <3>1
    <3>3. new \in Seq(Nat) /\ Len(new) = n /\ DOMAIN new = 1..n
      BY <1>1, <3>2
    <3> HIDE DEF new
    <3>4. \A i \in 1..n : new[i] = i /\ i + j.at - 1 = i
      BY <1>1, <2>1, <3>1
    <3>5. n > 0
      BY <1>1
    <3>6. \A i \in DOMAIN new : new[i] \in (IF Batched(j) THEN DOMAIN j.sets ELSE {j.at})
      BY <1>1, <2>1, <3>3, <3>4
    <3>7. \A i \in 1..Len(new) : new[i] = i + j.at - 1
      BY <3>3, <3>4
    <3> QED BY <1>1, <2>1, <3>3, <3>5, <3>6, <3>7
  <2>2. CASE ~Batched(j)
    <3>1. new = <<j.at>>
      BY <2>2 DEF Carried
    <3>2. new \in Seq(Nat) /\ Len(new) = 1 /\ DOMAIN new = 1..1 /\ new[1] = j.at
      BY <1>1, <3>1
    <3> HIDE DEF new
    <3>3. \A i \in 1..1 : i = 1 /\ new[i] = i + j.at - 1
      BY <1>1, <3>2
    <3> QED BY <1>1, <2>2, <3>2, <3>3
  <2> QED BY <2>1, <2>2
<1> HIDE DEF new
<1>3. /\ u \in Seq(Nat) /\ Len(u) = Len(s) + Len(new)
      /\ \A i \in 1..Len(s) + Len(new) : u[i] = IF i <= Len(s) THEN s[i] ELSE new[i - Len(s)]
  <2>1. new \in Seq(Nat)
    BY <1>2
  <2> QED BY ONLY s \in Seq(Nat), <2>1, ConcatProperties
<1> HIDE DEF u
<1>4. Len(s) \in Nat /\ \A i \in 1..Len(s) : s[i] = i
  BY LenProperties
<1>5. \A i \in 1..Len(u) : u[i] = i
  <2> SUFFICES ASSUME NEW i \in 1..Len(u) PROVE u[i] = i
    OBVIOUS
  <2>1. CASE i <= Len(s)
    BY <1>2, <1>3, <1>4, <2>1
  <2>2. CASE ~(i <= Len(s))
    <3>1. i - Len(s) \in 1..Len(new) /\ u[i] = new[i - Len(s)]
      BY <1>2, <1>3, <1>4, <2>2
    <3>2. new[i - Len(s)] = (i - Len(s)) + j.at - 1
      BY <1>2, <3>1
    <3>3. (i - Len(s)) + j.at - 1 = i
      BY <1>1, <1>4
    <3> QED BY <3>1, <3>2, <3>3
  <2> QED BY <2>1, <2>2
<1>6. Len(u) \in Nat /\ DOMAIN u = 1..Len(u)
  BY <1>3, LenProperties
<1>7. u = [i \in 1..Len(u) |-> i]
  <2>1. u \in [1..Len(u) -> Nat]
    BY <1>3, LenProperties
  <2> QED BY <1>5, <2>1
<1>8. Len(u) = IF Batched(j) THEN n ELSE j.at
  BY <1>1, <1>2, <1>3, <1>4
<1> QED BY <1>2, <1>3, <1>7, <1>8 DEF u, new

\* An answer a that says n, or nothing, of the n rows an INSERT or DELETE changed.
LEMMA Applies ==
  ASSUME IInv, NEW t \in Tasks, NEW a \in Answers, NEW n \in Nat, Apply(t, a, n),
         job[t].call.op \in {"insert", "delete"} => a.count <= n /\ (a.count >= 0 => a.count = n),
         table' \in [Ids -> Rows \cup {None}], keys' \in 0..MaxId
  PROVE  IInv'
<1> DEFINE j == job[t]
           w == work[t]
           v == [sets |-> w.sets \o Carried(j), changed |-> w.changed + n,
                 counted |-> w.counted /\ a.count >= 0, key |-> a.key]
<1>1. /\ Shapes /\ (\A c \in Cursors : CursorOK(c)) /\ (\A e \in Tasks : TaskOK(e))
      /\ pc[t] = "sent" /\ pc' = [pc EXCEPT ![t] = "answered"]
      /\ work' = [work EXCEPT ![t] = v]
      /\ reply' = [reply EXCEPT ![t] = a]
      /\ UNCHANGED <<calls, cur, open, job, outcome, got, given>>
  BY DEF IInv, Apply
<1>2. /\ JobOK(j) /\ outcome[t] = "" /\ j.at \in DOMAIN j.sets /\ Build(j) = ""
      /\ j.total <= MaxId * (j.at - 1)
      /\ Applied(t) /\ Counted(t)
  <2>1. TaskOK(t)
    BY <1>1
  <2> QED BY <1>1, <2>1 DEF TaskOK
<1>3. /\ w \in Works /\ w.sets \in Seq(Nat) /\ w.changed \in Nat /\ w.counted \in BOOLEAN
      /\ a.count \in Counts /\ a.key \in Keys
  <2>1. w \in Works
    BY <1>1 DEF Shapes
  <2> HIDE DEF w
  <2> QED BY <2>1 DEF Works, Answers
<1>4. w.sets = [i \in 1..Len(w.sets) |-> i] /\ Len(w.sets) = j.at - 1
  BY <1>1, <1>2 DEF Applied
<1>5. LET u == w.sets \o Carried(j) IN
      /\ u \in Seq(Nat) /\ u = [i \in 1..Len(u) |-> i]
      /\ Len(u) = IF Batched(j) THEN Len(j.sets) ELSE j.at
  <2> HIDE DEF j, w
  <2> QED BY <1>2, <1>3, <1>4, CarriedOn
<1>6. /\ v \in Works /\ v.sets = w.sets \o Carried(j) /\ v.changed = w.changed + n
      /\ v.counted = (w.counted /\ a.count >= 0) /\ v.key = a.key
  <2>1. w.sets \o Carried(j) \in Seq(Nat) /\ w.changed + n \in Nat
        /\ (w.counted /\ a.count >= 0) \in BOOLEAN
    BY <1>3, <1>5
  <2> HIDE DEF j, w
  <2> QED BY <1>3, <2>1 DEF Works
<1> HIDE DEF v
<1>7. Shapes'
  BY <1>1, <1>6 DEF Shapes
<1>8. \A c \in Cursors : CursorOK(c)'
  BY <1>1 DEF CursorOK
<1>9. /\ pc'[t] = "answered" /\ work'[t] = v /\ reply'[t] = a /\ job'[t] = j /\ outcome'[t] = ""
      /\ \A o \in Tasks : o # t => /\ pc'[o] = pc[o] /\ work'[o] = work[o] /\ reply'[o] = reply[o]
                                   /\ job'[o] = job[o] /\ outcome'[o] = outcome[o]
                                   /\ got'[o] = got[o]
  BY <1>1, <1>2 DEF Shapes
<1>10. Applied(t)'
  <2>1. /\ work'[t].sets = [i \in 1..Len(work'[t].sets) |-> i]
        /\ Len(work'[t].sets) = IF Batched(job'[t]) THEN Len(job'[t].sets) ELSE job'[t].at
    BY <1>5, <1>6, <1>9
  <2>2. "" \notin Definite
    BY ErrorFacts
  <2> QED BY <1>9, <2>1, <2>2 DEF Applied
<1>11. ASSUME j.call.op \in {"insert", "delete"}
       PROVE  /\ Sofar(t)' <= v.changed
              /\ v.counted => Sofar(t)' = v.changed
  <2>1. /\ a.count \in Int /\ a.count <= n /\ (a.count >= 0 => a.count = n)
        /\ w.changed \in Nat /\ v.changed = w.changed + n
    BY <1>3, <1>6, <1>11, Bounds DEF Counts
  <2>0. v.counted => w.counted /\ a.count >= 0
    BY <1>6
  <2>2. Sofar(t) <= w.changed /\ (w.counted => Sofar(t) = w.changed)
    BY <1>1, <1>2, <1>11 DEF Counted
  <2>3. CASE Looping(j)
    <3>1. Sofar(t) = j.total /\ Sofar(t)' = AddCount(j.total, a.count) /\ j.total \in Nat
      BY <1>1, <1>2, <1>9, <2>3, BegunFacts DEF Sofar
    <3>2. AddCount(j.total, a.count) = IF a.count > 0 THEN j.total + a.count ELSE j.total
      BY DEF AddCount
    <3> HIDE DEF j, w
    <3> QED BY <2>0, <2>1, <2>2, <3>1, <3>2
  <2>4. CASE ~Looping(j)
    <3>1. Sofar(t) = 0 /\ Sofar(t)' = a.count
      BY <1>1, <1>9, <2>4 DEF Sofar
    <3> HIDE DEF j, w
    <3> QED BY <2>0, <2>1, <2>2, <3>1
  <2> QED BY <2>3, <2>4
<1>12. Counted(t)'
  BY <1>9, <1>11 DEF Counted
<1>13. Keyed(t)'
  BY <1>6, <1>9 DEF Keyed
<1>14. TaskOK(t)'
  BY <1>2, <1>9, <1>10, <1>12, <1>13 DEF TaskOK
<1>15. ASSUME NEW o \in Tasks, o # t PROVE TaskOK(o)'
  BY <1>1, <1>9, <1>15, Untouched
<1> QED BY <1>7, <1>8, <1>14, <1>15 DEF IInv

\* What the server is sent.
LEMMA Sent ==
  ASSUME IInv, NEW t \in Tasks, pc[t] = "sent"
  PROVE  LET j == job[t]
             new == Carried(j)
         IN /\ JobOK(j) /\ new \in Seq(Nat) /\ Len(new) \in Nat /\ Len(new) > 0
            /\ DOMAIN new = 1..Len(new)
            /\ j.call.op = "insert" =>
                 \A i \in 1..Len(new) : j.sets[new[i]] \in Values \cup {Null}
<1> DEFINE j == job[t]
           s == work[t].sets
           new == Carried(j)
<1>1. TaskOK(t) /\ work[t] \in Works
  BY DEF IInv, Shapes
<1>2. JobOK(j) /\ j.at \in DOMAIN j.sets /\ Build(j) = "" /\ Applied(t)
  BY <1>1 DEF TaskOK
<1>3. s \in Seq(Nat) /\ s = [i \in 1..Len(s) |-> i] /\ Len(s) = j.at - 1
  BY <1>1, <1>2 DEF Applied, Works
<1> HIDE DEF s, j
<1>4. /\ new \in Seq(Nat) /\ Len(new) \in Nat /\ Len(new) > 0 /\ DOMAIN new = 1..Len(new)
      /\ \A i \in DOMAIN new : new[i] \in (IF Batched(j) THEN DOMAIN j.sets ELSE {j.at})
  BY <1>2, <1>3, CarriedOn
<1>5. j.call.op = "insert" =>
        \A i \in (IF Batched(j) THEN DOMAIN j.sets ELSE {j.at}) : j.sets[i] \in Values \cup {Null}
  BY <1>2, BuildFacts
<1>6. j.call.op = "insert" => \A i \in 1..Len(new) : j.sets[new[i]] \in Values \cup {Null}
  <2> HIDE DEF new
  <2> QED BY <1>4, <1>5
<1> QED BY <1>2, <1>4, <1>6 DEF j

LEMMA ServeStep ==
  ASSUME IInv, NEW t \in Tasks,
         ServeSelect(t) \/ ServeDelete(t) \/ ServeInsert(t) \/ ServeDdl(t)
  PROVE  IInv'
<1> DEFINE j == job[t]
           hits == Hits(j)
           new == Carried(j)
<1>1. /\ table \in [Ids -> Rows \cup {None}] /\ keys \in 0..MaxId /\ MaxId \in Nat
  BY Bounds DEF IInv, Shapes
<1>2. \A rows \in Seq(Ids), count \in Counts, key \in Keys, described \in BOOLEAN :
        /\ Answer(rows, count, key, described) \in Answers
        /\ Answer(rows, count, key, described).count = count
  BY DEF Answer, Answers
<1>3. <<>> \in Seq(Ids) /\ None \in Keys /\ -1 \in Counts
  BY <1>1, EmptySeq DEF Keys, Counts
<1>4. hits \in Seq(Ids) /\ Len(hits) \in 0..MaxId /\ Len(hits) \in Nat /\ Len(hits) \in Counts
  <2>1. hits \in Seq(Ids) /\ Len(hits) \in 0..MaxId
    BY HitsFacts
  <2> HIDE DEF hits
  <2> QED BY <1>1, <2>1 DEF Counts
<1> HIDE DEF hits
<1>5. CASE ServeSelect(t)
  <2>1. /\ j.call.op = "select" /\ UNCHANGED <<table, keys>>
        /\ Apply(t, Answer(hits, Len(hits), None, TRUE), 0)
    BY <1>5 DEF ServeSelect, Op, hits
  <2>2. Answer(hits, Len(hits), None, TRUE) \in Answers
    BY <1>2, <1>3, <1>4
  <2> QED BY <1>1, <2>1, <2>2, Applies
<1>6. CASE ServeDelete(t)
  <2>1. PICK count \in {Len(hits), -1} : Apply(t, Answer(<<>>, count, None, FALSE), Len(hits))
    BY <1>6 DEF ServeDelete, hits
  <2>2. /\ table' = [i \in Ids |-> IF i \in ToSet(hits) THEN None ELSE table[i]]
        /\ keys' = keys
    BY <1>6 DEF ServeDelete, hits
  <2>3. table' \in [Ids -> Rows \cup {None}] /\ keys' \in 0..MaxId
    BY <1>1, <2>2
  <2>4. /\ Answer(<<>>, count, None, FALSE) \in Answers
        /\ Answer(<<>>, count, None, FALSE).count = count
    BY <1>2, <1>3, <1>4
  <2>5. count <= Len(hits) /\ (count >= 0 => count = Len(hits))
    BY <1>4
  <2> QED BY <1>4, <2>1, <2>3, <2>4, <2>5, Applies
<1>7. CASE ServeInsert(t)
  <2>1. /\ j.call.op = "insert" /\ pc[t] = "sent"
        /\ keys + Len(new) <= MaxId /\ keys' = keys + Len(new)
        /\ table' = [i \in Ids |-> IF i \in keys + 1..keys'
                                   THEN [n |-> j.sets[new[i - keys]], b |-> Null]
                                   ELSE table[i]]
        /\ Apply(t, Answer(<<>>, Len(new), keys', FALSE), Len(new))
    BY <1>7 DEF ServeInsert, Op
  <2>2. /\ Len(new) \in Nat /\ Len(new) > 0
        /\ \A i \in 1..Len(new) : j.sets[new[i]] \in Values \cup {Null}
    BY <2>1, Sent
  <2> HIDE DEF new, j
  <2>3. keys' \in 0..MaxId /\ keys' \in Keys /\ Len(new) \in Counts
    BY <1>1, <2>1, <2>2 DEF Keys, Ids, Counts
  <2>4. \A i \in keys + 1..keys' : i - keys \in 1..Len(new)
    BY <1>1, <2>1, <2>2
  <2>5. \A i \in keys + 1..keys' : j.sets[new[i - keys]] \in Values \cup {Null}
    BY <2>2, <2>4
  <2>6. \A x \in Values \cup {Null} : [n |-> x, b |-> Null] \in Rows
    BY DEF Rows
  <2>7. table' \in [Ids -> Rows \cup {None}]
    BY <1>1, <2>1, <2>5, <2>6
  <2>8. /\ Answer(<<>>, Len(new), keys', FALSE) \in Answers
        /\ Answer(<<>>, Len(new), keys', FALSE).count = Len(new)
    BY <1>2, <1>3, <2>3
  <2>9. Len(new) <= Len(new)
    BY <2>2
  <2> DEFINE a == Answer(<<>>, Len(new), keys', FALSE)
  <2>10. /\ a \in Answers /\ a.count <= Len(new) /\ (a.count >= 0 => a.count = Len(new))
         /\ Apply(t, a, Len(new))
    BY <2>1, <2>8, <2>9
  <2> HIDE DEF a
  <2> QED BY <2>2, <2>3, <2>7, <2>10, Applies
<1>8. CASE ServeDdl(t)
  <2>1. /\ j.call.op = "ddl" /\ UNCHANGED <<table, keys>>
        /\ Apply(t, Answer(<<>>, -1, None, FALSE), 0)
    BY <1>8 DEF ServeDdl, Op
  <2>2. Answer(<<>>, -1, None, FALSE) \in Answers
    BY <1>2, <1>3
  <2> QED BY <1>1, <2>1, <2>2, Applies
<1> QED BY <1>5, <1>6, <1>7, <1>8

-----------------------------------------------------------------------------
(* Failures, and the next set.                                             *)

LEMMA FailStep ==
  ASSUME IInv, NEW t \in Tasks, RpcFails(t)
  PROVE  IInv'
<1>1. /\ Shapes /\ (\A c \in Cursors : CursorOK(c)) /\ (\A e \in Tasks : TaskOK(e))
      /\ reply' = [reply EXCEPT ![t] = None]
      /\ UNCHANGED <<calls, table, keys, cur, open, job, work, given>>
  BY DEF IInv, RpcFails
<1>2. PICK e \in Errors : Raise(t, e) /\ (pc[t] = "sent" \/ (pc[t] = "answered" /\ e \notin Definite))
  BY TranslateFacts DEF RpcFails, RpcErrors
<1>3. Shapes'
  BY <1>1, <1>2, Raised DEF Shapes
<1>4. \A c \in Cursors : CursorOK(c)'
  BY <1>1 DEF CursorOK
<1>5. TaskOK(t)'
  <2>1. TaskOK(t) /\ pc'[t] = "idle" /\ outcome'[t] = e /\ job'[t] = job[t] /\ work'[t] = work[t]
    BY <1>1, <1>2, Raised
  <2>2. JobOK(job[t]) /\ Applied(t)
    BY <1>2, <2>1 DEF TaskOK
  <2>3. /\ work'[t].sets = [i \in 1..Len(work'[t].sets) |-> i]
        /\ Batched(job'[t]) => Len(work'[t].sets) \in {0, Len(job'[t].sets)}
        /\ e \in Definite => Len(work'[t].sets) = job'[t].at - 1
    BY <1>2, <2>1, <2>2 DEF Applied
  <2> QED BY <2>1, <2>2, <2>3, RaisedOK
<1>6. ASSUME NEW o \in Tasks, o # t PROVE TaskOK(o)'
  <2>1. /\ pc'[o] = pc[o] /\ outcome'[o] = outcome[o] /\ got'[o] = got[o]
        /\ reply'[o] = reply[o] /\ job'[o] = job[o] /\ work'[o] = work[o]
    BY <1>1, <1>2, <1>6, Raised DEF Shapes
  <2> QED BY <1>1, <2>1, Untouched
<1> QED BY <1>3, <1>4, <1>5, <1>6 DEF IInv

\* The loop's next round: its total, and the set after this one.
LEMMA NextRound ==
  ASSUME NEW j, JobOK(j), j.at \in DOMAIN j.sets,
         NEW next \in Begun, next.total <= MaxId * MaxSets,
         next.call = j.call, next.many = j.many, next.sets = j.sets,
         next.at = j.at \/ (next.at = j.at + 1 /\ Looping(j) /\ j.at # Len(j.sets))
  PROVE  /\ JobOK(next)
         /\ (Batched(next) <=> Batched(j)) /\ (Looping(next) <=> Looping(j))
         /\ next.at \in DOMAIN next.sets
<1>1. /\ j \in Begun /\ DOMAIN j.sets = 1..Len(j.sets) /\ Len(j.sets) \in Nat
      /\ Len(j.sets) <= MaxSets /\ j.at \in 1..Len(j.sets)
  BY BegunFacts DEF JobOK
<1>2. next.at \in 1..Len(j.sets)
  BY <1>1
<1>3. (Batched(next) <=> Batched(j)) /\ (Looping(next) <=> Looping(j))
  BY DEF Batched, Looping
<1>4. Batched(next) => next.at = 1
  BY <1>3 DEF JobOK, Looping
<1>5. JobOK(next)
  BY <1>1, <1>4 DEF JobOK
<1> QED BY <1>1, <1>2, <1>3, <1>5

LEMMA SucceedStep ==
  ASSUME IInv, NEW t \in Tasks, Succeed(t)
  PROVE  IInv'
<1> DEFINE j == job[t]
           a == reply[t]
           looping == j.many /\ ~Batched(j)
           c == Publish(cur[j.cursor], a)
           total == IF looping THEN AddCount(j.total, a.count) ELSE 0
           last == looping => j.at = Len(j.sets)
           next == [j EXCEPT !.total = total, !.at = IF last THEN @ ELSE @ + 1]
           done == IF looping /\ last THEN [c EXCEPT !.rowcount = total] ELSE c
<1>1. /\ pc[t] = "answered"
      /\ cur' = [cur EXCEPT ![j.cursor] = done]
      /\ given' = [given EXCEPT ![j.cursor] = <<>>]
      /\ job' = [job EXCEPT ![t] = next]
      /\ IF last THEN Return(t, done) ELSE Dispatch(t, next)
      /\ reply' = [reply EXCEPT ![t] = None]
      /\ UNCHANGED <<calls, table, keys, open, work>>
  BY DEF Succeed
<1>2. /\ Shapes /\ (\A o \in Cursors : CursorOK(o)) /\ (\A e \in Tasks : TaskOK(e))
  BY DEF IInv
<1>3. /\ JobOK(j) /\ j.at \in DOMAIN j.sets /\ j.total <= MaxId * (j.at - 1)
      /\ a \in Answers /\ Applied(t) /\ Counted(t) /\ Keyed(t)
  <2>1. TaskOK(t)
    BY <1>2
  <2> QED BY <1>1, <2>1 DEF TaskOK
<1>4. /\ j.cursor \in Cursors /\ j.at \in 1..MaxSets /\ j.total \in Nat /\ a.count \in Counts
      /\ a.count \in Int /\ j.many \in BOOLEAN /\ Len(j.sets) \in Nat /\ j.at \in 1..Len(j.sets)
      /\ ~j.many => Len(j.sets) = 1
  <2>1. a.count \in Counts
    BY <1>3 DEF Answers
  <2> QED BY <1>3, <2>1, BegunFacts, Bounds DEF Counts, JobOK
<1>5. /\ total \in Nat /\ total <= MaxId * MaxSets /\ total <= MaxId * j.at
      /\ total \in -1..MaxId * MaxSets /\ a.count \in -1..MaxId * MaxSets
  <2>1. /\ AddCount(j.total, a.count) \in Nat
        /\ AddCount(j.total, a.count) <= MaxId * j.at
        /\ AddCount(j.total, a.count) \in -1..MaxId * MaxSets
        /\ a.count \in -1..MaxId * MaxSets
    BY <1>3, <1>4, TotalBound
  <2>2. 0 <= MaxId * j.at /\ 0 \in -1..MaxId * MaxSets
    BY <1>4, Bounds
  <2> QED BY <2>1, <2>2
<1>6. (last \in BOOLEAN) /\ (~last => Looping(j) /\ j.at # Len(j.sets))
  BY DEF Looping
<1>7. /\ JobOK(next) /\ next.total = total /\ next.at = IF last THEN j.at ELSE j.at + 1
      /\ next.call = j.call /\ next.many = j.many /\ next.sets = j.sets
      /\ (Batched(next) <=> Batched(j)) /\ (Looping(next) <=> Looping(j))
      /\ next.at \in DOMAIN next.sets
  <2> DEFINE at == IF last THEN j.at ELSE j.at + 1
  <2>1. at = j.at \/ (at = j.at + 1 /\ Looping(j) /\ j.at # Len(j.sets))
    BY <1>6
  <2>2. next = [j EXCEPT !.total = total, !.at = at]
    OBVIOUS
  <2>3. j \in Begun /\ at \in 1..MaxSets
    <3>1. j \in Begun /\ Len(j.sets) <= MaxSets
      BY <1>3 DEF JobOK
    <3> HIDE DEF j, at
    <3> QED BY <1>4, <2>1, <3>1, Bounds
  <2> HIDE DEF total, last, j, at, next
  <2>4. /\ next \in Begun /\ next.total = total /\ next.at = at
        /\ next.cursor = j.cursor /\ next.call = j.call /\ next.many = j.many /\ next.sets = j.sets
    BY <1>5, <2>2, <2>3 DEF Begun
  <2>5. /\ JobOK(next) /\ next.at \in DOMAIN next.sets
        /\ (Batched(next) <=> Batched(j)) /\ (Looping(next) <=> Looping(j))
    BY <1>3, <1>5, <2>1, <2>4, NextRound
  <2> QED BY <2>4, <2>5 DEF at
<1>8. /\ ResultOK(done, <<>>) /\ done.lastrowid = a.key
      /\ done.rowcount = IF looping /\ last THEN total ELSE a.count
  <2>1. ResultOK(cur[j.cursor], given[j.cursor])
    BY <1>2, <1>4, CursorIs
  <2>2. /\ ResultOK(c, <<>>) /\ ResultOK([c EXCEPT !.rowcount = total], <<>>)
        /\ c.rowcount = a.count /\ c.lastrowid = a.key
        /\ [c EXCEPT !.rowcount = total].rowcount = total
        /\ [c EXCEPT !.rowcount = total].lastrowid = a.key
    <3> HIDE DEF total, a, j
    <3> QED BY <1>3, <1>5, <2>1, Publishes
  <2> HIDE DEF c, total
  <2> QED BY <2>2
<1> HIDE DEF done, next, c, a
<1>9. \A o \in Cursors : CursorOK(o)'
  <2>1. PICK k \in Cursors : k = j.cursor
    BY <1>4
  <2>2. cur'[k] = done /\ given'[k] = <<>>
    BY <1>1, <1>2, <2>1 DEF Shapes
  <2>3. CursorOK(k)'
    BY <1>8, <2>2, CursorIs
  <2>4. \A o \in Cursors : o # k => CursorOK(o)'
    BY <1>1, <1>2, <2>1 DEF Shapes, CursorOK
  <2> QED BY <2>3, <2>4
<1>10. /\ job'[t] = next /\ work'[t] = work[t] /\ work' \in [Tasks -> Works]
       /\ \A o \in Tasks : o # t => job'[o] = job[o] /\ work'[o] = work[o] /\ reply'[o] = reply[o]
  BY <1>1, <1>2 DEF Shapes
<1> DEFINE n == Len(work[t].sets)
<1>11. /\ work[t].sets = [i \in 1..n |-> i]
       /\ n = IF Batched(j) THEN Len(j.sets) ELSE j.at
       /\ Batched(j) => n \in {0, Len(j.sets)}
  BY <1>1, <1>3 DEF Applied
<1>12. j.call.op \in {"insert", "delete"} =>
         LET sofar == IF looping THEN total ELSE a.count IN
         sofar <= work[t].changed /\ (work[t].counted => sofar = work[t].changed)
  <2>1. Sofar(t) = IF looping THEN total ELSE a.count
    BY <1>1 DEF Sofar, Looping, a
  <2> QED BY <1>1, <1>3, <2>1 DEF Counted
<1>13. a.key = work[t].key
  BY <1>1, <1>3 DEF Keyed, a
<1> HIDE DEF n, total
\* The call returns.
<1>14. CASE last
  <2>1. Return(t, done)
    BY <1>1, <1>14
  <2>2. /\ pc'[t] = "idle" /\ outcome'[t] = "ok"
        /\ got'[t].count = done.rowcount /\ got'[t].key = done.lastrowid
        /\ DOMAIN got' = Tasks
    BY <1>2, <2>1, Returned
  <2>3. Shapes'
    BY <1>1, <1>2, <1>10, <2>1, Returned DEF Shapes
  <2>4. Applied(t)'
    <3>1. n = Len(j.sets)
      <4>1. CASE looping
        BY <1>11, <1>14, <4>1
      <4>2. CASE Batched(j)
        BY <1>11, <4>2
      <4>3. CASE ~j.many
        <5>1. Len(j.sets) = 1
          BY <1>4, <4>3
        <5>2. j.at = 1
          BY ONLY <1>4, <5>1
        <5> QED BY <1>11, <5>1, <5>2
      <4> QED BY <1>4, <4>1, <4>2, <4>3
    <3>2. "ok" \notin Definite
      BY ErrorFacts
    <3> QED BY <1>7, <1>10, <1>11, <2>2, <3>1, <3>2 DEF Applied, n
  <2>5. Counted(t)'
    <3>1. got'[t].count = IF looping THEN total ELSE a.count
      BY <1>8, <1>14, <2>2
    <3> QED BY <1>7, <1>10, <1>12, <2>2, <3>1 DEF Counted
  <2>6. Keyed(t)'
    BY <1>8, <1>10, <1>13, <2>2 DEF Keyed
  <2>7. TaskOK(t)'
    BY <1>7, <1>10, <2>2, <2>4, <2>5, <2>6 DEF TaskOK
  <2>8. ASSUME NEW o \in Tasks, o # t PROVE TaskOK(o)'
    <3>1. pc'[o] = pc[o] /\ outcome'[o] = outcome[o] /\ got'[o] = got[o]
      BY <1>2, <2>1, <2>8, Returned
    <3> QED BY <1>2, <1>10, <2>8, <3>1, Untouched
  <2> QED BY <1>9, <2>3, <2>7, <2>8 DEF IInv
\* The loop goes on.
<1>15. CASE ~last
  <2>1. Dispatch(t, next) /\ ~Batched(next) /\ next.at = j.at + 1 /\ n = next.at - 1
    BY <1>1, <1>4, <1>6, <1>7, <1>11, <1>15 DEF Looping
  <2>2. CASE \E e \in Definite \cup {Translate("other milvus")} : Raise(t, e)
    <3>1. PICK e \in Errors : Raise(t, e)
      BY <2>2, TranslateFacts, ErrorFacts
    <3>2. Shapes'
      BY <1>1, <1>2, <1>10, <3>1, Raised DEF Shapes
    <3>3. TaskOK(t)'
      <4>1. pc'[t] = "idle" /\ outcome'[t] = e
        BY <1>2, <3>1, Raised
      <4>2. /\ work'[t].sets = [i \in 1..Len(work'[t].sets) |-> i]
            /\ ~Batched(job'[t]) /\ Len(work'[t].sets) = job'[t].at - 1 /\ JobOK(job'[t])
        BY <1>7, <1>10, <1>11, <2>1 DEF n
      <4> QED BY <4>1, <4>2, RaisedOK
    <3>4. ASSUME NEW o \in Tasks, o # t PROVE TaskOK(o)'
      <4>1. pc'[o] = pc[o] /\ outcome'[o] = outcome[o] /\ got'[o] = got[o]
        BY <1>2, <3>1, <3>4, Raised
      <4> QED BY <1>2, <1>10, <3>4, <4>1, Untouched
    <3> QED BY <1>9, <3>2, <3>3, <3>4 DEF IInv
  <2>3. CASE /\ Build(next) = "" /\ next.at \in DOMAIN next.sets
             /\ pc' = [pc EXCEPT ![t] = "sent"]
             /\ outcome' = [outcome EXCEPT ![t] = ""]
             /\ UNCHANGED got
    <3>1. Shapes'
      BY <1>1, <1>2, <1>10, <2>3 DEF Shapes
    <3>2. pc'[t] = "sent" /\ outcome'[t] = ""
      BY <1>2, <2>3 DEF Shapes
    <3>3. "" \notin Definite
      BY ErrorFacts
    <3>4. Applied(t)'
      <4>1. /\ work'[t].sets = [i \in 1..Len(work'[t].sets) |-> i]
            /\ ~Batched(job'[t]) /\ Len(work'[t].sets) = job'[t].at - 1
        BY <1>7, <1>10, <1>11, <2>1 DEF n
      <4> QED BY <3>2, <3>3, <4>1 DEF Applied
    <3>5. Counted(t)'
      <4>1. Sofar(t)' = total
        BY <1>6, <1>7, <1>10, <1>15, <3>2 DEF Sofar
      <4>2. looping /\ job'[t].call = j.call
        BY <1>6, <1>7, <1>10, <1>15 DEF Looping
      <4> QED BY <1>10, <1>12, <3>2, <4>1, <4>2 DEF Counted
    <3>6. Keyed(t)'
      BY <3>2 DEF Keyed
    <3>7. job'[t].total <= MaxId * (job'[t].at - 1)
      <4>1. (j.at + 1) - 1 = j.at
        BY <1>4
      <4> QED BY <1>5, <1>7, <1>10, <2>1, <4>1
    <3>8. TaskOK(t)'
      BY <1>7, <1>10, <2>3, <3>2, <3>4, <3>5, <3>6, <3>7 DEF TaskOK
    <3>9. ASSUME NEW o \in Tasks, o # t PROVE TaskOK(o)'
      <4>1. pc'[o] = pc[o] /\ outcome'[o] = outcome[o] /\ got'[o] = got[o]
        BY <1>2, <2>3, <3>9 DEF Shapes
      <4> QED BY <1>2, <1>10, <3>9, <4>1, Untouched
    <3> QED BY <1>9, <3>1, <3>8, <3>9 DEF IInv
  <2> QED BY <1>7, <2>1, <2>2, <2>3, Dispatched
<1> QED BY <1>14, <1>15

-----------------------------------------------------------------------------
(* Fetches, closing and opening.                                           *)

\* A step of no task, which leaves the shapes: only cursors can be disturbed.
LEMMA TasksStay ==
  ASSUME IInv, UNCHANGED <<table, keys, pc, job, reply, outcome, work, got>>,
         open' \in BOOLEAN, DOMAIN cur' = Cursors, DOMAIN given' = Cursors,
         \A c \in Cursors : ResultOK(cur'[c], given'[c])
  PROVE  IInv'
<1>1. Shapes /\ \A t \in Tasks : TaskOK(t)
  BY DEF IInv
<1>2. Shapes'
  BY <1>1 DEF Shapes
<1>3. \A c \in Cursors : CursorOK(c)'
  BY CursorIs
<1>4. \A t \in Tasks : TaskOK(t)'
  BY <1>1, Untouched
<1> QED BY <1>2, <1>3, <1>4 DEF IInv

LEMMA FetchStep ==
  ASSUME IInv, NEW c \in Cursors, NEW size \in 1..MaxId, Fetch(c, size)
  PROVE  IInv'
<1> DEFINE s == cur[c]
           m == Min({s.index + size, Len(s.rows)})
<1>1. /\ given' = [given EXCEPT ![c] = @ \o SubSeq(s.rows, s.index + 1, m)]
      /\ cur' = [cur EXCEPT ![c].index = m]
      /\ UNCHANGED <<calls, table, keys, open, pc, job, reply, outcome, work, got>>
  BY DEF Fetch, TakeTo
<1>2. /\ Shapes /\ ResultOK(s, given[c]) /\ \A o \in Cursors : ResultOK(cur[o], given[o])
  BY CursorIs DEF IInv
<1>3. /\ s \in [rows : Seq(Ids), index : Nat, rowcount : -1..MaxId * MaxSets,
                lastrowid : Keys, described : BOOLEAN, closed : BOOLEAN]
      /\ s.index <= Len(s.rows) /\ given[c] \in Seq(Ids)
      /\ given[c] \o SubSeq(s.rows, s.index + 1, Len(s.rows)) = s.rows
  BY <1>2 DEF ResultOK
<1>4. s.rows \in Seq(Ids) /\ s.index \in Nat /\ Len(s.rows) \in Nat /\ size \in Nat
  BY <1>3, LenProperties, Bounds
<1>5. m \in Nat /\ s.index <= m /\ m <= Len(s.rows)
  <2> DEFINE S == {s.index + size, Len(s.rows)}
  <2>1. S \subseteq Nat /\ S # {}
    BY <1>4
  <2>2. m \in S /\ \A y \in S : m <= y
    <3> HIDE DEF S
    <3> QED BY <2>1, LeastNatural DEF Min, S
  <2> HIDE DEF m, s
  <2> QED BY <1>3, <1>4, <2>2
<1> DEFINE g == given[c] \o SubSeq(s.rows, s.index + 1, m)
<1>6. /\ g \in Seq(Ids) /\ g \o SubSeq(s.rows, m + 1, Len(s.rows)) = s.rows
  <2> DEFINE rows == s.rows
             taken == given[c]
             i == s.index
  <2>1. /\ rows \in Seq(Ids) /\ taken \in Seq(Ids) /\ i \in Nat /\ m \in Nat /\ i <= m /\ m <= Len(rows)
        /\ taken \o SubSeq(rows, i + 1, Len(rows)) = rows
    BY <1>3, <1>4, <1>5
  <2> HIDE DEF m, s, rows, taken, i
  <2>2. /\ taken \o SubSeq(rows, i + 1, m) \in Seq(Ids)
        /\ (taken \o SubSeq(rows, i + 1, m)) \o SubSeq(rows, m + 1, Len(rows)) = rows
    BY ONLY <2>1, SliceOn
  <2> QED BY <2>2 DEF rows, taken, i
<1> DEFINE d == [s EXCEPT !.index = m]
<1>7. ResultOK(d, g)
  <2>1. /\ d \in [rows : Seq(Ids), index : Nat, rowcount : -1..MaxId * MaxSets,
                  lastrowid : Keys, described : BOOLEAN, closed : BOOLEAN]
        /\ d.rows = s.rows /\ d.index = m
    <3> HIDE DEF m, s
    <3> QED BY <1>3, <1>5
  <2> HIDE DEF d, g, m, s
  <2> QED BY <1>5, <1>6, <2>1 DEF ResultOK
<1>8. /\ cur'[c] = d /\ given'[c] = g
      /\ DOMAIN cur' = Cursors /\ DOMAIN given' = Cursors
      /\ \A o \in Cursors : o # c => cur'[o] = cur[o] /\ given'[o] = given[o]
  <2> HIDE DEF m
  <2> QED BY <1>1, <1>2 DEF Shapes
<1> HIDE DEF d, g, m, s
<1>9. \A o \in Cursors : ResultOK(cur'[o], given'[o])
  BY <1>2, <1>7, <1>8
<1> QED BY <1>1, <1>2, <1>8, <1>9, TasksStay DEF Shapes

LEMMA CloseStep ==
  ASSUME IInv, NEW c \in Cursors, Close(c)
  PROVE  IInv'
<1> DEFINE d == [cur[c] EXCEPT !.closed = TRUE]
<1>1. /\ Shapes /\ \A o \in Cursors : ResultOK(cur[o], given[o])
  BY CursorIs DEF IInv
<1>2. /\ cur'[c] = d /\ DOMAIN cur' = Cursors /\ DOMAIN given' = Cursors
      /\ \A o \in Cursors : o # c => cur'[o] = cur[o]
      /\ UNCHANGED <<table, keys, open, pc, job, reply, outcome, work, got, given>>
  BY <1>1 DEF Close, Shapes
<1>3. ResultOK(d, given[c])
  <2>1. /\ cur[c] \in [rows : Seq(Ids), index : Nat, rowcount : -1..MaxId * MaxSets,
                       lastrowid : Keys, described : BOOLEAN, closed : BOOLEAN]
    BY <1>1 DEF ResultOK
  <2>2. /\ d \in [rows : Seq(Ids), index : Nat, rowcount : -1..MaxId * MaxSets,
                  lastrowid : Keys, described : BOOLEAN, closed : BOOLEAN]
        /\ d.rows = cur[c].rows /\ d.index = cur[c].index
    BY <2>1
  <2> HIDE DEF d
  <2> QED BY <1>1, <2>2 DEF ResultOK
<1> HIDE DEF d
<1>4. \A o \in Cursors : ResultOK(cur'[o], given'[o])
  BY <1>1, <1>2, <1>3
<1> QED BY <1>1, <1>2, <1>4, TasksStay DEF Shapes

\* A cursor as it is made: no rows, none given.
LEMMA NewCursorOK ==
  ResultOK(NewCursor, <<>>)
<1>1. -1 \in -1..MaxId * MaxSets /\ <<>> \in Seq(Ids)
  BY Bounds, EmptySeq
<1>2. NewCursor \in [rows : Seq(Ids), index : {0}, rowcount : -1..MaxId * MaxSets,
                     lastrowid : Keys, described : BOOLEAN, closed : BOOLEAN]
  BY <1>1 DEF NewCursor, Keys
<1> QED BY <1>2, Fresh

LEMMA OpenStep ==
  ASSUME IInv, NEW c \in Cursors, OpenCursor(c)
  PROVE  IInv'
<1>1. /\ Shapes /\ \A o \in Cursors : ResultOK(cur[o], given[o])
  BY CursorIs DEF IInv
<1>2. /\ cur'[c] = NewCursor /\ given'[c] = <<>>
      /\ DOMAIN cur' = Cursors /\ DOMAIN given' = Cursors
      /\ \A o \in Cursors : o # c => cur'[o] = cur[o] /\ given'[o] = given[o]
      /\ UNCHANGED <<table, keys, open, pc, job, reply, outcome, work, got>>
  BY <1>1 DEF OpenCursor, Shapes
<1>3. \A o \in Cursors : ResultOK(cur'[o], given'[o])
  BY <1>1, <1>2, NewCursorOK
<1> QED BY <1>1, <1>2, <1>3, TasksStay DEF Shapes

\* Neither the end of the connection nor a stutter reaches a cursor.
LEMMA OthersStep ==
  ASSUME IInv, CloseConnection \/ UNCHANGED vars
  PROVE  IInv'
<1>1. /\ Shapes /\ \A o \in Cursors : ResultOK(cur[o], given[o])
  BY CursorIs DEF IInv
<1>2. /\ open' \in BOOLEAN
      /\ UNCHANGED <<table, keys, cur, pc, job, reply, outcome, work, got, given>>
  BY <1>1 DEF CloseConnection, vars, Shapes
<1> QED BY <1>1, <1>2, TasksStay DEF Shapes

-----------------------------------------------------------------------------
(* The invariant.                                                          *)

LEMMA InitIInv == Init => IInv
<1> SUFFICES ASSUME Init PROVE IInv
  OBVIOUS
<1> DEFINE none == [sets |-> <<>>, changed |-> 0, counted |-> TRUE, key |-> None]
<1>1. Shapes
  <2>1. Len(Start0) \in Nat /\ Len(Start0) \in 0..MaxId
        /\ \A i \in 1..Len(Start0) : Start0[i] \in Rows
    BY StartAssumption, LenProperties, ElementOfSeq
  <2>2. table \in [Ids -> Rows \cup {None}]
    <3>1. \A i \in Ids : i <= Len(Start0) => i \in 1..Len(Start0)
      BY <2>1, Bounds DEF Ids
    <3>2. \A i \in Ids : (IF i <= Len(Start0) THEN Start0[i] ELSE None) \in Rows \cup {None}
      BY <2>1, <3>1
    <3> QED BY <3>2 DEF Init
  <2>3. none \in Works
    BY NoSets DEF Works, Keys
  <2> HIDE DEF none
  <2>4. work \in [Tasks -> Works]
    BY <2>3 DEF Init, none
  <2> QED BY <2>1, <2>2, <2>4 DEF Init, Shapes
<1>2. \A c \in Cursors : CursorOK(c)
  <2>1. \A c \in Cursors : cur[c] = NewCursor /\ given[c] = <<>>
    BY DEF Init
  <2> QED BY <2>1, NewCursorOK, CursorIs
<1>3. \A t \in Tasks : TaskOK(t)
  BY DEF Init, TaskOK
<1> QED BY <1>1, <1>2, <1>3 DEF IInv

LEMMA NextIInv == IInv /\ [Next]_vars => IInv'
<1> SUFFICES ASSUME IInv, [Next]_vars PROVE IInv'
  OBVIOUS
<1>1. ASSUME NEW t \in Tasks, Execute(t) PROVE IInv'
  <2>1. PICK j \in Workload(t) : ~j.many /\ Len(j.sets) = 1 /\ Begin(t, j)
    BY <1>1 DEF Execute
  <2> QED BY <2>1, BeginStep DEF IInv
<1>2. ASSUME NEW t \in Tasks, Executemany(t) PROVE IInv'
  <2>1. PICK j \in Workload(t) : j.many /\ Begin(t, j)
    BY <1>2 DEF Executemany
  <2> QED BY <2>1, BeginStep DEF IInv
<1>3. ASSUME NEW t \in Tasks, ServeSelect(t) \/ ServeDelete(t) \/ ServeInsert(t) \/ ServeDdl(t)
      PROVE  IInv'
  BY <1>3, ServeStep
<1>4. ASSUME NEW t \in Tasks, RpcFails(t) PROVE IInv'
  BY <1>4, FailStep
<1>5. ASSUME NEW t \in Tasks, Succeed(t) PROVE IInv'
  BY <1>5, SucceedStep
<1>6. CASE CloseConnection \/ UNCHANGED vars
  BY <1>6, OthersStep
<1>7. ASSUME NEW c \in Cursors, Close(c) PROVE IInv'
  BY <1>7, CloseStep
<1>8. ASSUME NEW c \in Cursors, OpenCursor(c) PROVE IInv'
  BY <1>8, OpenStep
<1>9. ASSUME NEW c \in Cursors, NEW size \in 1..MaxId, Fetch(c, size) PROVE IInv'
  BY <1>9, FetchStep
<1> QED BY <1>1, <1>2, <1>3, <1>4, <1>5, <1>6, <1>7, <1>8, <1>9 DEF Next

LEMMA IInvAlways == Spec => []IInv
  BY InitIInv, NextIInv, PTL DEF Spec

-----------------------------------------------------------------------------
(* What follows of it.                                                     *)

\* The attributes of cursors, and what a call has counted, stay in their types
\* (cursor.py's Cursor and aio.py's AsyncCursor): an index never passes the rows
\* there are, a total never what the sets so far can have changed.
THEOREM TypeCorrect == Spec => []TypeOK
<1>1. IInv => TypeOK
  <2> SUFFICES ASSUME IInv PROVE TypeOK
    OBVIOUS
  <2>1. Shapes /\ (\A c \in Cursors : CursorOK(c)) /\ (\A t \in Tasks : TaskOK(t))
    BY DEF IInv
  <2>2. ASSUME NEW c \in Cursors
        PROVE  /\ cur[c].rows \in Seq(Ids)
               /\ cur[c].index \in 0..Len(cur[c].rows)
               /\ cur[c].rowcount \in -1..MaxId * MaxSets
               /\ cur[c].lastrowid \in Ids \cup {None}
               /\ given[c] \in Seq(Ids)
    <3>1. CursorOK(c)
      BY <2>1
    <3>2. /\ cur[c].rows \in Seq(Ids) /\ cur[c].index \in Nat
          /\ cur[c].index <= Len(cur[c].rows)
          /\ cur[c].rowcount \in -1..MaxId * MaxSets
          /\ cur[c].lastrowid \in Keys /\ given[c] \in Seq(Ids)
      BY <3>1 DEF CursorOK
    <3>3. Len(cur[c].rows) \in Nat
      BY <3>2, LenProperties
    <3> QED BY <3>2, <3>3 DEF Keys
  <2>3. ASSUME NEW t \in Tasks, job[t] # None
        PROVE  job[t].at \in 1..MaxSets /\ job[t].total \in 0..MaxId * MaxSets
    <3>1. TaskOK(t)
      BY <2>1
    <3>2. JobOK(job[t])
      BY <2>3, <3>1 DEF TaskOK
    <3>3. /\ job[t].at \in 1..MaxSets /\ job[t].total \in Nat
          /\ job[t].total <= MaxId * MaxSets
      BY <3>2, BegunFacts
    <3> DEFINE most == MaxId * MaxSets
    <3>4. most \in Nat
      BY Bounds
    <3> HIDE DEF most
    <3>5. job[t].total \in 0..most
      BY <3>3, <3>4 DEF most
    <3> QED BY <3>3, <3>5 DEF most
  <2> QED BY <2>1, <2>2, <2>3 DEF Shapes, TypeOK
<1> QED BY <1>1, IInvAlways, PTL

\* Fetches of any sizes, by any tasks, mixed with calls that replace the result
\* (_take, fetchone, fetchmany and fetchall in cursor.py, and their twins in
\* aio.py) hand out the rows of each result in order and each once.
THEOREM RowsGivenOnce == Spec => []EveryRowGivenOnce
<1>1. IInv => EveryRowGivenOnce
  BY DEF IInv, CursorOK, EveryRowGivenOnce
<1> QED BY <1>1, IInvAlways, PTL

\* Whatever other tasks do, and whichever RPC fails or loses its answer, the
\* sets of a call (executemany in cursor.py, build_batch_call) are applied in
\* order; all of them when it returns, and none past those whose RPC returned
\* when it raises an error that says so.
THEOREM SetsInOrder == Spec => []SetsAppliedInOrder
<1>1. IInv => SetsAppliedInOrder
  <2> SUFFICES ASSUME IInv, NEW t \in Tasks, job[t] # None
               PROVE  LET j == job[t]
                          n == Len(work[t].sets)
                      IN /\ work[t].sets = [i \in 1..n |-> i]
                         /\ Batched(j) => n \in {0, Len(j.sets)}
                         /\ outcome[t] = "ok" => n = Len(j.sets)
                         /\ outcome[t] \in Definite => n = j.at - 1
    BY DEF SetsAppliedInOrder
  <2>1. TaskOK(t)
    BY DEF IInv
  <2>2. Applied(t) /\ (outcome[t] = "ok" => pc[t] = "idle")
    BY <2>1 DEF TaskOK
  <2> QED BY <2>2 DEF Applied
<1> QED BY <1>1, IInvAlways, PTL

\* rowcount of INSERT and DELETE, and executemany's total in cursor.py, is what
\* the very call changed, whoever shares its cursor.
THEOREM CountsAreWork == Spec => []CountIsWork
<1>1. IInv => CountIsWork
  <2> SUFFICES ASSUME IInv, NEW t \in Tasks,
                      outcome[t] = "ok", job[t].call.op \in {"insert", "delete"}
               PROVE  IF work[t].counted THEN got[t].count = work[t].changed
                      ELSE got[t].count <= work[t].changed
    BY DEF CountIsWork
  <2>1. TaskOK(t)
    BY DEF IInv
  <2>2. Counted(t)
    BY <2>1 DEF TaskOK
  <2> QED BY <2>2 DEF Counted
<1> QED BY <1>1, IInvAlways, PTL

\* lastrowid is the key the call's own INSERT was assigned: neither an earlier
\* statement's nor another task's (_run in cursor.py and aio.py).
THEOREM KeysAreOwn == Spec => []LastKeyIsOwn
<1>1. IInv => LastKeyIsOwn
  <2> SUFFICES ASSUME IInv, NEW t \in Tasks, outcome[t] = "ok", job[t].sets # <<>>
               PROVE  got[t].key = work[t].key
    BY DEF LastKeyIsOwn
  <2>1. TaskOK(t)
    BY DEF IInv
  <2>2. Keyed(t)
    BY <2>1 DEF TaskOK
  <2> QED BY <2>2 DEF Keyed
<1> QED BY <1>1, IInvAlways, PTL
=============================================================================
