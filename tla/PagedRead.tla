------------------------------ MODULE PagedRead ------------------------------
(***************************************************************************)
(* One statement's read of every row that matches its filter: the chain of *)
(* Calls that unbounded_query_call builds and Cursor._run (or              *)
(* AsyncCursor._run) drives, while other clients write to the collection.  *)
(* A row is its primary key; rows outside the filter are not represented.  *)
(* One action is one RPC together with the Call.then that consumes its     *)
(* answer: the answer is fixed when the server evaluates the query, and    *)
(* nothing a writer does afterwards reaches it.                            *)
(***************************************************************************)
EXTENDS Integers, Sequences, SequencesExt

CONSTANTS
  Keys,             \* primary keys, totally ordered
  Limit,            \* DEFAULT_QUERY_LIMIT, the per-call row ceiling (16384)
  Servers,          \* the kinds of server considered: see `ordered`
  NoKey             \* the `after` of the first page: None

ASSUME KeysAssumption == Keys \subseteq Int
ASSUME LimitAssumption == Limit \in Nat \ {0}
ASSUME ServerAssumption == Servers \subseteq BOOLEAN
ASSUME NoKeyAssumption == NoKey \notin Keys

VARIABLES
  ordered,          \* the server sends iterator pages in primary-key order (full
                    \* Milvus); FALSE: it ignores the iterator flag (Milvus Lite)
  matching,         \* keys the server now serves for the statement's filter
  pc,               \* the Call to be sent next, or how the read ended
  after,            \* the primary-key cursor closed over by page()
  accumulated,      \* the rows paged() has gathered so far
  result,           \* what finish() was given when the read returned
  stable,           \* history: keys that have matched since the read began
  seen              \* history: keys that have matched at some moment since

client == <<pc, after, accumulated, result>>
vars == <<ordered, matching, pc, after, accumulated, result, stable, seen>>

Ended == {"idle", "returned", "unordered", "failed"}
InFlight == {"first", "describe", "page"}

Increasing(s) == \A i, j \in 1..Len(s) : i < j => s[i] < s[j]
Distinct(s) == \A i, j \in 1..Len(s) : s[i] = s[j] => i = j

-----------------------------------------------------------------------------
(* The server (outside the repository; Milvus and Milvus Lite).            *)

\* query() with limit=Limit over the rows S: any Limit of them, or all if fewer.
QueryAnswers(S) ==
  {s \in SeqOf(S, Limit) :
     /\ Distinct(s)
     /\ Len(s) = Limit \/ Range(s) = S}

\* With iterator="True" a full server sends the Limit smallest keys in order;
\* a server that ignores the flag answers like any other query().
PageAnswers(S) ==
  IF ordered
  THEN {s \in QueryAnswers(S) :
          /\ Increasing(s)
          /\ \A k \in S \ Range(s), p \in Range(s) : p < k}
  ELSE QueryAnswers(S)

-----------------------------------------------------------------------------
(* The chain of Calls.                                                     *)

\* Fault: an answer of exactly Limit rows is taken for all there is.
AtCeilingStrict(rows) == Len(rows) > Limit

\* An answer at the ceiling may not be all there is.
AtCeiling(rows) == Len(rows) >= Limit

\* Fault: `pk >= after`.
PastCursorInclusive(S, a) == {k \in S : a # NoKey => k >= a}

\* The filter of page(after): the statement's own, and `pk > after`.
PastCursor(S, a) == {k \in S : a # NoKey => k > a}

\* Fault: the cursor is the next key up, whether it is a key or not.
NextCursorPlusOne(rows) == rows[Len(rows)] + 1

\* The cursor page() is called with next: keys[-1].
NextCursor(rows) == rows[Len(rows)]

\* A consecutive pair of keys that does not increase: the page is refused.
OutOfOrder(rows) == \E i \in 1..Len(rows)-1 : rows[i+1] <= rows[i]

\* Fault: each page replaces the ones before it.
ExtendedByLast(rows) == rows

\* accumulated.extend(rows).
Extended(rows) == accumulated \o rows

\* Fault: paged() goes back to the first query.
AfterDescribeRestart == "first"

\* Where the chain goes when describe_collection has answered: page(None).
AfterDescribe == "page"

\* Cursor.execute builds the first Call and runs it.
Begin ==
  /\ pc \in Ended
  /\ pc' = "first"
  /\ result' = << >>
  /\ after' = NoKey
  /\ accumulated' = << >>
  /\ stable' = matching
  /\ seen' = matching
  /\ UNCHANGED <<ordered, matching>>

\* first_then / first_postprocess: short answers are final, an answer at the
\* ceiling is thrown away and the read starts over with describe_collection.
FirstQuery ==
  /\ pc = "first"
  /\ \E raw \in QueryAnswers(matching) :
       IF AtCeiling(raw)
       THEN pc' = "describe" /\ UNCHANGED result
       ELSE pc' = "returned" /\ result' = raw
  /\ UNCHANGED <<ordered, matching, after, accumulated, stable, seen>>

\* paged(): the answer names the primary key; gathering starts from nothing.
Describe ==
  /\ pc = "describe"
  /\ pc' = AfterDescribe
  /\ after' = NoKey
  /\ accumulated' = << >>
  /\ UNCHANGED <<ordered, matching, result, stable, seen>>

\* page(after): then() refuses an unordered page, adds an ordered one, and
\* goes on past its last key as long as pages come back full.
Page ==
  /\ pc = "page"
  /\ \E rows \in PageAnswers(PastCursor(matching, after)) :
       \/ /\ OutOfOrder(rows)
          /\ pc' = "unordered"
          /\ UNCHANGED <<after, accumulated, result>>
       \/ /\ ~OutOfOrder(rows)
          /\ accumulated' = Extended(rows)
          /\ IF AtCeiling(rows)
             THEN /\ after' = NextCursor(rows)
                  /\ UNCHANGED <<pc, result>>
             ELSE /\ pc' = "returned"
                  /\ result' = accumulated'
                  /\ UNCHANGED after
  /\ UNCHANGED <<ordered, matching, stable, seen>>

\* Any RPC of the chain raises: _run translates the error and publishes nothing.
RpcFails ==
  /\ pc \in InFlight
  /\ pc' = "failed"
  /\ UNCHANGED <<ordered, matching, after, accumulated, result, stable, seen>>

\* Another client inserts, deletes or changes a row while the read is running.
\* `matching` is what the query nodes serve, so a write counts when it becomes
\* visible to them: replication lag only delays this action.
Write ==
  /\ pc \in InFlight
  /\ \E k \in Keys :
       /\ matching' \in {matching \cup {k}, matching \ {k}}
       /\ stable' = stable \ {k}
  /\ seen' = seen \cup matching'
  /\ UNCHANGED <<ordered, client>>

Init ==
  /\ ordered \in Servers
  /\ matching \in SUBSET Keys
  /\ pc = "idle"
  /\ after = NoKey
  /\ accumulated = << >> /\ result = << >>
  /\ stable = {} /\ seen = {}

ClientStep == FirstQuery \/ Describe \/ Page \/ RpcFails
Next == Begin \/ ClientStep \/ Write

Spec == Init /\ [][Next]_vars

\* The cursor sends its next Call whenever it has one (`while call.then`), and
\* every RPC answers or raises; nothing obliges a caller to start a read.
FairSpec == Spec /\ WF_vars(ClientStep)

-----------------------------------------------------------------------------
TypeOK ==
  /\ ordered \in BOOLEAN
  /\ matching \in SUBSET Keys
  /\ pc \in Ended \cup InFlight
  /\ after \in Keys \cup {NoKey}
  /\ accumulated \in Seq(Keys)
  /\ result \in Seq(Keys)
  /\ stable \in SUBSET Keys
  /\ seen \in SUBSET Keys

\* The gathered pages never repeat a row and stay in primary-key order up to
\* the cursor, although the server's rows change between two pages.
PagesInOrder ==
  pc = "page" =>
    /\ Increasing(accumulated)
    /\ IF accumulated = << >> THEN after = NoKey
                              ELSE after = accumulated[Len(accumulated)]

\* On a server that pages in order, a read that returns has missed no row that matched throughout it, repeats
\* none and invents none (README.md: the read covers *every* matching row,
\* and only rows written mid-read may or may not appear).  The last two hold
\* on every server.
NothingLost ==
  pc = "returned" =>
    /\ Distinct(result)
    /\ ordered => stable \subseteq Range(result)
    /\ Range(result) \subseteq seen

\* What is behind the cursor is settled: the inductive heart of NothingLost.
BehindCursor ==
  /\ stable \subseteq matching
  /\ pc # "idle" => matching \subseteq seen
  /\ Range(accumulated) \subseteq seen
  /\ ordered /\ pc = "page" =>
       \A k \in stable : after # NoKey /\ k <= after => k \in Range(accumulated)

IInv == TypeOK /\ PagesInOrder /\ BehindCursor /\ NothingLost

\* What unbounded_query_call's docstring says of a server that ignores the
\* iterator flag: the read raises rather than silently losing rows.
RaisesOrComplete == pc = "returned" => stable \subseteq Range(result)

\* Every read ends, under writers that never stop: each full page moves the
\* cursor to a larger key.
ReadEnds == pc = "first" ~> pc \in Ended

\* The read implements the one-step promise of CompleteRead.
Phase == IF pc \in InFlight THEN "reading"
         ELSE IF pc \in {"unordered", "failed"} THEN "raised" ELSE pc

Promise == INSTANCE CompleteRead WITH phase <- Phase
KeepsPromise == Promise!CSpec
=============================================================================
