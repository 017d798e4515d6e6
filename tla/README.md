# A TLA+ model of milvusql

milvusql is a PEP 249 driver that answers SQL on a Milvus vector database. It
parses a statement, translates it to a `Call` -- one pymilvus method with its
arguments -- and, where one RPC is not enough, to a chain of Calls in which
each answer decides the next (`Call.then`). `Cursor._run` and
`AsyncCursor._run` drive the chain. There are no transactions, no snapshot
spans two RPCs, and a server call may fail at any point of a chain: that is
what makes this code hard to test and worth modelling.

Source paths below are relative to the repository; `translate/`, `dbapi/`,
`aio.py` and `_shared.py` live in `src/milvusql/`.

## Inventory

| Component | State | Operations | Hard behaviour | What makes it correct |
|---|---|---|---|---|
| Paged reads (`translate/_common.py`, `unbounded_query_call`) | the closures `after` and `accumulated` of the page loop | first query, `describe_collection`, pages | rows change between pages; exact-multiple boundaries; servers that ignore the iterator flag | every row that matched throughout is returned once; the loop ends |
| Auto-LOAD cache (`_shared.py`, `_invoke`) | `Connection._loaded_collections` | auto-LOAD before a read, `note_load_state` after every RPC | cursors of one connection interleave between an RPC and its note; USE; other clients; lost answers | a cached name is a loaded collection |
| UPDATE (`translate/ast_to_pymilvus.py`) | rows read, chunk offset, count | paged read, merge, chunked upsert | read-modify-write without a transaction; stale reads; auto_id keys move; a chunk fails | exactly the matching rows change, and only in the SET columns |
| Joins (`translate/relational.py`) | scan list, fetched frames | plan, push predicates and keys down, scan, join | outer joins and what may be pushed below them; order of scans; reads at different moments; NULL keys; quadratic bound | the plan is invisible in the answer |
| SELECT dispatch (`_build_select`) | none | choose one of five read paths | each path carries its own subset of the clauses | the answer is one SQL allows, whatever the path |
| Relational evaluation (`relational.py`) | frames | semi-joins, subqueries, CTEs, GROUP BY, set operations, windows | NULL semantics, empty frames | SQL's answer |
| Cursor and connection (`dbapi/`, `aio.py`) | rows, index, rowcount, lastrowid, description, closed | execute, executemany, fetch*, close, cursor | failed statements, partial batches, answers lost, tasks that share a cursor | what is fetched and counted belongs to the statement that published it; an error class says what may have been applied |
| DML and DDL builders, DESCRIBE (`translate/ast_to_pymilvus.py`) | none | one statement, one RPC; columns become fields and back | columns added to tables with rows; what a description leaves out | rows fit the schema; a description leads back to the table |
| Filter rendering (`translate/_common.py`) | none | a WHERE tree becomes an expression | NULLs, empty lists, bare columns, subqueries | an expression means the WHERE, or the statement is refused |
| Error translation (`dbapi/errors.py`) | none | upstream errors become PEP 249 classes | errors that hide a success | see cursor |
| SQLAlchemy dialect (`packages/milvusql-sqlalchemy`) | none | compile, reflect, create_all | check and create are two RPCs | a reflected table can be created again |
| Django backend (`packages/milvusql-django`) | the pad-vector cache | compile, create_model, INSERT | the cache goes stale; three statements without a transaction | an INSERT gives the fields the table has; a padded table is queryable |
| Temporal worker (`examples/temporal_worker`) | the collection | insert_item, retried | at-least-once delivery, overlapping attempts, crashes, lost answers | one row per external id; a workflow returns its own row and ends |

Components call each other through `Call`: translation builds them, a cursor
drives them, all cursors of a connection share its `MilvusClient`, database and
load cache, and every connection shares the server.

## Modules

| Module | Models | State and actions |
|---|---|---|
| `CompleteRead` | the promise of an unbounded read | one step from "reading" to "returned" or "raised", with writers |
| `PagedRead` | `unbounded_query_call` driven by `_run` | `pc` names the next Call; one action per RPC and the `then` that consumes it (`FirstQuery`, `Describe`, `Page`, `RpcFails`); `Write` is everyone else |
| `KeyOrder` | the order of primary keys in an answer, and of frames in a plan | one operator, `InKeyOrder` |
| `LoadCache` | `_invoke` and `note_load_state` of several cursors | a statement is cut where it awaits: `Start`, `Serve`, `ResumeAfterLoad`, `ResumeAfterCall`, `ResumeWithError` |
| `UpdateStmt`, `MCUpdateStmt` | `_build_update` and `_chunked_upsert` of several sessions | `Begin`, `ReadPage`, `UpsertChunk`, `Fail`; the server's `Delete` and `Sync` |
| `JoinRead`, `MCJoinRead` | join planning, pushdown, scans, joins | the plan is a set of operators over the statement; `Scan` is one read of the chain, the last one evaluates |
| `RelQuery`, `MCRelQuery` | the relational engine beyond joins: subqueries, CTEs, derived tables, set operations, groups, rankings | a statement is a tree of queries; `Chain` lists its reads; `Scan` is one read, the last one evaluates the tree (`Evaluated`, `Raises`); `SqlAnswers` is what SQL allows |
| `SelectDispatch`, `MCSelectDispatch` | `_build_select` over one collection | operators give the answers SQL allows (`Meaning`) and those the code gives (`CodeAnswers`); `Execute` runs a statement |
| `DbapiCursor`, `MCDbapiCursor` | cursors of one connection, used by several tasks | `Begin` is the code up to the RPC, `Serve...` the server, `Succeed` and `RpcFails` the code from the answer on (publish, and executemany's next set); `Fetch`, `Close`, `OpenCursor`, `CloseConnection` |
| `FilterText` | `render_filter` and `render_predicate` | operators: `Refusal`, `Render`, and what Milvus makes of the expression, against SQL's three-valued `Sql`. `DbapiCursor` takes them as operator constants, so that it stays free of recursion |
| `MilvusSchema` | types and fields: CREATE TABLE, ALTER TABLE, DESCRIBE, reflection | operators from a parsed definition to fields (`CreateTable`), from fields to a description, and back to a definition |
| `TableLife`, `MCTableLife` | the life of one table under the Django backend and SQLAlchemy | one action per statement of `create_model`, so that a process can fail or die between them; a single-row INSERT is its pad check (`BeginInsert`) and its RPC (`Insert`), any other form is sent as it is (`InsertUnmatched`); `ReleaseTable` is anybody's RELEASE |
| `IngestActivity` | the Temporal example | an attempt is cut at its two RPCs; `flight` holds INSERTs that Milvus may yet serve, whether their sender waits, is gone, or has been told of an error (`RpcFails`); `TimesOut`, `Report`, `WorkerCrashes` are Temporal's and the worker's |
| `ReadProofs` | theorems about the reads of one collection: `PagedRead` and `SelectDispatch` | |
| `LoadCacheProofs`, `UpdateStmtProofs`, `JoinReadProofs`, `DbapiCursorProofs`, `TableLifeProofs`, `IngestActivityProofs` | theorems about the module each is named after | |
| `NatSetProofs` | induction over the naturals, least elements, `InKeyOrder` | lemmas the others cite |

Definitions whose comment starts with "Fault:" are mutations used to show
that a property can fail; no specification uses them.

Milvus itself is outside the repository. It is modelled by how the code uses
it: `query` returns any `Limit` of the matching rows, or all of them if there
are fewer, and with `iterator="True"` a full server returns the smallest keys
in order (Milvus Lite does not: README.md l. 220-222 of the repository);
`search` returns the nearest hits; `upsert` on an auto_id collection gives the
row a new key (`_build_update`'s docstring).

## Runs

| Run | Question | Bounds, and why they are enough |
|---|---|---|
| `paging` | do paged reads lose, repeat or invent rows, and do they end? | 5 keys, ceiling 2: the first query, a full page, a second full page and a short one all occur, and so does an answer of exactly the ceiling |
| `paging_lite` (violated) | does a server that ignores the flag always raise? | 3 keys, ceiling 2 |
| `load_cache` | when is the load cache wrong? | 2 cursors, 2 databases, 1 name: statements about different names do not interact; other clients and lost answers on |
| `update` | what does an UPDATE do alone, failing, and against others? | 2 sessions, 2 columns, 2 rows, one row per page and per upsert, 2 statements: two pages and two chunks, and every interleaving of two UPDATEs with DELETEs |
| `join` | is planning invisible? | 2 key values and NULL, 2 rows per collection, two-frame statements in full, three-frame chains of equi-joins with one WHERE; chains of four and five frames of one row, whose last frame is read first and restricts the second; 1 pushed key at most and 2 rows per quadratic side, so both bounds are crossed |
| `select` | does every path answer SQL? | up to 3 rows of 2 prices or NULL, ceiling 2, LIMIT and OFFSET up to 2 |
| `relational` | does a nested query answer SQL, raise only where SQL has no answer, and read each collection it mentions once? | some 680 statements; up to 3 rows of one collection, 2 or 3 of each of two, with NULLs and duplicates: ties, groups of one and of two, partners and none, LIMIT and OFFSET that cut and that do not |
| `cursors` | what do execute, executemany, fetches, rowcount, lastrowid and error classes promise when two tasks share a cursor and RPCs fail or lose their answers? | one cursor, two tasks, 3 calls: a call before, one during and one after another; up to 3 parameter sets, so that a loop fails at the first, a middle and the last; 3 rows with NULLs and 20 WHERE trees, two levels deep where a connective matters |
| `schema` | how does a table go through creation, loading, ALTER, INSERT and recreation, and what do its descriptions keep? | two Django processes, one other client; 2 tables in turn, so that knowledge of the first meets the second; 2 distinct rows; two models and eight definitions with scalars, TEXT, arrays, JSON, vectors, generated columns and both spellings of PRIMARY KEY; three are refused: one has no vector, one an array of vectors, one a BM25 over a text that is not analyzed |
| `ingest` | does a key get one row, does a workflow return its own row, does it end? | two workflows, whose keys may be equal; 2 attempts (a retry, and a last attempt); 3 rows, one more than the workflows need |
| `describe_lossy` (violated) | does DESCRIBE's output round-trip unchanged? | as `schema` |
| `order_by_truncates` (violated) | does ORDER BY without LIMIT return every row? | two statements of `select` |

Deadlock is checked in `paging`, `load_cache`, `cursors` and `schema`, where a
caller can always do something more. It is off for `update`, `join`,
`relational`, `select` and `ingest`, whose behaviours end when the statements,
or the workflows, are done.

Fairness appears twice. `PagedRead!FairSpec` is weakly fair in the step that
sends the cursor's next Call and takes its answer, because `_run` loops while
there is a next Call and an RPC answers or raises. Writers are not fair, and
may also never stop. `ReadEnds` further rests on the set of keys being finite:
over unbounded keys a writer that appends faster than pages are read keeps the
loop going.

`IngestActivity!FairSpec` is weakly fair in each attempt's next step -- its
SELECT or INSERT is answered or fails, its report reaches Temporal -- and in the
start-to-close timer. Nothing obliges a workflow to start, a worker to crash or
an RPC to succeed. `WorkflowEnds` follows from the bound on attempts, each of
which ends in a report or at its timer.

## What the violated runs say

- `paging_lite`: the order check looks at neighbours within one page. On Milvus
  Lite a full page can be increasing by chance and skip a smaller key (rows 1 and
  3 of 1, 2, 3); the next page, past its last key, is empty, and the read returns
  incomplete instead of raising. Nobody has to write for that.
- `order_by_truncates`: all pages are read for ORDER BY, then 16384 rows kept.
- `describe_lossy`: `ast_to_pymilvus.py` l. 1238 says that DESCRIBE's output
  round-trips into CREATE TABLE unchanged. The shortest trace is a TEXT, printed as
  a VARCHAR without its analyzer. An array's VARCHAR elements lose their length,
  and a vector added later is printed as one that may be NULL (l. 1298), which
  CREATE TABLE cannot take back. A BM25 over the copied text is refused by Milvus.
  `DescribeRoundTrips` is about the fields that can be spelled (`Spelled`).

## Other deviations met while modelling

No run shows these; the runs that pass leave them out by a stated condition, or
state what remains true.

- The repository's README says of connect()'s level (l. 283) that "a query's own
  CONSISTENCY LEVEL wins", and so does Connection's docstring (`connection.py`
  l. 18). Only the vector-search path and the relational engine read the clause
  (`ast_to_pymilvus.py` l. 1226); the plain query, client-side ORDER BY, aggregates
  and HYBRID SEARCH drop it, and the connection's level is used.
- `activities.py` l. 23 and the Temporal example's README l. 24 say that Temporal
  never runs two attempts of one activity execution concurrently. The
  start-to-close timer (`workflows.py` l. 44) gives an attempt up without stopping
  it, and the retry begins beside it (`TimesOut`): both can look up and insert.
  `OneRowUnlessOutlived` says what is left of the guard then.
- `note_load_state` (`_shared.py` l. 80) "keeps the cache honest". Notes are
  made when answers arrive, in another order than the server applied the
  statements: `HonestUnlessSuspect` excepts names whose unloading overlapped
  another statement.
- A ranking named in ORDER BY is computed once to sort by and again over the
  sorted rows (`relational.py` l. 1645); ROW_NUMBER breaks ties by order of
  appearance, so a descending sort turns the numbers of tied rows round.
- `_flatten_trivial_subquery` (`ast_to_pymilvus.py` l. 841) drops an inner OFFSET,
  and a label of the inner SELECT is asked for as a field.
- An executemany of no sets resets rowcount and leaves lastrowid, rows and
  description of the statement before it (`cursor.py` l. 124); `LastKeyIsOwn`
  excepts it.
- The pad-vector cache (`base.py` l. 295) survives its own process's
  delete_model and create_model; `RefusedOnlyIfRecreated` says that a recreated
  table is the only way for a single-row INSERT to be refused for its pad, other
  than not having been able to ask. An INSERT that `_INSERT_SINGLE_ROW_RE` does not
  match (`bulk_create`, parentheses within VALUES) and executemany are never
  padded, and every padded table refuses them: `base.py` l. 49 says so of batches.
- SQLAlchemy reflects TINYINT as SMALLINT, and has no type for arrays and the
  reduced-precision vectors.
- A RELEASE TABLE by anyone leaves a padded table unqueryable;
  `QueryableUnlessAbandoned` excepts it. A read through the driver may load it
  again, unless its cache says that it is loaded: that is `LoadCache`.
- ADD COLUMN ... NOT NULL is accepted and the column may be NULL.
- A pooled SQLAlchemy connection without a consistency level is reset to
  "Bounded" once its level has been set (`dialect.py` l. 206); that reset is
  SQLAlchemy's and not modelled.

`SelectDispatch!AnswersAreSQL` speaks of the statements whose clauses the path
they take carries through (`Carried`). It leaves out those whose answer is known
to differ: ORDER BY, vector search and HYBRID SEARCH without LIMIT, which stop at
the ceiling; vector searches with OFFSET or DISTINCT, whose LIMIT is spent before
those apply; a distance over a subquery; a flattened subquery that has an OFFSET
or aggregates. It does not leave out the flattening of derived tables that only
filter. No statement has LIMIT 0: what Milvus answers to that is not in the
repository, and an aggregate gives its row whatever LIMIT says.
`SelectDispatch!LevelHonoured` likewise speaks of a CONSISTENCY LEVEL clause only
where it reaches the server (`CarriesLevel`).

The passing run `relational` leaves out the statements on which Polars and SQL
part and no line of the repository takes a side:

- NOT IN where either side has a NULL, or over an empty subquery (`is_in`
  ignores NULLs; the code says of `is_in([])` that it "can yield nulls",
  `relational.py` l. 1995), and a ranking by a column with NULLs, which have
  no rank in Polars;
- a SELECT of literals alone, which is one row in Polars however many rows the
  frame has (`Projected`): `SELECT 1 FROM t GROUP BY k`, and an uncorrelated
  `EXISTS (SELECT 1 FROM t)`, which is therefore true of an empty `t`. A
  correlated one is decorrelated and does not depend on its select list: it is
  in the run, in the forms SQLAlchemy and Django write;
- a correlated EXISTS whose subquery aggregates without GROUP BY, groups by
  another column or has LIMIT 0: the rewrite ignores those.

SUM over no rows is 0 on both sides, because
`tests/unit/translate/select_aggregate/act.py` says so.

## What is proved

`ReadProofs` proves, for every set of integer keys, every ceiling of at
least one and any kind of server, that `PagedRead!Spec` implies `[]TypeOK`,
`[]PagesInOrder`, `[]NothingLost`, and that it implements `CompleteRead`
(`KeepsPromise`). The assumptions are those `PagedRead` declares.

The inductive invariant is `IInv`. `NothingLost` speaks of a read that has
returned, so it says nothing of the pages before; `BehindCursor` supplies what
is missing: on an ordered server every row that has matched since the read
began and whose key is not past the cursor has been gathered. A full page
preserves it because the server leaves out only keys larger than those it
sends, and a short page because it sends all there is; a writer preserves it
because a row it touches is no longer one that matched throughout.
`PagesInOrder` is needed to know that the cursor is the largest key gathered.
`NatSetProofs` holds what is needed about sequences and sets.

`ReadProofs` also proves, for any statements of the shape `SelectDispatch`
declares, any LIMIT but 0, any OFFSET, rows of any number and any ceiling, that
`SelectSpec` implies `[]SelectTypeOK`, `[]AnswersAreSQL` and `[]LevelHonoured`.
A statement is one step, so the invariant is the three
properties and the argument is about the operators. The relational engine applies
DISTINCT, OFFSET and LIMIT in SQL's order (`EngineAppliesClauses`), and asking a
search for LIMIT hits before LIMIT rows are taken changes nothing when nothing is
skipped in between (`FirstTwice`, `RelationalIsSQL`). Each of the other paths
ignores some clauses, and those are absent or idle whenever the dispatch chooses
it: `HybridIsSQL`, `SearchIsSQL`, `AggregateIsSQL` (LIMIT keeps the one row of an
aggregate, and the order of the rows does not matter to it), `QueryIsSQL`. A
flattened subquery means its WHERE (`FlattenedMeaning`), and one that is not is
the engine twice.

`IngestActivityProofs` proves, for any workflows and keys, any number of
attempts and rows, and whether or not RPCs can be slow, that
`IngestActivity!Spec` implies `[]TypeOK`, `[]ResultIsOwnRow` and
`[]OneRowUnlessOutlived`, from the assumptions `IngestActivity` declares. That
a key has one row is far from inductive: an INSERT under way could always add a
second. `IInv` says who may have one under way. While no attempt of a key has
been outlived (followed by another while it, or its INSERT, could still insert),
only the current attempt can insert (`Awaited`) of the one execution that runs
for the key (`Alone`); an attempt has at most one INSERT
under way, none before or after (`Told`, `Fresh`); so an INSERT that leaves
after an empty lookup still finds the key without a row when it is served
(`NoRowYet`), and the row it makes is the only one (`SingleRow`). An attempt may
be told of an error while its INSERT is still to be served, and a crash removes
attempts but nothing they sent; whichever way the next attempt begins, a report
of that error or the timer, `Retry` puts the key in `outlived` if the one before
could still insert.

`LoadCacheProofs` proves, for any cursors, databases and names, with and without
other clients and lost answers, that `LoadCache!Spec` implies `[]TypeOK`,
`[]HonestUnlessSuspect` and `[]RefusedOnlyIfSuspect`. What the cache says now
does not tell what it will say, because an answer is noted some time after the
server gave it. `IInv` therefore covers the notes still to be made
(`NotesTrue`), the reads that left because of the cache (`ReadsLoaded`), and the
reason why a name is in doubt for as long as two statements about it run
together, or one of them was left behind in another database
(`OverlapsDoubted`, `MovedDoubted`): those are the only ways a note can be late.

`UpdateStmtProofs` proves, for any sessions, columns, keys, page sizes, chunk
sizes and number of statements, that `UpdateStmt!Spec` implies `[]TypeOK`,
`[]ExactWhenAlone`, `[]WholeRowsWhenFailed`, `[]UpdatesStay` and
`[]DeletesStay`. `ExactWhenAlone` compares the collection with the one the
statement began with, many RPCs ago. `Exact` follows an undisturbed UPDATE in
between: what it has gathered is what matches up to the page cursor, in key
order, and the collection is the old one with the first `start` gathered rows
laid over it, each at its key or, on an auto_id collection, at the key assigned
to it. That the rows it has written under new keys are not met again rests on
`NoKeyAhead`, and that a row of two writers is one row on `OwnKeys`. `Settling`
and `Burial` say of every session, and not only of those that have ended, that
nothing gathered under level Strong contradicts what is settled or would bring
a deleted row back.

`JoinReadProofs` proves, for statements of any number of joins of any kind, any
WHERE, any finite contents and any bounds, that `JoinRead!Spec` implies
`[]TypeOK`, `[]PlanIsTransparent` and `[]RefusedOnlyIfLarge`. The state part is
short: every read so far is between its conjunct with its keys and its conjunct
alone (`Narrowing`); that a read's keys come from an earlier read keeps this
true of the reads before it. The argument is about the plan. `Agree` says that
after i joins the narrowed reads and the full collections join to the same rows
among those that pass the conjuncts pushed so far and whose restrictions by
reads of later frames are met (`Pending`). It is proved by induction on i
(`AgreeFirst`, `AgreeNext`), with a case for pairs, one for rows kept alone on
the left and one on the right: a restricted frame is on the side whose unmatched
rows the join drops, a pushed conjunct is never on a frame the join extends with
nulls, a null row has no key to be found among the keys of another read, and two
frames never restrict one another because reads are in an order (`ReadOnce`).
After the last join nothing is pending. `RefusedOnlyIfLarge` is an injection,
again by induction on the joins (`ShadowNext`), from the joined rows of the
narrowed reads to those of the full collections.

`DbapiCursorProofs` proves, for any tasks, cursors, workloads, WHERE trees,
readings of a WHERE and bounds, that `DbapiCursor!Spec` implies `[]TypeOK`,
`[]EveryRowGivenOnce`, `[]SetsAppliedInOrder`, `[]CountIsWork` and
`[]LastKeyIsOwn`. The properties speak of calls that have returned. `TaskOK` says
how far a call is that has not: which sets the server has applied when the RPC
of set `at` is on its way and when it has been answered (`Applied`), what the
loop has added up (`Counted`), and whose key the answer carries (`Keyed`).
`CursorOK` says that what is left to fetch continues what has been given.

`TableLifeProofs` proves, for any processes, models, definitions, added columns
and bounds, that `TableLife!Spec` implies `[]TypeOK`,
`[]RefusedOnlyIfRecreated`, `[]QueryableUnlessAbandoned`, `[]RowsFit`,
`[]DescribeRoundTrips` and `[]ReflectionRoundTrips`.
`TableOK` is about `MilvusSchema`: any sequence of CREATE TABLE and ADD FIELD
leaves fields with a Milvus type and names of their own, one of them a vector,
and no pad vector but the one the backend puts there. `KnowsPad` is what the
refusals rest on: what a process remembers about the pad vector is right as long
as the table it asked about, which is identified by its number, is the one there
is. The round trips need to know what a field can be: `FieldOK` says that its
type is one `MapDatatype` produces, with a size exactly where the type has one
and a capacity exactly where it is an array, and that a field and its type have
no part beyond those `Kept` and `KeptType` copy (`Whole`), so that a `Spelled`
field is copied whole (`SpelledKept`). From there they go type by type
through the tables of the code -- the names `DESCRIBE` prints
(`_DESCRIBE_TYPE_NAMES`) and the types a name maps to (`_SCALAR_TYPES`,
`_USERDEFINED_VECTORS`) are independent, and the proof is where they have to
agree (`ScalarMapsBack`, `DenseMapsBack`, `TypeRoundTrips`,
`ReflectedTypeRoundTrips`) -- to one field (`FieldRoundTrips`), and to the whole
table because the copy is made field by field and is not refused (`NotRefused`,
`CopyMade`).

### Assumptions

The theorems use the assumptions declared beside the constants, which TLC
evaluates on every run, and no others. Most are types and bounds. Those that
limit what the theorems are about:

- `TableLife!ColumnsAssumption`: a model and a definition name no column twice,
  a model maps to Milvus fields and its functions to what Milvus computes, and no
  user column has the reserved name of the pad vector. `Unknown` is not an answer about the pad.
- `UpdateStmt!BoundsAssumption`: a page and a chunk have room for a row, a row
  has a column, and a WHERE tests a column or nothing.
- `DbapiCursor!RefusalAssumption`: what the filter renderer raises is an error
  raised before anything is sent. `MCDbapiCursor` gives the constant its value
  from `FilterText`, where this can be evaluated but not proved.
- `SelectDispatch!StatementsAssumption`: a statement has at most one subquery in
  FROM, prices are its only column, and no LIMIT is 0.
- `JoinRead!StatementsAssumption` and `ContentsAssumption`: a join's equality is
  with an earlier frame, an outer join has a condition, and a collection is finite
  when read.

### What proving and rereading changed

- `RefusedOnlyIfLarge` used to be claimed of every statement. No injection exists
  when a FULL join is on a frame an earlier outer join may have left null: of
  `f1 FULL f2 ON k FULL f3 ON f2.k CROSS JOIN f4 JOIN f5 ON f2.k WHERE f5.v ...`
  with one matching row in each of the first three, and f5 filtered to nothing,
  f5 is read first, f2's read becomes empty, and f1 and f3, which f2's row would
  have held together in one joined row, come out as two. The joined rows are
  dropped later either way, so the answer is the same, but the CROSS JOIN in
  between has more rows, and can be refused for them; with `MaxSide = 1` TLC finds
  it too. The property now excepts such statements (`FullOverNulls`).
- `UpdateStmt` took the last chunk to its full length and counted new keys from
  the number of rows; the chunk is now clipped where the code's slice is, and
  counting starts at the largest key.
- `JoinRead` writes the loop over joins as a recursive function, and its orders
  with `InKeyOrder`, so that it can be reasoned about; TLC finds as many states
  as before on the same constants.
- `MilvusSchema` used to find the name `DESCRIBE` prints for a type by searching
  the table of names for one that maps to it, which made the round trip half true
  by definition. The names are now the code's own table.
- `DescribeRoundTrips` and `ReflectionRoundTrips` used to compare a copy with what
  a description keeps of a field. That made the losses part of what was expected;
  they now compare it with the table, for the fields that can be spelled, and
  `describe_lossy` shows the others. What is kept is a lemma of the proof.
- `SelectDispatch!AnswersAreSQL` used to be claimed of every statement, and the
  run was given only those it holds for. Which those are is now part of the
  property, and the run takes them from there.

### What stays with TLC

TLAPS proves no liveness under fairness: `ReadEnds`, `WorkflowEnds`. It cannot
evaluate what a recursive operator computes: all of `RelQuery` and `FilterText`,
whose trees nest to any depth, and with the latter `WhereIsHonoured`, which reaches
`FilterText` through an operator constant: a theorem would have to assume of the
constant what the property says. Every other property of a passing run is a
theorem.

## Not modelled

- Of the relational engine, expressions (arithmetic, LIKE, COALESCE), windowed
  aggregates, SELECT * and the names of result columns. Of SELECT dispatch, the
  shape of result rows and the rejections of `_table_name`.
- Of filters, JSON paths, array functions, MATCH AGAINST and the spelling of
  literals; SHOW statements; WITH properties (shards, partition key, index
  knobs): text in, text or keyword arguments out.
- SQL text compiled by the SQLAlchemy and Django packages, the HYBRID SEARCH
  construct, Alembic, connection pooling: functions of those libraries' trees.
- A chunk of an UPDATE that fails at a deadline and is applied only later, after
  other statements: `UpdateStmt` applies a failed chunk at once or never.
- An auto_id key that no longer exists, sent to upsert: nothing in the
  repository says what Milvus does, so two overlapping UPDATEs of an auto_id
  table are not judged. A USE between two RPCs of one UPDATE sends the rest to
  the same-named collection of another database (`ast_to_pymilvus.py` l. 688);
  `LoadCache` has databases and `UpdateStmt` chunks, and no module has both.

`PROJECT.json` lists every component with its status and every hazard with the
property that covers it or the reason none does.

## Plan

Modelling is done but for what the last section names. Left:

1. UPDATE composed with the load cache: USE in the middle of a chain.
2. `RelQuery` with its trees as functions over their nodes instead of recursive
   operators, which would bring `TypeOK` and `MentionsReadOnce` within reach of a
   proof.
