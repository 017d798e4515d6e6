----------------------------- MODULE TableLife -----------------------------
(***************************************************************************)
(* The life of one table: Django processes that create, drop, alter and    *)
(* fill it through the Django backend (schema.py, base.py), and a client   *)
(* that uses SQL or SQLAlchemy.  create_model runs up to three statements, *)
(* and an INSERT first asks, or remembers, whether the table has the       *)
(* hidden pad vector; a process can fail or die between any two of them.   *)
(* Milvus is external: it refuses what its schema does not take, a LOAD    *)
(* without an index on every vector, and any RPC it cannot be reached for. *)
(***************************************************************************)
EXTENDS MilvusSchema, FiniteSets

CONSTANTS
  Processes,     \* Django processes: one DatabaseWrapper, one connection each
  Models,        \* columns of a Django model, as _column_definition writes them
  Definitions,   \* CREATE TABLE statements of the other client
  AddedColumns,  \* columns ALTER TABLE and add_field may add
  Unknown,       \* what a process remembers of a table it has not asked about
  MaxTables,     \* bound: times the table is created
  MaxRows        \* bound: rows it holds

ASSUME BoundsAssumption == MaxTables \in Nat /\ MaxRows \in Nat
ASSUME UnknownAssumption == Unknown \notin BOOLEAN

Pad == "_milvusql_pad_vector"

\* No table: a schema has a field, CREATE TABLE sees to it.
Absent == <<>>

VARIABLES
  fields,    \* the table's schema, Absent where there is no table
  indexed,   \* the vector fields with an index
  loaded,    \* it is loaded
  rows,      \* its rows: the names each has a value for
  created,   \* how many tables of this name there have been
  pc,        \* pc[d]: "idle", "index", "load" (the next statement of
             \* create_model) or "insert" (it knows whether to pad)
  padding,   \* padding[d]: d's INSERT carries the pad vector
  cache,     \* cache[d]: _pad_vector_cache: TRUE, FALSE or Unknown
  checking,  \* the other client found no table and is about to create it
  making,    \* history: the table create_model[d] is creating
  described, \* history: the table d's knowledge is about, 0 if it could not ask
  abandoned, \* history: tables a create_model failed or died on, or released
  refused    \* history: refused[d]: the form of d's last INSERT if it was refused
             \* for its pad, else "no"

table == <<fields, indexed, loaded, rows, created>>
vars == <<fields, indexed, loaded, rows, created, pc, padding, cache, checking,
          making, described, abandoned, refused>>

There == fields # Absent
Names(fs) == {f.name : f \in ToSet(fs)}
Has(name) == There /\ name \in Names(fields)
VectorNames == {f.name : f \in {g \in ToSet(fields) : g.type.type \in VectorTypes}}
Filled == {f.name : f \in {g \in ToSet(fields) : g.auto \/ g.source # ""}}
Required == {f.name : f \in {g \in ToSet(fields) : ~g.nullable}} \ Filled

-----------------------------------------------------------------------------
(* Milvus.                                                                 *)

CreateCollection(fs) ==
  /\ fields' = fs
  /\ created' = created + 1
  /\ indexed' = {}
  /\ loaded' = FALSE
  /\ rows' = {}

DropCollection ==
  /\ fields' = Absent
  /\ indexed' = {}
  /\ loaded' = FALSE
  /\ rows' = {}
  /\ UNCHANGED created

\* An INSERT that gives these columns.
Accepts(given) == There /\ Required \subseteq given /\ given \subseteq Names(fields) \ Filled

Store(given) ==
  /\ Cardinality(rows) < MaxRows \/ given \cup Filled \in rows
  /\ rows' = rows \cup {given \cup Filled}
  /\ UNCHANGED <<fields, indexed, loaded, created>>

AddField(c) == fields' = AlterAddField(fields, c)

-----------------------------------------------------------------------------
(* schema.py                                                               *)

PadColumn == Column(Pad, Type("VECTOR", 2, <<>>))
NeedsPad(model) == \A c \in ToSet(model) : MapDatatype(c.type).type # "FLOAT_VECTOR"

\* create_model's CREATE TABLE.
ModelTable(model) ==
  CreateTable(Definition(IF NeedsPad(model) THEN Append(model, PadColumn) ELSE model, {}))

\* Columns of one table have names of their own, and none has the pad vector's,
\* which is the backend's own.
WellNamed(cs) ==
  /\ Len(cs) \in Nat /\ cs = [i \in 1..Len(cs) |-> cs[i]]
  /\ \A i, k \in DOMAIN cs : cs[i].name = cs[k].name => i = k
  /\ \A i \in DOMAIN cs : cs[i].name # Pad

\* A model's columns have types Milvus has, and functions it computes.
ASSUME ColumnsAssumption ==
  /\ \A model \in Models :
       WellNamed(model) /\ ModelTable(model) # Refused /\ FunctionsFit(ModelTable(model))
  /\ \A def \in Definitions : WellNamed(def.columns)
  /\ \A c \in AddedColumns : c.name # Pad

Go(d, step) == pc' = [pc EXCEPT ![d] = step]

\* A statement of create_model raises; nothing is rolled back.
Abandon(d) ==
  /\ abandoned' = IF pc[d] \in {"index", "load"} THEN abandoned \cup {making[d]} ELSE abandoned
  /\ Go(d, "idle")

\* A model without a vector goes on to CREATE INDEX and LOAD, except under
\* collect_sql.
CreateModel(d) ==
  /\ pc[d] = "idle"
  /\ ~There
  /\ created < MaxTables
  /\ \E model \in Models :
       /\ CreateCollection(ModelTable(model))
       /\ Go(d, IF NeedsPad(model) THEN "index" ELSE "idle")
  /\ making' = [making EXCEPT ![d] = created']
  /\ UNCHANGED <<padding, cache, checking, described, abandoned, refused>>

\* Fault: create_index_and_load does not load.
AfterIndexIdle(d) == Go(d, "idle")
AfterIndex(d) == Go(d, "load")

\* create_index_and_load: CREATE INDEX on the pad vector ...
CreateIndex(d) ==
  /\ pc[d] = "index"
  /\ Has(Pad)
  /\ indexed' = indexed \cup {Pad}
  /\ AfterIndex(d)
  /\ UNCHANGED <<fields, loaded, rows, created, padding, cache, checking, making, described,
                 abandoned, refused>>

\* ... and LOAD TABLE.
LoadTable(d) ==
  /\ pc[d] = "load"
  /\ There
  /\ VectorNames \subseteq indexed
  /\ loaded' = TRUE
  /\ Go(d, "idle")
  /\ UNCHANGED <<fields, indexed, rows, created, padding, cache, checking, making, described,
                 abandoned, refused>>

DeleteModel(d) ==
  /\ pc[d] = "idle"
  /\ There
  /\ DropCollection
  /\ UNCHANGED <<pc, padding, cache, checking, making, described, abandoned, refused>>

\* add_field, and the other client's ALTER TABLE.
AlterTable ==
  /\ There
  /\ \E c \in AddedColumns : c.name \notin Names(fields) /\ AddField(c)
  /\ UNCHANGED <<indexed, loaded, rows, created, pc, padding, cache, checking, making, described,
                 abandoned, refused>>

-----------------------------------------------------------------------------
(* base.py                                                                 *)

\* Fault: a DESCRIBE that fails is remembered as an answer.
RememberFailure(known, answer) == answer = TRUE

\* _table_needs_pad_vector remembers what it was told, not that it could not ask.
Remember(known, answer) == IF answer = Unknown THEN known ELSE answer

\* _pad_insert of a single-row INSERT: the cache, or one DESCRIBE, which fails
\* where there is no table or no server; nothing is padded then.
BeginInsert(d) ==
  /\ pc[d] = "idle"
  /\ \E answer \in {Unknown} \cup (IF There THEN {Has(Pad)} ELSE {}) :
       IF cache[d] # Unknown
       THEN padding' = [padding EXCEPT ![d] = cache[d]] /\ UNCHANGED <<cache, described>>
       ELSE /\ padding' = [padding EXCEPT ![d] = (answer = TRUE)]
            /\ cache' = [cache EXCEPT ![d] = Remember(@, answer)]
            /\ described' = [described EXCEPT ![d] = IF cache'[d] = Unknown THEN 0 ELSE created]
  /\ Go(d, "insert")
  /\ refused' = [refused EXCEPT ![d] = "no"]
  /\ UNCHANGED <<table, checking, making, abandoned>>

\* An INSERT of a model whose columns are the table's: only the pad can be wrong.
ModelColumns == (Names(fields) \ Filled) \ {Pad}
Send(d, form, given) ==
  /\ There
  /\ IF Accepts(given) THEN Store(given) /\ refused' = [refused EXCEPT ![d] = "no"]
     ELSE refused' = [refused EXCEPT ![d] = form] /\ UNCHANGED table
  /\ Go(d, "idle")
  /\ UNCHANGED <<padding, cache, checking, making, described, abandoned>>

\* A single-row INSERT, padded or not.
Insert(d) ==
  /\ pc[d] = "insert"
  /\ Send(d, "single", IF padding[d] THEN ModelColumns \cup {Pad} ELSE ModelColumns)

\* An INSERT _INSERT_SINGLE_ROW_RE does not match (several rows, parentheses in
\* the VALUES), or of executemany: nothing is asked, it goes out as it is.
InsertUnmatched(d) ==
  /\ pc[d] = "idle"
  /\ Send(d, "unmatched", ModelColumns)

-----------------------------------------------------------------------------
(* Faults, and the other client.                                           *)

\* The statement under way fails: no server, or no table or field.
StatementFails(d) ==
  /\ pc[d] # "idle"
  /\ Abandon(d)
  /\ UNCHANGED <<table, padding, cache, checking, making, described, refused>>

\* The process dies and is started again.
Restart(d) ==
  /\ Abandon(d)
  /\ cache' = [cache EXCEPT ![d] = Unknown]
  /\ UNCHANGED <<table, padding, checking, making, described, refused>>

\* SQLAlchemy's create_all: has_table, then CREATE TABLE if there was none.
HasTable ==
  /\ ~checking
  /\ ~There
  /\ checking' = TRUE
  /\ UNCHANGED <<table, pc, padding, cache, making, described, abandoned, refused>>

CreateAll ==
  /\ checking
  /\ checking' = FALSE
  /\ \/ /\ ~There
        /\ created < MaxTables
        /\ \E def \in Definitions :
             /\ CreateTable(def) # Refused /\ FunctionsFit(CreateTable(def))
             /\ CreateCollection(CreateTable(def))
     \/ UNCHANGED table
  /\ UNCHANGED <<pc, padding, cache, making, described, abandoned, refused>>

DropTable ==
  /\ There
  /\ DropCollection
  /\ UNCHANGED <<pc, padding, cache, checking, making, described, abandoned, refused>>

\* RELEASE TABLE: nobody can query the table until it is loaded again.
ReleaseTable ==
  /\ loaded
  /\ loaded' = FALSE
  /\ abandoned' = abandoned \cup {created}
  /\ UNCHANGED <<fields, indexed, rows, created, pc, padding, cache, checking, making, described,
                 refused>>

InsertRow ==
  /\ There
  /\ \E given \in {Required, Names(fields) \ Filled} : Accepts(given) /\ Store(given)
  /\ UNCHANGED <<pc, padding, cache, checking, making, described, abandoned, refused>>

Init ==
  /\ fields = Absent
  /\ indexed = {}
  /\ loaded = FALSE
  /\ rows = {}
  /\ created = 0
  /\ pc = [d \in Processes |-> "idle"]
  /\ padding = [d \in Processes |-> FALSE]
  /\ cache = [d \in Processes |-> Unknown]
  /\ checking = FALSE
  /\ making = [d \in Processes |-> 0]
  /\ described = [d \in Processes |-> 0]
  /\ abandoned = {}
  /\ refused = [d \in Processes |-> "no"]

Next ==
  \/ \E d \in Processes :
       \/ CreateModel(d) \/ CreateIndex(d) \/ LoadTable(d) \/ DeleteModel(d)
       \/ BeginInsert(d) \/ Insert(d) \/ InsertUnmatched(d)
       \/ StatementFails(d) \/ Restart(d)
  \/ AlterTable \/ HasTable \/ CreateAll \/ DropTable \/ ReleaseTable \/ InsertRow

Spec == Init /\ [][Next]_vars

-----------------------------------------------------------------------------
TypeOK ==
  /\ There => /\ \A i \in DOMAIN fields : fields[i].type.type # "none"
              /\ \A i, k \in DOMAIN fields : fields[i].name = fields[k].name => i = k
              /\ VectorNames # {} /\ indexed \subseteq VectorNames
  /\ ~There => indexed = {} /\ ~loaded /\ rows = {}
  /\ created \in 0..MaxTables /\ loaded \in BOOLEAN /\ checking \in BOOLEAN
  /\ pc \in [Processes -> {"idle", "index", "load", "insert"}]
  /\ \A d \in Processes : cache[d] = Unknown \/ cache[d] \in BOOLEAN
  /\ padding \in [Processes -> BOOLEAN] /\ refused \in [Processes -> {"no", "single", "unmatched"}]
  /\ making \in [Processes -> 0..MaxTables] /\ described \in [Processes -> 0..MaxTables]
  /\ abandoned \in SUBSET (1..MaxTables)

\* base.py: the answer cached for a table "cannot change without a DROP
\* TABLE/CREATE TABLE".  A process's single-row INSERT is refused for the pad
\* vector only if it could not ask about the table, or the table it asked about
\* is gone.  An INSERT of any other form is refused by every padded table, and
\* nothing is claimed of it.
RefusedOnlyIfRecreated ==
  \A d \in Processes : refused[d] = "single" => described[d] < created

\* schema.py: a padded table indexes and loads itself.  One that cannot be
\* queried is still being created, or a create_model failed or died on it, or
\* someone has released it.
QueryableUnlessAbandoned ==
  LET underWay(d) == pc[d] \in {"index", "load"} /\ making[d] = created IN
  Has(Pad) /\ created \notin abandoned /\ (\A d \in Processes : ~underWay(d)) => loaded

\* Every row has a value for every field that must have one, fields added
\* after it included.
RowsFit == There => \A r \in rows : Required \subseteq r

\* A field whose description says all of it: no analyzer, no array of strings
\* shorter than the longest, no vector that may be NULL (one added later).
Spelled(f) ==
  /\ ~f.type.analyzed
  /\ f.type.elem = "VARCHAR" => f.type.size = MaxLength
  /\ f.type.type \in VectorTypes => ~f.nullable

\* ast_to_pymilvus.py: DESCRIBE's output "round-trips into CREATE TABLE unchanged".
DescribeUnchanged ==
  There => CreateTable(FromDescription(fields)) = fields

\* It does if every field is one that DESCRIBE and CREATE TABLE can spell: who
\* writes the table down from its description creates it again as it was,
\* capacities, dimensions, nullability, keys and generated columns included.
DescribeRoundTrips ==
  There /\ (\A f \in ToSet(fields) : Spelled(f)) => CreateTable(FromDescription(fields)) = fields

\* SQLAlchemy has no TINYINT.
Widened(m) == IF m.type = "INT8" THEN MilvusType("INT16", m.size, m.cap, m.elem, m.analyzed) ELSE m
Wider(f) == Field(f.name, Widened(f.type), f.nullable, f.primary, f.auto, f.source)

\* A table that SQLAlchemy reflects and creates again takes the rows the first
\* one took (INT8 has become INT16, nothing else has changed), if every field is
\* one that can be spelled, has a type in SQLAlchemy and is not generated.
ReflectionRoundTrips ==
  There /\ (\A f \in ToSet(fields) :
              Spelled(f) /\ ReflectType(f.type).sql # "NULL" /\ f.source = "") =>
    CreateTable(FromReflection(fields)) = [i \in DOMAIN fields |-> Wider(fields[i])]
=============================================================================
