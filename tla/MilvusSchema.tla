---------------------------- MODULE MilvusSchema ----------------------------
(***************************************************************************)
(* Column definitions and collection schemas: what CREATE TABLE and ALTER  *)
(* TABLE make of a column (ast_to_pymilvus.py), what DESCRIBE and          *)
(* SQLAlchemy's reflection say of a schema, and the CREATE TABLE that each *)
(* of the two leads back to.                                               *)
(***************************************************************************)
EXTENDS Integers, Sequences, SequencesExt

\* A column as parsed: its type, with size 0 and no elem where none is written;
\* primary and auto for PRIMARY KEY and AUTO_INCREMENT, source for the column
\* of AS (BM25(...)), "" without one.
Type(sql, size, elem) == [sql |-> sql, size |-> size, elem |-> elem]
Column(name, type) ==
  [name |-> name, type |-> type, notNull |-> FALSE, primary |-> FALSE,
   auto |-> FALSE, source |-> ""]

\* CREATE TABLE: its columns, and the names of a PRIMARY KEY (...) constraint.
Definition(columns, keys) == [columns |-> columns, keys |-> keys]

Refused == <<>>

\* A field's type: size is the length of a VARCHAR (of an array's elements) or
\* the dimension of a vector, cap and elem are an array's max_capacity and
\* element_type, analyzed is enable_analyzer.
MilvusType(type, size, cap, elem, analyzed) ==
  [type |-> type, size |-> size, cap |-> cap, elem |-> elem, analyzed |-> analyzed]
Plain(type, size) == MilvusType(type, size, 0, "", FALSE)
Unmapped == Plain("none", 0)

-----------------------------------------------------------------------------
(* ast_to_pymilvus.py: CREATE TABLE                                        *)

Scalars == [TINYINT |-> "INT8", SMALLINT |-> "INT16", INT |-> "INT32", MEDIUMINT |-> "INT32",
            BIGINT |-> "INT64", FLOAT |-> "FLOAT", DOUBLE |-> "DOUBLE", BOOLEAN |-> "BOOL",
            JSON |-> "JSON"]
Vectors == [VECTOR |-> "FLOAT_VECTOR", BINARYVEC |-> "BINARY_VECTOR",
            FLOAT16VEC |-> "FLOAT16_VECTOR", BFLOAT16VEC |-> "BFLOAT16_VECTOR",
            INT8VEC |-> "INT8_VECTOR"]
VectorTypes == {Vectors[v] : v \in DOMAIN Vectors} \cup {"SPARSE_FLOAT_VECTOR"}
MaxLength == 65535
DefaultArrayCapacity == 4096

Sized(size, default) == IF size = 0 THEN default ELSE size

\* _map_datatype of a type that is no array; Unmapped where it raises.
MapSimple(sql, size) ==
  CASE sql = "VARCHAR" -> Plain("VARCHAR", Sized(size, MaxLength))
    [] sql = "TEXT" -> MilvusType("VARCHAR", MaxLength, 0, "", TRUE)
    [] sql = "SPARSEVEC" -> Plain("SPARSE_FLOAT_VECTOR", 0)
    [] sql \in DOMAIN Vectors /\ size # 0 -> Plain(Vectors[sql], size)
    [] sql \in DOMAIN Scalars -> Plain(Scalars[sql], 0)
    [] OTHER -> Unmapped

\* _map_datatype: arrays hold scalars only.
MapDatatype(ty) ==
  IF ty.sql # "ARRAY" THEN MapSimple(ty.sql, ty.size)
  ELSE IF ty.elem = <<>> THEN Unmapped
  ELSE LET e == MapSimple(ty.elem[1].sql, ty.elem[1].size) IN
       IF e.type \in VectorTypes \cup {"none"} THEN Unmapped
       ELSE MilvusType("ARRAY", e.size, Sized(ty.size, DefaultArrayCapacity), e.type, e.analyzed)

Field(name, type, nullable, primary, auto, source) ==
  [name |-> name, type |-> type, nullable |-> nullable, primary |-> primary,
   auto |-> auto, source |-> source]

\* One round of _build_create_table's loop: add_field.
ToField(c, keys) ==
  LET primary == c.primary \/ c.name \in keys
      type == MapDatatype(c.type)
  IN Field(c.name, type, ~primary /\ ~c.notNull /\ type.type \notin VectorTypes,
           primary, c.auto, c.source)

\* Fault: tables without a vector pass.
CreateTableVectorless(def) ==
  IF \E c \in ToSet(def.columns) : MapDatatype(c.type) = Unmapped THEN Refused
  ELSE [i \in DOMAIN def.columns |-> ToField(def.columns[i], def.keys)]

\* _build_create_table: every type must map, some column must be a vector, and
\* BM25 generates a SPARSEVEC.
CreateTable(def) ==
  LET types == {MapDatatype(c.type).type : c \in ToSet(def.columns)} IN
  IF \/ "none" \in types
     \/ types \cap VectorTypes = {}
     \/ \E c \in ToSet(def.columns) :
          c.source # "" /\ MapDatatype(c.type).type # "SPARSE_FLOAT_VECTOR"
  THEN Refused
  ELSE [i \in DOMAIN def.columns |-> ToField(def.columns[i], def.keys)]

\* Milvus computes BM25 from a text it analyzes, and refuses any other source.
FunctionsFit(fields) ==
  \A f \in ToSet(fields) : f.source # "" =>
    \E g \in ToSet(fields) : g.name = f.source /\ g.type.type = "VARCHAR" /\ g.type.analyzed

\* Fault: ADD FIELD keeps NOT NULL.
AlterAddFieldNotNull(fields, c) ==
  Append(fields, Field(c.name, MapDatatype(c.type), ~c.notNull, FALSE, FALSE, ""))

\* _build_alter_add_field: the type and nullable, whatever else is written.
AlterAddField(fields, c) ==
  IF MapDatatype(c.type) = Unmapped THEN fields
  ELSE Append(fields, Field(c.name, MapDatatype(c.type), TRUE, FALSE, FALSE, ""))

-----------------------------------------------------------------------------
(* ast_to_pymilvus.py: DESCRIBE                                            *)

SqlNames == [INT8 |-> "TINYINT", INT16 |-> "SMALLINT", INT32 |-> "INT", INT64 |-> "BIGINT",
             FLOAT |-> "FLOAT", DOUBLE |-> "DOUBLE", BOOL |-> "BOOLEAN", JSON |-> "JSON",
             VARCHAR |-> "VARCHAR", FLOAT_VECTOR |-> "VECTOR", SPARSE_FLOAT_VECTOR |-> "SPARSEVEC",
             BINARY_VECTOR |-> "BINARYVEC", FLOAT16_VECTOR |-> "FLOAT16VEC",
             BFLOAT16_VECTOR |-> "BFLOAT16VEC", INT8_VECTOR |-> "INT8VEC"]

\* Fault: an array's capacity is not printed.
DescribeTypeNoCapacity(m) ==
  CASE m.type = "ARRAY" -> Type("ARRAY", 0, <<Type(SqlNames[m.elem], 0, <<>>)>>)
    [] m.type = "SPARSE_FLOAT_VECTOR" -> Type(SqlNames[m.type], 0, <<>>)
    [] OTHER -> Type(SqlNames[m.type], m.size, <<>>)

\* _describe_type_text, read back as a type.
DescribeType(m) ==
  CASE m.type = "ARRAY" -> Type("ARRAY", m.cap, <<Type(SqlNames[m.elem], 0, <<>>)>>)
    [] m.type = "SPARSE_FLOAT_VECTOR" -> Type(SqlNames[m.type], 0, <<>>)
    [] OTHER -> Type(SqlNames[m.type], m.size, <<>>)

\* _describe_rows: Field, Type, Null, Key and Extra.
DescribeRow(f) ==
  [name |-> f.name, type |-> DescribeType(f.type), null |-> f.nullable, key |-> f.primary,
   auto |-> f.auto, generated |-> f.source]

\* The CREATE TABLE a reader of DESCRIBE's rows would write.
FromDescription(fields) ==
  Definition([i \in DOMAIN fields |->
                LET r == DescribeRow(fields[i]) IN
                [name |-> r.name, type |-> r.type, notNull |-> ~r.null, primary |-> r.key,
                 auto |-> r.auto, source |-> r.generated]], {})

-----------------------------------------------------------------------------
(* milvusql_sqlalchemy: reflection.py and compiler.py                      *)

\* Fault: every reflected column may be NULL.
ReflectNullable(f) == [name |-> f.name, type |-> f.type, nullable |-> TRUE, primary |-> f.primary,
                       auto |-> f.auto]

\* columns_from_description and pk_constraint_from_description.
Reflect(f) == [name |-> f.name, type |-> f.type, nullable |-> f.nullable, primary |-> f.primary,
               auto |-> f.auto]

\* _TYPE_MAP and _column_type, as the type compiler spells the result;
\* NullType has no spelling.
ReflectType(m) ==
  CASE m.type = "INT8" -> Type("SMALLINT", 0, <<>>)
    [] m.type \in {"INT16", "INT32", "INT64", "FLOAT", "DOUBLE", "BOOL", "JSON", "VARCHAR",
                   "FLOAT_VECTOR", "SPARSE_FLOAT_VECTOR"} -> DescribeType(m)
    [] OTHER -> Type("NULL", 0, <<>>)

\* get_column_specification: PRIMARY KEY and AUTO_INCREMENT stay on the column.
FromReflection(fields) ==
  Definition([i \in DOMAIN fields |->
                LET r == Reflect(fields[i]) IN
                [name |-> r.name, type |-> ReflectType(r.type), notNull |-> ~r.nullable,
                 primary |-> r.primary, auto |-> r.auto, source |-> ""]], {})
=============================================================================
