--------------------------- MODULE TableLifeProofs ---------------------------
(***************************************************************************)
(* Proofs about TableLife, for any processes, models, definitions, added   *)
(* columns and bounds.  The inductive invariant IInv adds to the           *)
(* properties what a schema that CREATE TABLE and ADD FIELD made looks     *)
(* like (TableOK, and FieldOK of each field), and what a process knows of  *)
(* the table: the answer it remembers is right for as long as the table it *)
(* asked about is the one that is there (KnowsPad).  FieldOK also carries  *)
(* the round trips, which go through the types one by one: a copy has what *)
(* Kept and KeptType keep of a field, which is all of it where the field   *)
(* is Spelled.                                                             *)
(***************************************************************************)
EXTENDS TableLife, SequenceTheorems, TLAPS

\* Only the backend makes a pad vector, which is a vector that has to be given.
PadField(f) ==
  f.name = Pad => f.type.type \in VectorTypes /\ ~f.auto /\ f.source = "" /\ ~f.nullable

\* What the types are that CREATE TABLE and ADD FIELD make of a column.
ScalarTypes == {"INT8", "INT16", "INT32", "INT64", "FLOAT", "DOUBLE", "BOOL", "JSON"}
DenseTypes == {"FLOAT_VECTOR", "BINARY_VECTOR", "FLOAT16_VECTOR", "BFLOAT16_VECTOR", "INT8_VECTOR"}

\* A type that is no array: of Milvus's, with a size where it has one.
SimpleType(m) ==
  /\ m.type \in ScalarTypes \cup VectorTypes \cup {"VARCHAR"} /\ m.cap = 0 /\ m.elem = ""
  /\ m.size = 0 <=> m.type \in ScalarTypes \cup {"SPARSE_FLOAT_VECTOR"}

\* An array, which has a capacity and holds scalars.
ArrayType(m) ==
  /\ m.type = "ARRAY" /\ m.cap # 0 /\ m.elem \in ScalarTypes \cup {"VARCHAR"}
  /\ m.elem # "VARCHAR" => m.size = 0

\* A type has these parts and no other.
Whole(m) == m = MilvusType(m.type, m.size, m.cap, m.elem, m.analyzed) /\ m.analyzed \in BOOLEAN

Made(m) == (SimpleType(m) \/ ArrayType(m)) /\ Whole(m)

\* A field that CREATE TABLE or ADD FIELD made.
FieldOK(f) ==
  /\ f = Field(f.name, f.type, f.nullable, f.primary, f.auto, f.source)
  /\ Made(f.type)
  /\ f.nullable \in BOOLEAN /\ f.primary \in BOOLEAN /\ (f.primary => ~f.nullable)
  /\ f.source # "" => f.type.type = "SPARSE_FLOAT_VECTOR"

\* What a description keeps of a type: not the analyzer, nor an array's elements'
\* length; and of a field, whose type becomes this one: not that a vector may be NULL.
KeptType(m) ==
  MilvusType(m.type, IF m.elem = "VARCHAR" THEN MaxLength ELSE m.size, m.cap, m.elem, FALSE)
Kept(f, type) ==
  Field(f.name, type, f.nullable /\ f.type.type \notin VectorTypes, f.primary, f.auto, f.source)

\* s is a sequence, of whatever its members are.
List(s) == s = [i \in 1..Len(s) |-> s[i]] /\ Len(s) \in Nat

\* A list of such fields, each with a name of its own.
Fields(fs) ==
  /\ List(fs)
  /\ \A i \in DOMAIN fs : FieldOK(fs[i])
  /\ \A i, k \in DOMAIN fs : fs[i].name = fs[k].name => i = k

\* The table: a schema that CREATE TABLE and ADD FIELD made, with the index and
\* the rows it can have; nothing is left where there is no table.
TableOK ==
  /\ There => /\ Fields(fields) /\ VectorNames # {} /\ indexed \subseteq VectorNames
              /\ \A f \in ToSet(fields) : PadField(f)
              /\ created > 0
  /\ ~There => indexed = {} /\ ~loaded /\ rows = {}
  /\ created \in 0..MaxTables /\ loaded \in BOOLEAN

Refusals == {"no", "single", "unmatched"}

\* The processes.
ProcessesOK ==
  /\ pc \in [Processes -> {"idle", "index", "load", "insert"}]
  /\ padding \in [Processes -> BOOLEAN] /\ refused \in [Processes -> Refusals]
  /\ cache \in [Processes -> BOOLEAN \cup {Unknown}]
  /\ making \in [Processes -> 0..MaxTables] /\ described \in [Processes -> 0..MaxTables]
  /\ checking \in BOOLEAN /\ abandoned \in SUBSET (1..MaxTables)
  /\ \A d \in Processes : pc[d] \in {"index", "load"} => making[d] > 0

\* What a process knows of the table is about one that there has been, and right
\* if that is the one there is.
KnowsPad ==
  \A d \in Processes :
    /\ described[d] <= created
    /\ There /\ described[d] = created =>
         /\ cache[d] # Unknown => cache[d] = Has(Pad)
         /\ pc[d] = "insert" => padding[d] = Has(Pad)

IInv ==
  TableOK /\ ProcessesOK /\ KnowsPad /\ RefusedOnlyIfRecreated /\ QueryableUnlessAbandoned /\ RowsFit

-----------------------------------------------------------------------------
(* MilvusSchema: what CREATE TABLE and ADD FIELD make.                     *)

LEMMA VectorTypesAre ==
  /\ VectorTypes = {"FLOAT_VECTOR", "BINARY_VECTOR", "FLOAT16_VECTOR", "BFLOAT16_VECTOR",
                    "INT8_VECTOR", "SPARSE_FLOAT_VECTOR"}
  /\ "none" \notin VectorTypes
<1>1. DOMAIN Vectors = {"VECTOR", "BINARYVEC", "FLOAT16VEC", "BFLOAT16VEC", "INT8VEC"}
  BY DEF Vectors
<1>2. {Vectors[v] : v \in DOMAIN Vectors} =
        {"FLOAT_VECTOR", "BINARY_VECTOR", "FLOAT16_VECTOR", "BFLOAT16_VECTOR", "INT8_VECTOR"}
  BY <1>1 DEF Vectors
<1> QED BY <1>2 DEF VectorTypes

\* The types that the SQL types map to.
LEMMA ScalarNames ==
  \A sql \in DOMAIN Scalars : Scalars[sql] \in ScalarTypes
  BY DEF Scalars, ScalarTypes
LEMMA VectorNamesMap ==
  \A sql \in DOMAIN Vectors : Vectors[sql] \in DenseTypes
  BY DEF Vectors, DenseTypes

LEMMA TypeFields ==
  ASSUME NEW t, NEW s, NEW c, NEW e, NEW a
  PROVE  LET m == MilvusType(t, s, c, e, a) IN
         m.type = t /\ m.size = s /\ m.cap = c /\ m.elem = e /\ m.analyzed = a
  BY DEF MilvusType

LEMMA SimpleFits ==
  ASSUME NEW m, NEW t, NEW s, NEW a \in BOOLEAN, m = MilvusType(t, s, 0, "", a),
         \/ t \in ScalarTypes \cup {"SPARSE_FLOAT_VECTOR"} /\ s = 0
         \/ t \in DenseTypes \cup {"VARCHAR"} /\ s # 0
  PROVE  SimpleType(m) /\ Whole(m)
<1>1. m.type = t /\ m.size = s /\ m.cap = 0 /\ m.elem = "" /\ m.analyzed = a
  BY DEF MilvusType
<1>2. t \in ScalarTypes \cup VectorTypes \cup {"VARCHAR"}
  BY VectorTypesAre DEF DenseTypes
<1>3. t \in DenseTypes \cup {"VARCHAR"} => t \notin ScalarTypes \cup {"SPARSE_FLOAT_VECTOR"}
  BY DEF DenseTypes, ScalarTypes
<1> HIDE DEF ScalarTypes, DenseTypes
<1>4. m.size = 0 <=> m.type \in ScalarTypes \cup {"SPARSE_FLOAT_VECTOR"}
  BY <1>1, <1>3
<1>5. Whole(m)
  BY <1>1 DEF Whole
<1> QED BY <1>1, <1>2, <1>4, <1>5 DEF SimpleType

\* MapSimple, arm by arm.
LEMMA GuardsDisjoint ==
  /\ \A sql \in {"VARCHAR", "TEXT", "SPARSEVEC"} : sql \notin DOMAIN Vectors /\ sql \notin DOMAIN Scalars
  /\ \A sql \in DOMAIN Vectors : sql \notin DOMAIN Scalars
<1>1. \A sql \in {"VARCHAR", "TEXT", "SPARSEVEC"} : sql \notin DOMAIN Vectors
  BY DEF Vectors
<1>2. \A sql \in {"VARCHAR", "TEXT", "SPARSEVEC"} : sql \notin DOMAIN Scalars
  BY DEF Scalars
<1>3. \A sql \in DOMAIN Vectors : sql \notin DOMAIN Scalars
  BY DEF Vectors, Scalars
<1> QED BY <1>1, <1>2, <1>3

LEMMA SimpleArms ==
  ASSUME NEW sql, NEW size
  PROVE  /\ sql = "VARCHAR" => MapSimple(sql, size) = Plain("VARCHAR", Sized(size, MaxLength))
         /\ sql = "TEXT" => MapSimple(sql, size) = MilvusType("VARCHAR", MaxLength, 0, "", TRUE)
         /\ sql = "SPARSEVEC" => MapSimple(sql, size) = Plain("SPARSE_FLOAT_VECTOR", 0)
         /\ sql \in DOMAIN Vectors /\ size # 0 => MapSimple(sql, size) = Plain(Vectors[sql], size)
         /\ sql \in DOMAIN Scalars => MapSimple(sql, size) = Plain(Scalars[sql], 0)
         /\ \/ sql \in {"VARCHAR", "TEXT", "SPARSEVEC"} \/ sql \in DOMAIN Scalars
            \/ sql \in DOMAIN Vectors /\ size # 0
            \/ MapSimple(sql, size) = Unmapped
<1> DEFINE vector == sql \in DOMAIN Vectors /\ size # 0
           scalar == sql \in DOMAIN Scalars
<1>1. MapSimple(sql, size) =
        CASE sql = "VARCHAR" -> Plain("VARCHAR", Sized(size, MaxLength))
          [] sql = "TEXT" -> MilvusType("VARCHAR", MaxLength, 0, "", TRUE)
          [] sql = "SPARSEVEC" -> Plain("SPARSE_FLOAT_VECTOR", 0)
          [] vector -> Plain(Vectors[sql], size)
          [] scalar -> Plain(Scalars[sql], 0)
          [] OTHER -> Unmapped
  BY DEF MapSimple
<1>2. sql \in {"VARCHAR", "TEXT", "SPARSEVEC"} => ~vector /\ ~scalar
  BY GuardsDisjoint
<1>3. ~(vector /\ scalar)
  BY GuardsDisjoint
<1> HIDE DEF vector, scalar
<1>4. ASSUME sql = "VARCHAR" PROVE MapSimple(sql, size) = Plain("VARCHAR", Sized(size, MaxLength))
  <2>1. sql # "TEXT" /\ sql # "SPARSEVEC" /\ ~vector /\ ~scalar
    BY <1>2, <1>4
  <2> QED BY <1>1, <1>4, <2>1
<1>5. ASSUME sql = "TEXT" PROVE MapSimple(sql, size) = MilvusType("VARCHAR", MaxLength, 0, "", TRUE)
  <2>1. sql # "VARCHAR" /\ sql # "SPARSEVEC" /\ ~vector /\ ~scalar
    BY <1>2, <1>5
  <2> QED BY <1>1, <1>5, <2>1
<1>6. ASSUME sql = "SPARSEVEC" PROVE MapSimple(sql, size) = Plain("SPARSE_FLOAT_VECTOR", 0)
  <2>1. sql # "VARCHAR" /\ sql # "TEXT" /\ ~vector /\ ~scalar
    BY <1>2, <1>6
  <2> QED BY <1>1, <1>6, <2>1
<1>7. ASSUME vector PROVE MapSimple(sql, size) = Plain(Vectors[sql], size)
  <2>1. sql # "VARCHAR" /\ sql # "TEXT" /\ sql # "SPARSEVEC" /\ ~scalar
    BY <1>2, <1>3, <1>7
  <2> QED BY <1>1, <1>7, <2>1
<1>8. ASSUME scalar PROVE MapSimple(sql, size) = Plain(Scalars[sql], 0)
  <2>1. sql # "VARCHAR" /\ sql # "TEXT" /\ sql # "SPARSEVEC" /\ ~vector
    BY <1>2, <1>3, <1>8
  <2> QED BY <1>1, <1>8, <2>1
<1>9. ASSUME ~vector, ~scalar, sql # "VARCHAR", sql # "TEXT", sql # "SPARSEVEC"
      PROVE  MapSimple(sql, size) = Unmapped
  BY <1>1, <1>9
<1> QED BY <1>4, <1>5, <1>6, <1>7, <1>8, <1>9 DEF vector, scalar

LEMMA SimpleMade ==
  ASSUME NEW sql, NEW size
  PROVE  \/ MapSimple(sql, size) = Unmapped
         \/ SimpleType(MapSimple(sql, size)) /\ Whole(MapSimple(sql, size))
<1>1. CASE sql = "VARCHAR" \/ sql = "TEXT" \/ sql = "SPARSEVEC"
  <2>1. CASE sql = "VARCHAR"
    <3>1. MapSimple(sql, size) = Plain("VARCHAR", Sized(size, MaxLength))
      BY <2>1, SimpleArms
    <3>2. Sized(size, MaxLength) # 0
      BY DEF Sized, MaxLength
    <3> QED BY <3>1, <3>2, SimpleFits DEF Plain
  <2>2. CASE sql = "TEXT"
    <3>1. MapSimple(sql, size) = MilvusType("VARCHAR", MaxLength, 0, "", TRUE)
      BY <2>2, SimpleArms
    <3>2. MaxLength # 0
      BY DEF MaxLength
    <3> QED BY <3>1, <3>2, SimpleFits
  <2>3. CASE sql = "SPARSEVEC"
    <3>1. MapSimple(sql, size) = Plain("SPARSE_FLOAT_VECTOR", 0)
      BY <2>3, SimpleArms
    <3> QED BY <3>1, SimpleFits DEF Plain
  <2> QED BY <1>1, <2>1, <2>2, <2>3
<1>2. CASE ~(sql = "VARCHAR" \/ sql = "TEXT" \/ sql = "SPARSEVEC")
  <2>1. CASE sql \in DOMAIN Vectors /\ size # 0
    <3>1. MapSimple(sql, size) = Plain(Vectors[sql], size)
      BY <1>2, <2>1, SimpleArms
    <3>2. Vectors[sql] \in DenseTypes
      BY <2>1, VectorNamesMap
    <3> QED BY <2>1, <3>1, <3>2, SimpleFits DEF Plain
  <2>2. CASE ~(sql \in DOMAIN Vectors /\ size # 0) /\ sql \in DOMAIN Scalars
    <3>1. MapSimple(sql, size) = Plain(Scalars[sql], 0)
      BY <1>2, <2>2, SimpleArms
    <3>2. Scalars[sql] \in ScalarTypes
      BY <2>2, ScalarNames
    <3> QED BY <3>1, <3>2, SimpleFits DEF Plain
  <2>3. CASE ~(sql \in DOMAIN Vectors /\ size # 0) /\ sql \notin DOMAIN Scalars
    BY <1>2, <2>3, SimpleArms
  <2> QED BY <2>1, <2>2, <2>3
<1> QED BY <1>1, <1>2

LEMMA TypesMade ==
  ASSUME NEW ty
  PROVE  MapDatatype(ty) = Unmapped \/ Made(MapDatatype(ty))
<1>1. CASE ty.sql # "ARRAY"
  BY <1>1, SimpleMade DEF MapDatatype, Made
<1>2. CASE ty.sql = "ARRAY" /\ ty.elem = <<>>
  BY <1>2 DEF MapDatatype
<1>3. CASE ty.sql = "ARRAY" /\ ty.elem # <<>>
  <2> DEFINE e == MapSimple(ty.elem[1].sql, ty.elem[1].size)
  <2>1. MapDatatype(ty) =
          IF e.type \in VectorTypes \cup {"none"} THEN Unmapped
          ELSE MilvusType("ARRAY", e.size, Sized(ty.size, DefaultArrayCapacity), e.type, e.analyzed)
    BY <1>3 DEF MapDatatype
  <2>2. e = Unmapped \/ (SimpleType(e) /\ Whole(e))
    BY SimpleMade
  <2> HIDE DEF e
  <2>3. CASE e.type \in VectorTypes \cup {"none"}
    BY <2>1, <2>3
  <2>4. CASE e.type \notin VectorTypes \cup {"none"}
    <3>1. e.type \in ScalarTypes \cup {"VARCHAR"} /\ (e.type # "VARCHAR" => e.size = 0)
      <4>1. Unmapped.type = "none"
        BY DEF Unmapped, Plain, MilvusType
      <4> QED BY <2>2, <2>4, <4>1 DEF SimpleType
    <3>2. Sized(ty.size, DefaultArrayCapacity) # 0
      BY DEF Sized, DefaultArrayCapacity
    <3> DEFINE array == MilvusType("ARRAY", e.size, Sized(ty.size, DefaultArrayCapacity), e.type, e.analyzed)
    <3>3. ArrayType(array)
      BY <3>1, <3>2 DEF ArrayType, MilvusType
    <3>4. Whole(array)
      <4>1. e # Unmapped
        <5>1. Unmapped.type = "none"
          BY DEF Unmapped, Plain, MilvusType
        <5> QED BY <2>4, <5>1
      <4>2. e.analyzed \in BOOLEAN
        BY <2>2, <4>1 DEF Whole
      <4> QED BY <4>2, TypeFields DEF Whole
    <3> QED BY <2>1, <2>4, <3>3, <3>4 DEF Made
  <2> QED BY <2>3, <2>4
<1> QED BY <1>1, <1>2, <1>3

LEMMA NamesMap ==
  /\ \A t \in ScalarTypes : /\ SqlNames[t] \in DOMAIN Scalars /\ Scalars[SqlNames[t]] = t
                            /\ SqlNames[t] \notin DOMAIN Vectors
                            /\ SqlNames[t] \notin {"VARCHAR", "TEXT", "SPARSEVEC", "ARRAY"}
  /\ \A t \in DenseTypes : /\ SqlNames[t] \in DOMAIN Vectors /\ Vectors[SqlNames[t]] = t
                           /\ SqlNames[t] \notin {"VARCHAR", "TEXT", "SPARSEVEC", "ARRAY"}
  /\ SqlNames["VARCHAR"] = "VARCHAR" /\ SqlNames["SPARSE_FLOAT_VECTOR"] = "SPARSEVEC"
<1>1. \A t \in ScalarTypes : SqlNames[t] \in DOMAIN Scalars /\ Scalars[SqlNames[t]] = t
  BY DEF SqlNames, Scalars, ScalarTypes
<1>2. \A t \in ScalarTypes : SqlNames[t] \notin DOMAIN Vectors
  BY DEF SqlNames, Vectors, ScalarTypes
<1>3. \A t \in ScalarTypes \cup DenseTypes : SqlNames[t] \notin {"VARCHAR", "TEXT", "SPARSEVEC", "ARRAY"}
  BY DEF SqlNames, ScalarTypes, DenseTypes
<1>4. \A t \in DenseTypes : SqlNames[t] \in DOMAIN Vectors /\ Vectors[SqlNames[t]] = t
  BY DEF SqlNames, Vectors, DenseTypes
<1>5. SqlNames["VARCHAR"] = "VARCHAR" /\ SqlNames["SPARSE_FLOAT_VECTOR"] = "SPARSEVEC"
  BY DEF SqlNames
<1> QED BY <1>1, <1>2, <1>3, <1>4, <1>5

\* A scalar's SQL name maps back to it, written with any size.
LEMMA ScalarMapsBack ==
  ASSUME NEW t \in ScalarTypes, NEW size
  PROVE  MapSimple(SqlNames[t], size) = Plain(t, 0)
<1> DEFINE n == SqlNames[t]
<1>1. n \in DOMAIN Scalars /\ Scalars[n] = t /\ n \notin DOMAIN Vectors
      /\ n # "VARCHAR" /\ n # "TEXT" /\ n # "SPARSEVEC"
  BY NamesMap
<1> HIDE DEF n
<1>2. MapSimple(n, size) = Plain(Scalars[n], 0)
  BY <1>1, SimpleArms
<1> QED BY <1>1, <1>2 DEF n

LEMMA DenseMapsBack ==
  ASSUME NEW t \in DenseTypes, NEW size, size # 0
  PROVE  MapSimple(SqlNames[t], size) = Plain(t, size)
<1> DEFINE n == SqlNames[t]
<1>1. n \in DOMAIN Vectors /\ Vectors[n] = t
      /\ n # "VARCHAR" /\ n # "TEXT" /\ n # "SPARSEVEC"
  BY NamesMap
<1> HIDE DEF n
<1>2. MapSimple(n, size) = Plain(Vectors[n], size)
  BY <1>1, SimpleArms
<1> QED BY <1>1, <1>2 DEF n

LEMMA TypeRoundTrips ==
  ASSUME NEW m, Made(m)
  PROVE  MapDatatype(DescribeType(m)) = KeptType(m)
<1>1. CASE m.type \in ScalarTypes /\ SimpleType(m)
  <2>1. DescribeType(m) = Type(SqlNames[m.type], 0, <<>>)
    BY <1>1 DEF DescribeType, SimpleType, ScalarTypes
  <2>2. MapDatatype(DescribeType(m)) = MapSimple(SqlNames[m.type], 0)
    BY <1>1, <2>1, NamesMap DEF MapDatatype, Type
  <2>3. KeptType(m) = Plain(m.type, 0)
    BY <1>1 DEF SimpleType, KeptType, Plain
  <2> QED BY <1>1, <2>2, <2>3, ScalarMapsBack
<1>2. CASE m.type \in DenseTypes /\ SimpleType(m)
  <2>1. DescribeType(m) = Type(SqlNames[m.type], m.size, <<>>) /\ m.size # 0
    BY <1>2 DEF DescribeType, SimpleType, ScalarTypes, DenseTypes
  <2>2. MapDatatype(DescribeType(m)) = MapSimple(SqlNames[m.type], m.size)
    BY <1>2, <2>1, NamesMap DEF MapDatatype, Type
  <2>3. KeptType(m) = Plain(m.type, m.size)
    BY <1>2 DEF SimpleType, KeptType, Plain
  <2> QED BY <1>2, <2>1, <2>2, <2>3, DenseMapsBack
<1>3. CASE m.type = "SPARSE_FLOAT_VECTOR" /\ SimpleType(m)
  <2>1. DescribeType(m) = Type("SPARSEVEC", 0, <<>>)
    BY <1>3, NamesMap DEF DescribeType
  <2>2. MapDatatype(DescribeType(m)) = MapSimple("SPARSEVEC", 0)
    BY <2>1 DEF MapDatatype, Type
  <2>3. MapSimple("SPARSEVEC", 0) = Plain("SPARSE_FLOAT_VECTOR", 0)
    BY SimpleArms
  <2> QED BY <1>3, <2>2, <2>3 DEF SimpleType, KeptType, Plain
<1>4. CASE m.type = "VARCHAR" /\ SimpleType(m)
  <2>1. DescribeType(m) = Type("VARCHAR", m.size, <<>>) /\ m.size # 0
    BY <1>4, NamesMap DEF DescribeType, SimpleType, ScalarTypes
  <2>2. MapDatatype(DescribeType(m)) = MapSimple("VARCHAR", m.size)
    BY <2>1 DEF MapDatatype, Type
  <2>3. MapSimple("VARCHAR", m.size) = Plain("VARCHAR", m.size)
    BY <2>1, SimpleArms DEF Sized
  <2> QED BY <1>4, <2>2, <2>3 DEF SimpleType, KeptType, Plain
<1>5. CASE ArrayType(m)
  <2> DEFINE ty == Type("ARRAY", m.cap, <<Type(SqlNames[m.elem], 0, <<>>)>>)
             e == MapSimple(SqlNames[m.elem], 0)
  <2>1. DescribeType(m) = ty
    BY <1>5 DEF DescribeType, ArrayType
  <2>2. ty.sql = "ARRAY" /\ ty.elem # <<>> /\ ty.size = m.cap
        /\ ty.elem[1].sql = SqlNames[m.elem] /\ ty.elem[1].size = 0
    BY DEF Type
  <2> HIDE DEF ty
  <2>3. MapDatatype(ty) =
          IF e.type \in VectorTypes \cup {"none"} THEN Unmapped
          ELSE MilvusType("ARRAY", e.size, Sized(m.cap, DefaultArrayCapacity), e.type, e.analyzed)
    BY <2>2 DEF MapDatatype
  <2>4. e = Plain(m.elem, IF m.elem = "VARCHAR" THEN MaxLength ELSE m.size)
    <3>1. CASE m.elem \in ScalarTypes
      <4>1. m.elem # "VARCHAR" /\ m.size = 0
        BY <1>5, <3>1 DEF ArrayType, ScalarTypes
      <4> QED BY <3>1, <4>1, ScalarMapsBack
    <3>2. CASE m.elem = "VARCHAR"
      BY <3>2, NamesMap, SimpleArms DEF Sized
    <3> QED BY <1>5, <3>1, <3>2 DEF ArrayType
  <2> HIDE DEF e
  <2>5. e.type = m.elem /\ e.analyzed = FALSE
        /\ e.size = IF m.elem = "VARCHAR" THEN MaxLength ELSE m.size
    BY <2>4 DEF Plain, MilvusType
  <2>6. m.elem \notin VectorTypes \cup {"none"}
    BY <1>5, VectorTypesAre DEF ArrayType, ScalarTypes
  <2>7. Sized(m.cap, DefaultArrayCapacity) = m.cap
    BY <1>5 DEF ArrayType, Sized
  <2>8. MapDatatype(ty) = MilvusType("ARRAY", e.size, m.cap, m.elem, FALSE)
    BY <2>3, <2>5, <2>6, <2>7
  <2> QED BY <1>5, <2>1, <2>5, <2>8 DEF KeptType, ArrayType
<1>6. SimpleType(m) => m.type \in ScalarTypes \cup DenseTypes \cup {"SPARSE_FLOAT_VECTOR", "VARCHAR"}
  BY VectorTypesAre DEF SimpleType, DenseTypes
<1> QED BY <1>1, <1>2, <1>3, <1>4, <1>5, <1>6 DEF Made
LEMMA NotNone ==
  ASSUME NEW m, Made(m)
  PROVE  m.type # "none" /\ m # Unmapped
<1>1. Unmapped.type = "none"
  BY DEF Unmapped, Plain, MilvusType
<1>2. m.type # "none"
  BY VectorTypesAre DEF Made, SimpleType, ArrayType, ScalarTypes
<1> QED BY <1>1, <1>2

\* The type a reflected column is created with again.
LEMMA ReflectedTypeRoundTrips ==
  ASSUME NEW m, Made(m), ReflectType(m).sql # "NULL"
  PROVE  MapDatatype(ReflectType(m)) = Widened(KeptType(m))
<1> DEFINE Reflected == {"INT16", "INT32", "INT64", "FLOAT", "DOUBLE", "BOOL", "JSON", "VARCHAR",
                         "FLOAT_VECTOR", "SPARSE_FLOAT_VECTOR"}
<1>1. CASE m.type = "INT8"
  <2>1. ReflectType(m) = Type("SMALLINT", 0, <<>>)
    BY <1>1 DEF ReflectType
  <2>2. MapDatatype(ReflectType(m)) = MapSimple("SMALLINT", 0)
    BY <2>1 DEF MapDatatype, Type
  <2>3. "INT16" \in ScalarTypes /\ SqlNames["INT16"] = "SMALLINT"
    BY DEF ScalarTypes, SqlNames
  <2>4. MapSimple("SMALLINT", 0) = Plain("INT16", 0)
    BY <2>3, ScalarMapsBack
  <2>5. SimpleType(m) /\ m.type \in ScalarTypes
    BY <1>1 DEF Made, ArrayType, ScalarTypes
  <2>6. m.size = 0 /\ m.cap = 0 /\ m.elem = ""
    BY <2>5 DEF SimpleType
  <2>7. KeptType(m) = MilvusType("INT8", 0, 0, "", FALSE)
    BY <1>1, <2>6 DEF KeptType
  <2>8. Widened(KeptType(m)) = MilvusType("INT16", 0, 0, "", FALSE)
    <3> DEFINE k == MilvusType("INT8", 0, 0, "", FALSE)
    <3>1. k.type = "INT8" /\ k.size = 0 /\ k.cap = 0 /\ k.elem = "" /\ k.analyzed = FALSE
      BY DEF MilvusType
    <3> HIDE DEF k
    <3>2. Widened(k) = MilvusType("INT16", 0, 0, "", FALSE)
      BY <3>1 DEF Widened
    <3> QED BY <2>7, <3>2 DEF k
  <2> QED BY <2>2, <2>4, <2>8 DEF Plain
<1>2. CASE m.type \in Reflected
  <2>1. ReflectType(m) = DescribeType(m)
    BY <1>2 DEF ReflectType
  <2>2. KeptType(m).type # "INT8"
    BY <1>2 DEF KeptType, MilvusType
  <2> QED BY <2>1, <2>2, TypeRoundTrips DEF Widened
<1>3. CASE m.type # "INT8" /\ m.type \notin Reflected
  <2>1. ReflectType(m) = Type("NULL", 0, <<>>)
    BY <1>3 DEF ReflectType
  <2> QED BY <2>1 DEF Type
<1> QED BY <1>1, <1>2, <1>3

\* A field created again from a column that says this much of it.
LEMMA FieldRoundTrips ==
  ASSUME NEW f, FieldOK(f), NEW c, NEW m,
         c.name = f.name, MapDatatype(c.type) = m, c.notNull = ~f.nullable, c.primary = f.primary,
         c.auto = f.auto, c.source = f.source,
         m.type \in VectorTypes <=> f.type.type \in VectorTypes
  PROVE  ToField(c, {}) = Kept(f, m)
<1> DEFINE primary == c.primary \/ c.name \in {}
           nullable == ~primary /\ ~c.notNull /\ m.type \notin VectorTypes
<1>1. ToField(c, {}) = Field(c.name, m, nullable, primary, c.auto, c.source)
  BY DEF ToField
<1>2. primary = f.primary
  BY DEF FieldOK
<1>3. nullable = (f.nullable /\ f.type.type \notin VectorTypes)
  BY <1>2 DEF FieldOK
<1> HIDE DEF primary, nullable
<1> QED BY <1>1, <1>2, <1>3 DEF Kept

\* What CREATE TABLE takes.
LEMMA NotRefused ==
  ASSUME NEW cs,
         \A i \in DOMAIN cs :
           /\ MapDatatype(cs[i].type).type # "none"
           /\ cs[i].source # "" => MapDatatype(cs[i].type).type = "SPARSE_FLOAT_VECTOR",
         \E i \in DOMAIN cs : MapDatatype(cs[i].type).type \in VectorTypes
  PROVE  CreateTable(Definition(cs, {})) = [i \in DOMAIN cs |-> ToField(cs[i], {})]
<1> DEFINE def == Definition(cs, {})
           types == {MapDatatype(c.type).type : c \in ToSet(cs)}
<1>1. def.columns = cs /\ def.keys = {}
  BY DEF Definition
<1>2. "none" \notin types
  BY DEF ToSet
<1>3. types \cap VectorTypes # {}
  <2>1. PICK i \in DOMAIN cs : MapDatatype(cs[i].type).type \in VectorTypes
    OBVIOUS
  <2>2. cs[i] \in ToSet(cs)
    BY DEF ToSet
  <2> QED BY <2>1, <2>2
<1>4. \A c \in ToSet(cs) : c.source # "" => MapDatatype(c.type).type = "SPARSE_FLOAT_VECTOR"
  BY DEF ToSet
<1> QED BY <1>1, <1>2, <1>3, <1>4 DEF CreateTable

\* A list is a sequence of its members, and appending keeps them.
LEMMA Appended ==
  ASSUME NEW s, s = [i \in 1..Len(s) |-> s[i]], Len(s) \in Nat, NEW x
  PROVE  LET t == Append(s, x) IN
         /\ Len(t) = Len(s) + 1
         /\ t = [i \in 1..Len(t) |-> t[i]]
         /\ \A i \in 1..Len(t) : t[i] = IF i = Len(s) + 1 THEN x ELSE s[i]
         /\ ToSet(t) = ToSet(s) \cup {x}
<1> DEFINE S == ToSet(s) \cup {x}
           t == Append(s, x)
<1>1. s \in Seq(S)
  <2>1. DOMAIN s = 1..Len(s) /\ \A i \in DOMAIN s : s[i] \in S
    BY DEF ToSet
  <2>2. s \in [1..Len(s) -> S]
    BY <2>1
  <2> HIDE DEF S
  <2> QED BY <2>2
<1>2. /\ t \in Seq(S) /\ Len(t) = Len(s) + 1
      /\ \A i \in 1..Len(s) : t[i] = s[i]
      /\ t[Len(s) + 1] = x
  BY <1>1, AppendProperties
<1>3. t = [i \in 1..Len(t) |-> t[i]] /\ DOMAIN t = 1..Len(t)
  <2>1. t \in [1..Len(t) -> S]
    BY <1>2, LenProperties
  <2> QED BY <2>1
<1>4. \A i \in 1..Len(t) : t[i] = IF i = Len(s) + 1 THEN x ELSE s[i]
  BY <1>2
<1>5. ToSet(t) = ToSet(s) \cup {x}
  <2>1. DOMAIN s = 1..Len(s)
    OBVIOUS
  <2>2. ASSUME NEW y \in ToSet(t) PROVE y \in ToSet(s) \cup {x}
    BY <1>2, <1>3, <1>4, <2>1 DEF ToSet
  <2>3. ASSUME NEW y \in ToSet(s) PROVE y \in ToSet(t)
    <3>1. PICK i \in 1..Len(s) : y = s[i]
      BY <2>1 DEF ToSet
    <3>2. i \in DOMAIN t /\ t[i] = y
      BY <1>2, <1>3, <3>1
    <3> QED BY <3>2 DEF ToSet
  <2>4. x \in ToSet(t)
    <3>1. Len(s) + 1 \in DOMAIN t
      BY <1>2, <1>3
    <3> QED BY <1>2, <3>1 DEF ToSet
  <2> QED BY <2>2, <2>3, <2>4
<1> QED BY <1>2, <1>3, <1>4, <1>5

LEMMA FieldMade ==
  ASSUME NEW c, NEW keys, MapDatatype(c.type).type # "none",
         c.source # "" => MapDatatype(c.type).type = "SPARSE_FLOAT_VECTOR"
  PROVE  FieldOK(ToField(c, keys))
<1> DEFINE primary == c.primary \/ c.name \in keys
           m == MapDatatype(c.type)
           nullable == ~primary /\ ~c.notNull /\ m.type \notin VectorTypes
           f == Field(c.name, m, nullable, primary, c.auto, c.source)
<1>1. ToField(c, keys) = f
  BY DEF ToField
<1>2. Unmapped.type = "none"
  BY DEF Unmapped, Plain, MilvusType
<1>3. Made(m)
  BY <1>2, TypesMade
<1>4. nullable \in BOOLEAN /\ primary \in BOOLEAN /\ (primary => ~nullable)
  OBVIOUS
<1> HIDE DEF nullable, primary, m
<1>5. /\ f.name = c.name /\ f.type = m /\ f.nullable = nullable /\ f.primary = primary
      /\ f.auto = c.auto /\ f.source = c.source
  BY DEF Field
<1> QED BY <1>1, <1>3, <1>4, <1>5 DEF FieldOK, m

\* A CREATE TABLE that is not refused makes a field of every column, of a type
\* that Milvus has, at least one of them a vector.
LEMMA Created ==
  ASSUME NEW def, NEW cs, cs = def.columns,
         List(cs),
         \A i, k \in DOMAIN cs : cs[i].name = cs[k].name => i = k,
         CreateTable(def) # Refused
  PROVE  LET fs == CreateTable(def) IN
         /\ Fields(fs) /\ DOMAIN fs = DOMAIN cs
         /\ \A i \in DOMAIN cs : fs[i] = ToField(cs[i], def.keys) /\ fs[i].name = cs[i].name
         /\ \E i \in DOMAIN fs : fs[i].type.type \in VectorTypes
<1> DEFINE types == {MapDatatype(c.type).type : c \in ToSet(cs)}
           fs == CreateTable(def)
<1>1. /\ "none" \notin types /\ types \cap VectorTypes # {}
      /\ fs = [i \in DOMAIN cs |-> ToField(cs[i], def.keys)]
  BY DEF CreateTable
<1>2. /\ cs = [i \in 1..Len(cs) |-> cs[i]] /\ Len(cs) \in Nat
      /\ DOMAIN cs = 1..Len(cs) /\ \A i \in DOMAIN cs : cs[i] \in ToSet(cs)
  BY DEF ToSet, List
<1>3. DOMAIN fs = DOMAIN cs /\ fs = [i \in 1..Len(cs) |-> fs[i]] /\ Len(fs) = Len(cs)
  BY <1>1, <1>2
<1>4. \A i \in DOMAIN cs : /\ fs[i] = ToField(cs[i], def.keys)
                          /\ fs[i].name = cs[i].name
                          /\ fs[i].type = MapDatatype(cs[i].type)
  BY <1>1 DEF ToField, Field
<1>5. \A i \in DOMAIN cs : MapDatatype(cs[i].type).type # "none"
  BY <1>1, <1>2
<1>6. Fields(fs)
  <2>1. List(fs)
    BY <1>2, <1>3 DEF List
  <2>2. ASSUME NEW i \in DOMAIN fs PROVE FieldOK(fs[i])
    <3>1. i \in DOMAIN cs /\ cs[i] \in ToSet(cs)
      BY <1>2, <1>3
    <3> HIDE DEF fs
    <3>2. fs[i] = ToField(cs[i], def.keys) /\ MapDatatype(cs[i].type).type # "none"
      BY <3>1, <1>4, <1>5
    <3>3. cs[i].source # "" => MapDatatype(cs[i].type).type = "SPARSE_FLOAT_VECTOR"
      BY <3>1 DEF CreateTable
    <3> DEFINE c == cs[i]
    <3>4. MapDatatype(c.type).type # "none" /\ fs[i] = ToField(c, def.keys)
          /\ (c.source # "" => MapDatatype(c.type).type = "SPARSE_FLOAT_VECTOR")
      BY <3>2, <3>3
    <3> HIDE DEF c
    <3> QED BY ONLY <3>4, FieldMade
  <2>3. ASSUME NEW i \in DOMAIN fs, NEW k \in DOMAIN fs, fs[i].name = fs[k].name PROVE i = k
    <3>1. i \in DOMAIN cs /\ k \in DOMAIN cs
      BY <1>3
    <3>2. cs[i].name = cs[k].name
      <4> HIDE DEF fs
      <4> QED BY <2>3, <3>1, <1>4
    <3> QED BY <3>1, <3>2
  <2> QED BY <2>1, <2>2, <2>3 DEF Fields
<1>7. \E i \in DOMAIN fs : fs[i].type.type \in VectorTypes
  <2>1. PICK c \in ToSet(cs) : MapDatatype(c.type).type \in VectorTypes
    BY <1>1
  <2>2. PICK i \in DOMAIN cs : c = cs[i]
    BY DEF ToSet
  <2> QED BY <1>3, <1>4, <2>1, <2>2
<1> QED BY <1>3, <1>4, <1>6, <1>7

\* The pad vector's own field.
LEMMA PadFieldMade ==
  ASSUME NEW keys
  PROVE  LET f == ToField(PadColumn, keys) IN
         /\ MapDatatype(PadColumn.type) # Unmapped
         /\ f.name = Pad /\ f.type.type \in VectorTypes /\ ~f.auto /\ f.source = "" /\ ~f.nullable
<1> DEFINE f == ToField(PadColumn, keys)
<1>1. /\ PadColumn.name = Pad /\ PadColumn.type = Type("VECTOR", 2, <<>>)
      /\ PadColumn.auto = FALSE /\ PadColumn.source = ""
  BY DEF PadColumn, Column
<1>2. MapDatatype(Type("VECTOR", 2, <<>>)) = Plain("FLOAT_VECTOR", 2)
  <2>1. MapDatatype(Type("VECTOR", 2, <<>>)) = MapSimple("VECTOR", 2)
    BY DEF MapDatatype, Type
  <2>2. "VECTOR" \in DOMAIN Vectors /\ Vectors["VECTOR"] = "FLOAT_VECTOR"
    BY DEF Vectors
  <2>3. "VECTOR" \notin DOMAIN Scalars
    BY DEF Scalars
  <2>4. MapSimple("VECTOR", 2) = Plain(Vectors["VECTOR"], 2)
    <3> DEFINE sql == "VECTOR"
    <3>1. sql # "VARCHAR" /\ sql # "TEXT" /\ sql # "SPARSEVEC" /\ sql \in DOMAIN Vectors
          /\ sql \notin DOMAIN Scalars
      BY <2>2, <2>3
    <3> HIDE DEF sql
    <3>2. MapSimple(sql, 2) = Plain(Vectors[sql], 2)
      BY <3>1 DEF MapSimple
    <3> QED BY <3>2 DEF sql
  <2> QED BY <2>1, <2>2, <2>4
<1>3. Plain("FLOAT_VECTOR", 2).type = "FLOAT_VECTOR" /\ Unmapped.type = "none"
  BY DEF Plain, Unmapped, MilvusType
<1>4. MapDatatype(PadColumn.type).type \in VectorTypes
  BY <1>1, <1>2, <1>3, VectorTypesAre
<1>5. /\ f.name = PadColumn.name /\ f.type = MapDatatype(PadColumn.type)
      /\ f.auto = PadColumn.auto /\ f.source = PadColumn.source
      /\ f.nullable => MapDatatype(PadColumn.type).type \notin VectorTypes
  BY DEF ToField, Field
<1> QED BY <1>1, <1>2, <1>3, <1>4, <1>5

\* A model's CREATE TABLE makes a pad vector exactly if the model needs one.
LEMMA ModelMade ==
  ASSUME NEW model \in Models
  PROVE  LET fs == ModelTable(model) IN
         /\ Fields(fs)
         /\ \E f \in ToSet(fs) : f.type.type \in VectorTypes
         /\ \A f \in ToSet(fs) : PadField(f)
         /\ Pad \in Names(fs) <=> NeedsPad(model)
<1> DEFINE cs == IF NeedsPad(model) THEN Append(model, PadColumn) ELSE model
           def == Definition(cs, {})
           fs == ModelTable(model)
<1>1. /\ Len(model) \in Nat /\ model = [i \in 1..Len(model) |-> model[i]]
      /\ \A i, k \in DOMAIN model : model[i].name = model[k].name => i = k
      /\ \A i \in DOMAIN model : model[i].name # Pad
      /\ fs # Refused
  BY ColumnsAssumption DEF WellNamed
<1>2. DOMAIN model = 1..Len(model)
  BY <1>1
<1>3. /\ Len(cs) \in Nat /\ cs = [i \in 1..Len(cs) |-> cs[i]]
      /\ \A i \in DOMAIN cs : cs[i] = PadColumn \/ cs[i].name # Pad
      /\ \A i, k \in DOMAIN cs : cs[i].name = cs[k].name => i = k
      /\ NeedsPad(model) <=> \E i \in DOMAIN cs : cs[i] = PadColumn
  <2>0. PadColumn.name = Pad
    BY DEF PadColumn, Column
  <2>1. CASE ~NeedsPad(model)
    <3>1. cs = model
      BY <2>1
    <3>2. \A i \in DOMAIN cs : cs[i] # PadColumn
      BY <1>1, <2>0, <3>1
    <3> QED BY <1>1, <2>1, <3>1, <3>2
  <2>2. CASE NeedsPad(model)
    <3>1. cs = Append(model, PadColumn)
      BY <2>2
    <3> HIDE DEF cs
    <3>2. /\ Len(cs) = Len(model) + 1
          /\ cs = [i \in 1..Len(cs) |-> cs[i]]
          /\ \A i \in 1..Len(cs) : cs[i] = IF i = Len(model) + 1 THEN PadColumn ELSE model[i]
      BY <1>1, <3>1, Appended
    <3>3. DOMAIN cs = 1..Len(cs)
      BY <3>2
    <3>4. \A i \in DOMAIN cs : i # Len(model) + 1 => i \in DOMAIN model /\ cs[i] = model[i]
      BY <1>1, <1>2, <3>2, <3>3
    <3>5. \A i \in DOMAIN cs : i = Len(model) + 1 => cs[i] = PadColumn
      BY <3>2, <3>3
    <3>6. Len(model) + 1 \in DOMAIN cs
      BY <1>1, <3>2, <3>3
    <3>7. \A i, k \in DOMAIN cs : cs[i].name = cs[k].name => i = k
      BY <1>1, <2>0, <3>4, <3>5
    <3> QED BY <1>1, <2>2, <3>2, <3>4, <3>5, <3>6, <3>7
  <2> QED BY <2>1, <2>2
<1>4. fs = CreateTable(def) /\ def.columns = cs /\ def.keys = {}
  BY DEF ModelTable, Definition
<1> HIDE DEF cs, def, fs
<1>5. /\ Fields(fs) /\ DOMAIN fs = DOMAIN cs
      /\ \A i \in DOMAIN cs : fs[i] = ToField(cs[i], {}) /\ fs[i].name = cs[i].name
      /\ \E i \in DOMAIN fs : fs[i].type.type \in VectorTypes
  <2>1. CreateTable(def) # Refused
    BY <1>1, <1>4
  <2>2. /\ cs = def.columns
        /\ \A i, k \in DOMAIN cs : cs[i].name = cs[k].name => i = k
        /\ List(cs)
    BY <1>3, <1>4 DEF List
  <2>3. LET gs == CreateTable(def) IN
        /\ Fields(gs) /\ DOMAIN gs = DOMAIN cs
        /\ \A i \in DOMAIN cs : gs[i] = ToField(cs[i], def.keys) /\ gs[i].name = cs[i].name
        /\ \E i \in DOMAIN gs : gs[i].type.type \in VectorTypes
    BY <2>1, <2>2, Created
  <2> QED BY <1>4, <2>3
<1>6. ToSet(fs) = {fs[i] : i \in DOMAIN cs}
  BY <1>5 DEF ToSet
<1>7. \E f \in ToSet(fs) : f.type.type \in VectorTypes
  BY <1>5, <1>6
<1>8. ASSUME NEW f \in ToSet(fs) PROVE PadField(f)
  <2>1. PICK i \in DOMAIN cs : f = fs[i]
    BY <1>6
  <2>2. CASE cs[i] = PadColumn
    <3>1. f = ToField(PadColumn, {})
      BY <1>5, <2>1, <2>2
    <3> QED BY <3>1, PadFieldMade DEF PadField
  <2>3. CASE cs[i].name # Pad
    BY <1>5, <2>1, <2>3 DEF PadField
  <2> QED BY <1>3, <2>2, <2>3
<1>9. Pad \in Names(fs) <=> NeedsPad(model)
  <2>1. Pad \in Names(fs) <=> \E i \in DOMAIN cs : cs[i].name = Pad
    BY <1>5, <1>6 DEF Names
  <2>2. PadColumn.name = Pad
    BY DEF PadColumn, Column
  <2> QED BY <1>3, <2>1, <2>2
<1> QED BY <1>5, <1>7, <1>8, <1>9 DEF fs

\* A CREATE TABLE of the other client makes no pad vector.
LEMMA DefinitionMade ==
  ASSUME NEW def \in Definitions, CreateTable(def) # Refused
  PROVE  LET fs == CreateTable(def) IN
         /\ Fields(fs)
         /\ \E f \in ToSet(fs) : f.type.type \in VectorTypes
         /\ \A f \in ToSet(fs) : PadField(f)
         /\ Pad \notin Names(fs)
<1> DEFINE cs == def.columns
           fs == CreateTable(def)
<1>1. /\ Len(cs) \in Nat /\ cs = [i \in 1..Len(cs) |-> cs[i]]
      /\ \A i, k \in DOMAIN cs : cs[i].name = cs[k].name => i = k
      /\ \A i \in DOMAIN cs : cs[i].name # Pad
      /\ List(cs)
  BY ColumnsAssumption DEF WellNamed, List
<1>2. /\ Fields(fs) /\ DOMAIN fs = DOMAIN cs
      /\ \A i \in DOMAIN cs : fs[i].name = cs[i].name
      /\ \E i \in DOMAIN fs : fs[i].type.type \in VectorTypes
  BY <1>1, Created
<1> HIDE DEF cs, fs
<1>3. \A f \in ToSet(fs) : f.name # Pad
  BY <1>1, <1>2 DEF ToSet
<1>4. \E f \in ToSet(fs) : f.type.type \in VectorTypes
  BY <1>2 DEF ToSet
<1>5. Pad \notin Names(fs) /\ \A f \in ToSet(fs) : PadField(f)
  BY <1>3 DEF PadField, Names
<1> QED BY <1>2, <1>4, <1>5 DEF fs

\* ADD FIELD leaves the fields there are, and may add one that can be NULL.
LEMMA Altered ==
  ASSUME NEW fs, Fields(fs), NEW c, c.name \notin Names(fs)
  PROVE  LET gs == AlterAddField(fs, c) IN
         /\ Fields(gs)
         /\ ToSet(fs) \subseteq ToSet(gs)
         /\ \A f \in ToSet(gs) \ ToSet(fs) : f.name = c.name /\ f.nullable /\ ~f.auto /\ f.source = ""
<1> DEFINE new == Field(c.name, MapDatatype(c.type), TRUE, FALSE, FALSE, "")
           gs == Append(fs, new)
<1>1. CASE MapDatatype(c.type) = Unmapped
  BY <1>1 DEF AlterAddField
<1>2. CASE MapDatatype(c.type) # Unmapped
  <2>1. AlterAddField(fs, c) = gs
    BY <1>2 DEF AlterAddField
  <2>2. /\ new.name = c.name /\ new.nullable = TRUE /\ new.auto = FALSE /\ new.source = ""
        /\ new.type = MapDatatype(c.type) /\ new.primary = FALSE
    BY DEF Field
  <2>3. FieldOK(new)
    BY <1>2, <2>2, TypesMade DEF FieldOK
  <2> HIDE DEF new
  <2>4. fs = [i \in 1..Len(fs) |-> fs[i]] /\ Len(fs) \in Nat
    BY DEF Fields, List
  <2>5. /\ Len(gs) = Len(fs) + 1
        /\ gs = [i \in 1..Len(gs) |-> gs[i]]
        /\ \A i \in 1..Len(gs) : gs[i] = IF i = Len(fs) + 1 THEN new ELSE fs[i]
        /\ ToSet(gs) = ToSet(fs) \cup {new}
    BY <2>4, Appended
  <2> HIDE DEF gs
  <2>6. DOMAIN fs = 1..Len(fs) /\ DOMAIN gs = 1..Len(gs)
    BY <2>4, <2>5
  <2>7. \A i \in DOMAIN gs : \/ i = Len(fs) + 1 /\ gs[i] = new
                             \/ i \in DOMAIN fs /\ gs[i] = fs[i]
    <3>1. Len(gs) = Len(fs) + 1 /\ Len(fs) \in Nat
      BY <2>4, <2>5
    <3>2. \A i \in 1..Len(gs) : i = Len(fs) + 1 \/ i \in 1..Len(fs)
      BY <3>1
    <3>3. \A i \in 1..Len(gs) : gs[i] = IF i = Len(fs) + 1 THEN new ELSE fs[i]
      BY <2>5
    <3>4. SUFFICES ASSUME NEW i \in 1..Len(gs)
                   PROVE  \/ i = Len(fs) + 1 /\ gs[i] = new
                          \/ i \in 1..Len(fs) /\ gs[i] = fs[i]
      BY <2>6
    <3>5. CASE i = Len(fs) + 1
      BY <3>3, <3>5
    <3>6. CASE i # Len(fs) + 1
      BY <3>2, <3>3, <3>6
    <3> QED BY <3>5, <3>6
  <2>8. \A i \in DOMAIN fs : fs[i].name # c.name
    BY DEF Names, ToSet
  <2>9. Fields(gs)
    <3>1. \A i \in DOMAIN gs : FieldOK(gs[i])
      BY <2>3, <2>7 DEF Fields
    <3>2. \A i, k \in DOMAIN gs : gs[i].name = gs[k].name => i = k
      <4>1. \A i, k \in DOMAIN fs : fs[i].name = fs[k].name => i = k
        BY DEF Fields
      <4>2. SUFFICES ASSUME NEW i \in DOMAIN gs, NEW k \in DOMAIN gs, gs[i].name = gs[k].name
                     PROVE  i = k
        OBVIOUS
      <4>3. CASE i = Len(fs) + 1 /\ gs[i] = new
        BY <2>2, <2>7, <2>8, <4>2, <4>3
      <4>4. CASE i \in DOMAIN fs /\ gs[i] = fs[i]
        BY <2>2, <2>7, <2>8, <4>1, <4>2, <4>4
      <4> QED BY <2>7, <4>3, <4>4
    <3>3. Len(gs) \in Nat
      BY <2>4, <2>5
    <3> QED BY <2>5, <3>1, <3>2, <3>3 DEF Fields, List
  <2> QED BY <2>1, <2>2, <2>5, <2>9
<1> QED BY <1>1, <1>2

-----------------------------------------------------------------------------
(* What an action does to the table.                                       *)

\* The pad vector is a vector, and nobody fills it in but the backend.
LEMMA PadIsGiven ==
  ASSUME TableOK, There, Pad \in Names(fields)
  PROVE  Pad \in VectorNames /\ Pad \notin Filled
<1>1. \A f \in ToSet(fields) : PadField(f)
  BY DEF TableOK
<1>2. PICK f \in ToSet(fields) : f.name = Pad
  BY DEF Names
<1>3. Pad \in VectorNames
  BY <1>1, <1>2 DEF PadField, VectorNames
<1>4. Pad \notin Filled
  BY <1>1 DEF PadField, Filled
<1> QED BY <1>3, <1>4

\* A schema has a field, so it is not Absent.
LEMMA SchemaIsThere ==
  ASSUME NEW fs, Fields(fs), NEW f \in ToSet(fs)
  PROVE  fs # Absent
<1>1. PICK i \in DOMAIN fs : f = fs[i]
  BY DEF ToSet
<1>2. DOMAIN fs # {}
  BY <1>1
<1>3. DOMAIN Absent = {}
  BY DEF Absent
<1> QED BY <1>2, <1>3

LEMMA Creates ==
  ASSUME TableOK, created < MaxTables, NEW fs, CreateCollection(fs), Fields(fs),
         \E f \in ToSet(fs) : f.type.type \in VectorTypes,
         \A f \in ToSet(fs) : PadField(f)
  PROVE  TableOK' /\ RowsFit' /\ There' /\ created' = created + 1
<1>1. /\ fields' = fs /\ created' = created + 1 /\ indexed' = {} /\ loaded' = FALSE /\ rows' = {}
  BY DEF CreateCollection
<1>2. created' \in 0..MaxTables /\ created' > 0
  BY <1>1, BoundsAssumption DEF TableOK
<1>3. There'
  BY <1>1, SchemaIsThere DEF There
<1>4. VectorNames' # {}
  BY <1>1 DEF VectorNames
<1>5. TableOK'
  BY <1>1, <1>2, <1>3, <1>4 DEF TableOK
<1>6. RowsFit'
  BY <1>1 DEF RowsFit
<1> QED BY <1>1, <1>3, <1>5, <1>6

LEMMA Drops ==
  ASSUME TableOK, DropCollection
  PROVE  TableOK' /\ RowsFit' /\ ~There' /\ created' = created
BY DEF TableOK, RowsFit, There, DropCollection

LEMMA Adds ==
  ASSUME TableOK, RowsFit, There, NEW c \in AddedColumns, c.name \notin Names(fields),
         AddField(c), UNCHANGED <<indexed, loaded, rows, created>>
  PROVE  TableOK' /\ RowsFit' /\ There' /\ (Pad \in Names(fields)' <=> Pad \in Names(fields))
<1>1. /\ fields' = AlterAddField(fields, c)
      /\ Fields(fields) /\ VectorNames # {} /\ indexed \subseteq VectorNames /\ created > 0
      /\ \A f \in ToSet(fields) : PadField(f)
  BY DEF AddField, TableOK
<1>2. /\ Fields(fields')
      /\ ToSet(fields) \subseteq ToSet(fields')
      /\ \A f \in ToSet(fields') \ ToSet(fields) : f.name = c.name /\ f.nullable
  BY <1>1, Altered
<1>3. c.name # Pad
  BY ColumnsAssumption
<1>4. VectorNames \subseteq VectorNames' /\ Filled \subseteq Filled'
  BY <1>2 DEF VectorNames, Filled
<1>5. Required' \subseteq Required
  BY <1>2, <1>4 DEF Required
<1>6. There'
  <2>1. PICK f \in ToSet(fields) : TRUE
    BY <1>1 DEF VectorNames
  <2> QED BY <1>2, <2>1, SchemaIsThere DEF There
<1>7. Pad \in Names(fields)' <=> Pad \in Names(fields)
  BY <1>2, <1>3 DEF Names
<1>8. \A f \in ToSet(fields') : PadField(f)
  BY <1>1, <1>2, <1>3 DEF PadField
<1>9. TableOK'
  BY <1>1, <1>2, <1>4, <1>6, <1>8 DEF TableOK
<1>10. RowsFit'
  BY <1>5 DEF RowsFit
<1> QED BY <1>6, <1>7, <1>9, <1>10

LEMMA Stores ==
  ASSUME TableOK, RowsFit, NEW given, Accepts(given), Store(given)
  PROVE  TableOK' /\ RowsFit'
<1>1. /\ There /\ Required \subseteq given
      /\ rows' = rows \cup {given \cup Filled}
      /\ fields' = fields /\ indexed' = indexed /\ loaded' = loaded /\ created' = created
  BY DEF Accepts, Store
<1>2. TableOK'
  BY <1>1 DEF TableOK, There, VectorNames
<1>3. Required' = Required
  BY <1>1 DEF Required, Filled
<1>4. RowsFit'
  BY <1>1, <1>3 DEF RowsFit
<1> QED BY <1>2, <1>4

\* Every step keeps the table well formed and its rows whole.  One that makes no
\* new table leaves the pad vector where it was, or drops the table.
LEMMA TableStep ==
  ASSUME IInv, [Next]_vars
  PROVE  /\ TableOK' /\ RowsFit'
         /\ \/ created' = created + 1
            \/ created' = created /\ (There' => There /\ (Has(Pad)' <=> Has(Pad)))
<1> USE DEF IInv
<1>0. TableOK /\ RowsFit
  OBVIOUS
<1> DEFINE Goal == /\ TableOK' /\ RowsFit'
                   /\ \/ created' = created + 1
                      \/ created' = created /\ (There' => There /\ (Has(Pad)' <=> Has(Pad)))
<1>1. ASSUME UNCHANGED table PROVE Goal
  BY <1>0, <1>1 DEF table, TableOK, RowsFit, There, Has, VectorNames, Required, Filled
<1>2. ASSUME NEW d \in Processes, CreateModel(d) PROVE Goal
  <2>1. PICK model \in Models : CreateCollection(ModelTable(model))
    BY <1>2 DEF CreateModel
  <2>2. created < MaxTables
    BY <1>2 DEF CreateModel
  <2> QED BY <1>0, <2>1, <2>2, ModelMade, Creates
<1>3. ASSUME NEW d \in Processes, CreateIndex(d) PROVE Goal
  <2>1. /\ There /\ Pad \in Names(fields) /\ indexed' = indexed \cup {Pad}
        /\ UNCHANGED <<fields, loaded, rows, created>>
    BY <1>3 DEF CreateIndex, Has
  <2>2. Pad \in VectorNames
    BY <1>0, <2>1, PadIsGiven
  <2>3. TableOK'
    BY <1>0, <2>1, <2>2 DEF TableOK, There, VectorNames
  <2> QED BY <1>0, <2>1, <2>3 DEF RowsFit, There, Has, Required, Filled
<1>4. ASSUME NEW d \in Processes, LoadTable(d) PROVE Goal
  <2>1. There /\ loaded' = TRUE /\ UNCHANGED <<fields, indexed, rows, created>>
    BY <1>4 DEF LoadTable
  <2>2. TableOK'
    BY <1>0, <2>1 DEF TableOK, There, VectorNames
  <2> QED BY <1>0, <2>1, <2>2 DEF RowsFit, There, Has, Required, Filled
<1>5. ASSUME DropCollection PROVE Goal
  BY <1>0, <1>5, Drops
<1>6. ASSUME AlterTable PROVE Goal
  <2>1. PICK c \in AddedColumns : c.name \notin Names(fields) /\ AddField(c)
    BY <1>6 DEF AlterTable
  <2>2. There /\ UNCHANGED <<indexed, loaded, rows, created>>
    BY <1>6 DEF AlterTable
  <2>3. TableOK' /\ RowsFit' /\ There' /\ (Pad \in Names(fields)' <=> Pad \in Names(fields))
    BY <1>0, <2>1, <2>2, Adds
  <2> QED BY <2>2, <2>3 DEF Has
<1>7. ASSUME NEW given, Accepts(given), Store(given) PROVE Goal
  <2>1. TableOK' /\ RowsFit'
    BY <1>0, <1>7, Stores
  <2>2. There /\ created' = created /\ fields' = fields
    BY <1>7 DEF Accepts, Store
  <2> QED BY <2>1, <2>2 DEF There, Has
<1>8. ASSUME NEW d \in Processes, Insert(d) \/ InsertUnmatched(d) PROVE Goal
  <2>1. PICK form, given : Send(d, form, given)
    BY <1>8 DEF Insert, InsertUnmatched
  <2> QED BY <1>1, <1>7, <2>1 DEF Send
<1>9. ASSUME CreateAll PROVE Goal
  <2>1. CASE UNCHANGED table
    BY <1>1, <2>1
  <2>2. CASE ~UNCHANGED table
    <3>1. created < MaxTables
      BY <1>9, <2>2 DEF CreateAll
    <3>2. PICK def \in Definitions :
            CreateTable(def) # Refused /\ CreateCollection(CreateTable(def))
      BY <1>9, <2>2 DEF CreateAll
    <3> QED BY <1>0, <3>1, <3>2, DefinitionMade, Creates
  <2> QED BY <2>1, <2>2
<1>10. ASSUME InsertRow PROVE Goal
  BY <1>7, <1>10 DEF InsertRow
<1>11. ASSUME NEW d \in Processes, BeginInsert(d) \/ StatementFails(d) \/ Restart(d) PROVE Goal
  BY <1>1, <1>11 DEF BeginInsert, StatementFails, Restart
<1>12. ASSUME HasTable \/ UNCHANGED vars PROVE Goal
  BY <1>1, <1>12 DEF HasTable, vars, table
<1>13. ASSUME NEW d \in Processes, DeleteModel(d) PROVE Goal
  BY <1>5, <1>13 DEF DeleteModel
<1>14. ASSUME DropTable PROVE Goal
  BY <1>5, <1>14 DEF DropTable
<1>15. ASSUME ReleaseTable PROVE Goal
  <2>1. /\ There /\ loaded' = FALSE /\ UNCHANGED <<fields, indexed, rows, created>>
    BY <1>0, <1>15 DEF ReleaseTable, TableOK
  <2>2. TableOK'
    BY <1>0, <2>1 DEF TableOK, There, VectorNames
  <2> QED BY <1>0, <2>1, <2>2 DEF RowsFit, There, Has, Required, Filled
<1> HIDE DEF Goal
<1>16. Goal
  BY <1>2, <1>3, <1>4, <1>6, <1>8, <1>9, <1>10, <1>11, <1>12, <1>13, <1>14, <1>15 DEF Next
<1> QED BY <1>16 DEF Goal

-----------------------------------------------------------------------------
(* What it does to the processes.                                          *)

LEMMA Went ==
  ASSUME ProcessesOK, NEW d \in Processes, NEW step, Go(d, step)
  PROVE  \A e \in Processes : pc'[e] = IF e = d THEN step ELSE pc[e]
BY DEF Go, ProcessesOK

LEMMA ProcessStep ==
  ASSUME IInv, [Next]_vars
  PROVE  ProcessesOK'
<1>1. ProcessesOK /\ created \in 0..MaxTables /\ KnowsPad /\ (There => created > 0)
  BY DEF IInv, TableOK
<1>2. MaxTables \in Nat
  BY BoundsAssumption
<1>3. ASSUME UNCHANGED <<pc, padding, cache, making, described, abandoned, refused>>,
             checking' \in BOOLEAN
      PROVE  ProcessesOK'
  BY <1>1, <1>3 DEF ProcessesOK
<1>4. ASSUME NEW d \in Processes, CreateModel(d) PROVE ProcessesOK'
  <2>1. PICK model \in Models :
          CreateCollection(ModelTable(model)) /\ Go(d, IF NeedsPad(model) THEN "index" ELSE "idle")
    BY <1>4 DEF CreateModel
  <2>2. /\ created' = created + 1 /\ created < MaxTables
        /\ making' = [making EXCEPT ![d] = created']
        /\ UNCHANGED <<padding, cache, checking, described, abandoned, refused>>
    BY <1>4, <2>1 DEF CreateModel, CreateCollection
  <2>3. created' \in 0..MaxTables /\ created' > 0
    BY <1>1, <1>2, <2>2
  <2>4. making' \in [Processes -> 0..MaxTables]
    BY <1>1, <2>2, <2>3 DEF ProcessesOK
  <2>5. pc' \in [Processes -> {"idle", "index", "load", "insert"}]
    BY <1>1, <2>1 DEF Go, ProcessesOK
  <2>6. \A e \in Processes : pc'[e] \in {"index", "load"} => making'[e] > 0
    <3>1. \A e \in Processes : making'[e] = IF e = d THEN created' ELSE making[e]
      BY <1>1, <2>2 DEF ProcessesOK
    <3>2. \A e \in Processes : e # d => pc'[e] = pc[e]
      BY <1>1, <2>1 DEF Go, ProcessesOK
    <3> QED BY <1>1, <2>3, <3>1, <3>2 DEF ProcessesOK
  <2> QED BY <1>1, <2>2, <2>4, <2>5, <2>6 DEF ProcessesOK
<1>5. ASSUME NEW d \in Processes, NEW step \in {"idle", "index", "load", "insert"}, Go(d, step),
             step \in {"index", "load"} => pc[d] \in {"index", "load"},
             UNCHANGED <<checking, making>>,
             cache' \in [Processes -> BOOLEAN \cup {Unknown}],
             padding' \in [Processes -> BOOLEAN], refused' \in [Processes -> Refusals],
             described' \in [Processes -> 0..MaxTables],
             abandoned' \in SUBSET (1..MaxTables)
      PROVE  ProcessesOK'
  <2>1. \A e \in Processes : pc'[e] = IF e = d THEN step ELSE pc[e]
    BY <1>1, <1>5, Went
  <2>2. pc' \in [Processes -> {"idle", "index", "load", "insert"}]
    BY <1>1, <1>5 DEF Go, ProcessesOK
  <2>3. \A e \in Processes : pc'[e] \in {"index", "load"} => making'[e] > 0
    BY <1>1, <1>5, <2>1 DEF ProcessesOK
  <2> QED BY <1>1, <1>5, <2>2, <2>3 DEF ProcessesOK
<1>6. ASSUME NEW d \in Processes, CreateIndex(d) PROVE ProcessesOK'
  <2>1. pc[d] = "index" /\ Go(d, "load")
        /\ UNCHANGED <<checking, making, cache, padding, refused, described, abandoned>>
    BY <1>6 DEF CreateIndex, AfterIndex
  <2> QED BY <1>1, <1>5, <2>1 DEF ProcessesOK
<1>7. ASSUME NEW d \in Processes, LoadTable(d) PROVE ProcessesOK'
  <2>1. Go(d, "idle")
        /\ UNCHANGED <<checking, making, cache, padding, refused, described, abandoned>>
    BY <1>7 DEF LoadTable
  <2> QED BY <1>1, <1>5, <2>1 DEF ProcessesOK
<1>8. ASSUME NEW d \in Processes, BeginInsert(d) PROVE ProcessesOK'
  <2>1. /\ Go(d, "insert") /\ refused' = [refused EXCEPT ![d] = "no"]
        /\ UNCHANGED <<table, checking, making, abandoned>>
    BY <1>8 DEF BeginInsert
  <2>2. refused' \in [Processes -> Refusals] /\ abandoned' \in SUBSET (1..MaxTables)
    BY <1>1, <2>1 DEF ProcessesOK, Refusals
  <2>3. PICK answer \in {Unknown} \cup (IF There THEN {Has(Pad)} ELSE {}) :
          IF cache[d] # Unknown
          THEN padding' = [padding EXCEPT ![d] = cache[d]] /\ UNCHANGED <<cache, described>>
          ELSE /\ padding' = [padding EXCEPT ![d] = (answer = TRUE)]
               /\ cache' = [cache EXCEPT ![d] = Remember(@, answer)]
               /\ described' = [described EXCEPT ![d] = IF cache'[d] = Unknown THEN 0 ELSE created]
    BY <1>8 DEF BeginInsert
  <2>4. answer \in BOOLEAN \cup {Unknown}
    BY <2>3 DEF Has
  <2>5. /\ cache' \in [Processes -> BOOLEAN \cup {Unknown}]
        /\ padding' \in [Processes -> BOOLEAN] /\ described' \in [Processes -> 0..MaxTables]
    <3>1. CASE cache[d] # Unknown
      <4>1. padding' = [padding EXCEPT ![d] = cache[d]] /\ UNCHANGED <<cache, described>>
        BY <2>3, <3>1
      <4>2. cache[d] \in BOOLEAN
        BY <1>1, <3>1 DEF ProcessesOK
      <4> QED BY <1>1, <4>1, <4>2 DEF ProcessesOK
    <3>2. CASE cache[d] = Unknown
      <4>1. /\ padding' = [padding EXCEPT ![d] = (answer = TRUE)]
            /\ cache' = [cache EXCEPT ![d] = Remember(cache[d], answer)]
            /\ described' = [described EXCEPT ![d] = IF cache'[d] = Unknown THEN 0 ELSE created]
        BY <2>3, <3>2
      <4>2. Remember(cache[d], answer) \in BOOLEAN \cup {Unknown}
        BY <2>4, <3>2 DEF Remember
      <4>3. cache' \in [Processes -> BOOLEAN \cup {Unknown}]
        BY <1>1, <4>1, <4>2 DEF ProcessesOK
      <4>4. padding' \in [Processes -> BOOLEAN]
        BY <1>1, <4>1 DEF ProcessesOK
      <4>5. (IF cache'[d] = Unknown THEN 0 ELSE created) \in 0..MaxTables
        BY <1>1, <1>2
      <4>6. described' \in [Processes -> 0..MaxTables]
        BY <1>1, <4>1, <4>5 DEF ProcessesOK
      <4> QED BY <4>3, <4>4, <4>6
    <3> QED BY <3>1, <3>2
  <2> QED BY <1>1, <1>5, <2>1, <2>2, <2>5 DEF ProcessesOK
<1>9. ASSUME NEW d \in Processes, NEW form \in {"single", "unmatched"}, NEW given,
             Send(d, form, given)
      PROVE  ProcessesOK'
  <2>1. Go(d, "idle") /\ UNCHANGED <<checking, making, cache, padding, described, abandoned>>
    BY <1>9 DEF Send
  <2>2. refused' = [refused EXCEPT ![d] = "no"] \/ refused' = [refused EXCEPT ![d] = form]
    BY <1>9 DEF Send
  <2>3. refused' \in [Processes -> Refusals]
    BY <1>1, <2>2 DEF ProcessesOK, Refusals
  <2> QED BY <1>1, <1>5, <2>1, <2>3 DEF ProcessesOK
<1>10. ASSUME NEW d \in Processes, StatementFails(d) \/ Restart(d) PROVE ProcessesOK'
  <2>1. /\ Abandon(d) /\ UNCHANGED <<checking, making, padding, described, refused>>
        /\ cache' = cache \/ cache' = [cache EXCEPT ![d] = Unknown]
    BY <1>10 DEF StatementFails, Restart
  <2>2. Go(d, "idle")
    BY <2>1 DEF Abandon
  <2>3. cache' \in [Processes -> BOOLEAN \cup {Unknown}]
    BY <1>1, <2>1 DEF ProcessesOK
  <2>4. abandoned' \in SUBSET (1..MaxTables)
    <3>1. CASE pc[d] \in {"index", "load"}
      <4>1. abandoned' = abandoned \cup {making[d]}
        BY <2>1, <3>1 DEF Abandon
      <4>2. making[d] \in 0..MaxTables /\ making[d] > 0
        BY <1>1, <3>1 DEF ProcessesOK
      <4>3. making[d] \in 1..MaxTables
        BY <1>2, <4>2
      <4> QED BY <1>1, <4>1, <4>3 DEF ProcessesOK
    <3>2. CASE pc[d] \notin {"index", "load"}
      BY <1>1, <2>1, <3>2 DEF Abandon, ProcessesOK
    <3> QED BY <3>1, <3>2
  <2> QED BY <1>1, <1>5, <2>1, <2>2, <2>3, <2>4 DEF ProcessesOK
<1>11. ASSUME (\E d \in Processes : DeleteModel(d)) \/ AlterTable \/ DropTable \/ InsertRow
              \/ UNCHANGED vars
       PROVE  ProcessesOK'
  BY <1>1, <1>3, <1>11 DEF DeleteModel, AlterTable, DropTable, InsertRow, vars, ProcessesOK
<1>12. ASSUME HasTable \/ CreateAll PROVE ProcessesOK'
  BY <1>3, <1>12 DEF HasTable, CreateAll
<1>13. ASSUME NEW d \in Processes, Insert(d) \/ InsertUnmatched(d) PROVE ProcessesOK'
  BY <1>9, <1>13 DEF Insert, InsertUnmatched
<1>14. ASSUME ReleaseTable PROVE ProcessesOK'
  <2>1. /\ abandoned' = abandoned \cup {created} /\ There
        /\ UNCHANGED <<pc, padding, cache, checking, making, described, refused>>
    BY <1>14 DEF ReleaseTable, IInv, TableOK
  <2>2. created \in 1..MaxTables
    BY <1>1, <1>2, <2>1
  <2> QED BY <1>1, <2>1, <2>2 DEF ProcessesOK
<1> QED BY <1>4, <1>6, <1>7, <1>8, <1>10, <1>11, <1>12, <1>13, <1>14 DEF Next

-----------------------------------------------------------------------------
(* What a process knows of the pad vector.                                 *)

\* An INSERT that pads exactly if the table has the pad vector is taken.
LEMMA PaddedRightIsTaken ==
  ASSUME TableOK, There, NEW padded \in BOOLEAN, padded = Has(Pad)
  PROVE  Accepts(IF padded THEN ModelColumns \cup {Pad} ELSE ModelColumns)
<1> DEFINE given == IF padded THEN ModelColumns \cup {Pad} ELSE ModelColumns
<1>1. Pad \in Names(fields) => Pad \notin Filled
  BY PadIsGiven
<1>2. padded <=> Pad \in Names(fields)
  BY DEF Has
<1>3. given = Names(fields) \ Filled
  BY <1>1, <1>2 DEF ModelColumns
<1>4. Required \subseteq Names(fields) \ Filled
  BY DEF Required, Names
<1> QED BY <1>3, <1>4 DEF Accepts

\* A process that does not insert knows no less than before, whatever became of
\* the table.
LEMMA StillKnows ==
  ASSUME KnowsPad, RefusedOnlyIfRecreated, ProcessesOK, created \in Nat,
         \/ created' = created + 1
         \/ created' = created /\ (There' => There /\ (Has(Pad)' <=> Has(Pad))),
         NEW d \in Processes,
         described'[d] = described[d],
         cache'[d] = cache[d] \/ cache'[d] = Unknown,
         pc'[d] = "insert" => pc[d] = "insert" /\ padding'[d] = padding[d],
         refused'[d] = "single" => refused[d] = "single"
  PROVE  /\ described'[d] <= created'
         /\ There' /\ described'[d] = created' =>
              /\ cache'[d] # Unknown => cache'[d] = Has(Pad)'
              /\ pc'[d] = "insert" => padding'[d] = Has(Pad)'
         /\ refused'[d] = "single" => described'[d] < created'
<1>1. described[d] \in Nat /\ described[d] <= created
  BY BoundsAssumption DEF KnowsPad, ProcessesOK
<1>2. refused[d] = "single" => described[d] < created
  BY DEF RefusedOnlyIfRecreated
<1>3. CASE created' = created + 1
  BY <1>1, <1>3
<1>4. CASE created' = created /\ (There' => There /\ (Has(Pad)' <=> Has(Pad)))
  <2>1. There' => Has(Pad)' = Has(Pad)
    BY <1>4 DEF Has
  <2>2. /\ There /\ described[d] = created =>
              /\ cache[d] # Unknown => cache[d] = Has(Pad)
              /\ pc[d] = "insert" => padding[d] = Has(Pad)
    BY DEF KnowsPad
  <2>3. described'[d] <= created' /\ (refused'[d] = "single" => described'[d] < created')
    BY <1>1, <1>2, <1>4
  <2>4. ASSUME There', described'[d] = created'
        PROVE  /\ cache'[d] # Unknown => cache'[d] = Has(Pad)'
               /\ pc'[d] = "insert" => padding'[d] = Has(Pad)'
    BY <1>4, <2>1, <2>2, <2>4
  <2> QED BY <2>3, <2>4
<1> QED BY <1>3, <1>4

LEMMA KnowsStep ==
  ASSUME IInv, [Next]_vars
  PROVE  KnowsPad' /\ RefusedOnlyIfRecreated'
<1>1. /\ TableOK /\ ProcessesOK /\ KnowsPad /\ RefusedOnlyIfRecreated
      /\ created \in Nat /\ (There => created > 0)
  BY BoundsAssumption DEF IInv, TableOK
<1>2. \/ created' = created + 1
      \/ created' = created /\ (There' => There /\ (Has(Pad)' <=> Has(Pad)))
  BY TableStep
<1> DEFINE Knows(e) == /\ described'[e] <= created'
                       /\ There' /\ described'[e] = created' =>
                            /\ cache'[e] # Unknown => cache'[e] = Has(Pad)'
                            /\ pc'[e] = "insert" => padding'[e] = Has(Pad)'
                       /\ refused'[e] = "single" => described'[e] < created'
           Keeps(e) == /\ described'[e] = described[e]
                       /\ cache'[e] = cache[e] \/ cache'[e] = Unknown
                       /\ pc'[e] = "insert" => pc[e] = "insert" /\ padding'[e] = padding[e]
                       /\ refused'[e] = "single" => refused[e] = "single"
<1>3. ASSUME NEW e \in Processes, Keeps(e) PROVE Knows(e)
  BY <1>1, <1>2, <1>3, StillKnows
<1>4. SUFFICES ASSUME NEW e \in Processes PROVE Knows(e)
  BY DEF KnowsPad, RefusedOnlyIfRecreated
<1>5. ASSUME NEW d \in Processes, NEW step, step # "insert", Go(d, step),
             UNCHANGED <<padding, described, refused>>,
             cache' = cache \/ cache' = [cache EXCEPT ![d] = Unknown]
      PROVE  Knows(e)
  <2>1. \A p \in Processes : pc'[p] = IF p = d THEN step ELSE pc[p]
    BY <1>1, <1>5, Went
  <2>2. cache'[e] = cache[e] \/ cache'[e] = Unknown
    BY <1>1, <1>5 DEF ProcessesOK
  <2> QED BY <1>3, <1>5, <2>1, <2>2
<1>6. ASSUME NEW d \in Processes,
             CreateModel(d) \/ CreateIndex(d) \/ LoadTable(d) \/ StatementFails(d) \/ Restart(d)
      PROVE  Knows(e)
  <2>1. /\ UNCHANGED <<padding, described, refused>>
        /\ cache' = cache \/ cache' = [cache EXCEPT ![d] = Unknown]
    BY <1>6 DEF CreateModel, CreateIndex, LoadTable, StatementFails, Restart
  <2>2. \E step \in {"index", "load", "idle"} : Go(d, step)
    BY <1>6 DEF CreateModel, CreateIndex, AfterIndex, LoadTable, StatementFails, Restart, Abandon
  <2>3. "insert" \notin {"index", "load", "idle"}
    OBVIOUS
  <2> QED BY <1>5, <2>1, <2>2, <2>3
<1>7. ASSUME UNCHANGED <<pc, padding, cache, described, refused>> PROVE Knows(e)
  BY <1>3, <1>7
<1>8. ASSUME NEW d \in Processes, BeginInsert(d) PROVE Knows(e)
  <2>1. /\ Go(d, "insert") /\ refused' = [refused EXCEPT ![d] = "no"]
        /\ UNCHANGED table
    BY <1>8 DEF BeginInsert
  <2>2. PICK answer \in {Unknown} \cup (IF There THEN {Has(Pad)} ELSE {}) :
          IF cache[d] # Unknown
          THEN padding' = [padding EXCEPT ![d] = cache[d]] /\ UNCHANGED <<cache, described>>
          ELSE /\ padding' = [padding EXCEPT ![d] = (answer = TRUE)]
               /\ cache' = [cache EXCEPT ![d] = Remember(@, answer)]
               /\ described' = [described EXCEPT ![d] = IF cache'[d] = Unknown THEN 0 ELSE created]
    BY <1>8 DEF BeginInsert
  <2>3. /\ created' = created /\ There' = There /\ Has(Pad)' = Has(Pad)
    BY <2>1 DEF table, There, Has
  <2>4. /\ \A p \in Processes : pc'[p] = IF p = d THEN "insert" ELSE pc[p]
        /\ refused'[e] = IF e = d THEN "no" ELSE refused[e]
    BY <1>1, <2>1, Went DEF ProcessesOK
  <2>5. CASE e # d
    <3>1. described'[e] = described[e] /\ cache'[e] = cache[e] /\ padding'[e] = padding[e]
      BY <1>1, <2>2, <2>5 DEF ProcessesOK
    <3> QED BY <1>3, <2>4, <2>5, <3>1
  <2>6. CASE e = d /\ cache[d] # Unknown
    <3>1. padding' = [padding EXCEPT ![d] = cache[d]] /\ UNCHANGED <<cache, described>>
      BY <2>2, <2>6
    <3>2. padding'[d] = cache[d] /\ refused'[d] = "no"
      BY <1>1, <2>4, <2>6, <3>1 DEF ProcessesOK
    <3>3. /\ described[d] <= created
          /\ There /\ described[d] = created => cache[d] = Has(Pad)
      BY <1>1, <2>6 DEF KnowsPad
    <3> QED BY <2>3, <2>6, <3>1, <3>2, <3>3
  <2>7. CASE e = d /\ cache[d] = Unknown
    <3>1. /\ padding' = [padding EXCEPT ![d] = (answer = TRUE)]
          /\ cache' = [cache EXCEPT ![d] = Remember(cache[d], answer)]
          /\ described' = [described EXCEPT ![d] = IF cache'[d] = Unknown THEN 0 ELSE created]
      BY <2>2, <2>7
    <3>2. /\ cache'[d] = answer /\ padding'[d] = (answer = TRUE) /\ refused'[d] = "no"
          /\ described'[d] = IF cache'[d] = Unknown THEN 0 ELSE created
      BY <1>1, <2>4, <2>7, <3>1 DEF ProcessesOK, Remember
    <3>3. CASE answer = Unknown
      <4>1. described'[d] = 0 /\ 0 <= created /\ (There => 0 # created)
        BY <1>1, <3>2, <3>3
      <4> QED BY <2>3, <2>7, <3>2, <4>1
    <3>4. CASE answer # Unknown
      <4>1. There /\ answer = Has(Pad) /\ answer \in BOOLEAN
        BY <2>2, <3>4 DEF Has
      <4>2. described'[d] = created /\ created <= created
        BY <1>1, <3>2, <3>4
      <4>3. cache'[d] = Has(Pad)' /\ padding'[d] = Has(Pad)'
        BY <2>3, <3>2, <4>1
      <4> QED BY <2>3, <2>7, <3>2, <4>2, <4>3
    <3> QED BY <3>3, <3>4
  <2> QED BY <2>5, <2>6, <2>7
<1>9. ASSUME NEW d \in Processes, NEW form \in {"single", "unmatched"}, NEW given,
             Send(d, form, given),
             form = "single" => described[d] < created \/ Accepts(given)
      PROVE  Knows(e)
  <2>1. Go(d, "idle") /\ There /\ UNCHANGED <<padding, cache, described>>
    BY <1>9 DEF Send
  <2>2. \A p \in Processes : pc'[p] = IF p = d THEN "idle" ELSE pc[p]
    BY <1>1, <2>1, Went
  <2>3. \/ refused' = [refused EXCEPT ![d] = "no"]
        \/ ~Accepts(given) /\ refused' = [refused EXCEPT ![d] = form] /\ UNCHANGED table
    BY <1>9 DEF Send
  <2>4. CASE refused'[e] = "single" => refused[e] = "single"
    BY <1>3, <2>1, <2>2, <2>4
  <2>5. CASE refused'[e] = "single" /\ refused[e] # "single"
    <3>1. \/ \A p \in Processes : refused'[p] = IF p = d THEN "no" ELSE refused[p]
          \/ \A p \in Processes : refused'[p] = IF p = d THEN form ELSE refused[p]
      BY <1>1, <2>3 DEF ProcessesOK
    <3>2. e = d
      BY <2>5, <3>1
    <3>3. refused' # [refused EXCEPT ![d] = "no"]
      <4>1. refused' = [refused EXCEPT ![d] = "no"] => refused'[d] = "no"
        BY <1>1 DEF ProcessesOK
      <4> QED BY <2>5, <3>2, <4>1
    <3>4. ~Accepts(given) /\ refused' = [refused EXCEPT ![d] = form] /\ UNCHANGED table
      BY <2>3, <3>3
    <3>5. form = "single"
      <4>1. refused'[d] = form
        BY <1>1, <3>4 DEF ProcessesOK
      <4> QED BY <2>5, <3>2, <4>1
    <3>6. described[d] < created /\ created' = created
      BY <1>9, <3>4, <3>5 DEF table
    <3>7. described[d] \in Nat
      BY <1>1, BoundsAssumption DEF ProcessesOK
    <3>8. described'[e] = described[e] /\ described'[e] < created' /\ described'[e] \in Nat
      BY <2>1, <3>2, <3>6, <3>7
    <3>9. described'[e] <= created' /\ described'[e] # created'
      BY <1>1, <3>6, <3>8
    <3> QED BY <3>8, <3>9
  <2> QED BY <2>4, <2>5
<1>10. ASSUME NEW d \in Processes, Insert(d) PROVE Knows(e)
  <2> DEFINE given == IF padding[d] THEN ModelColumns \cup {Pad} ELSE ModelColumns
  <2>1. pc[d] = "insert" /\ Send(d, "single", given) /\ There
    BY <1>10 DEF Insert, Send
  <2>2. described[d] < created \/ Accepts(given)
    <3>1. described[d] \in Nat /\ described[d] <= created
      BY <1>1, BoundsAssumption DEF KnowsPad, ProcessesOK
    <3>2. CASE described[d] = created
      <4>1. padding[d] \in BOOLEAN /\ padding[d] = Has(Pad)
        BY <1>1, <2>1, <3>2 DEF KnowsPad, ProcessesOK
      <4> QED BY <1>1, <2>1, <4>1, PaddedRightIsTaken
    <3> QED BY <1>1, <3>1, <3>2
  <2> HIDE DEF given
  <2> QED BY <1>9, <2>1, <2>2
<1>11. ASSUME NEW d \in Processes, InsertUnmatched(d) PROVE Knows(e)
  BY <1>9, <1>11 DEF InsertUnmatched
<1>12. ASSUME \/ \E d \in Processes : DeleteModel(d)
              \/ AlterTable \/ HasTable \/ CreateAll \/ DropTable \/ ReleaseTable \/ InsertRow
              \/ UNCHANGED vars
       PROVE  Knows(e)
  <2>1. UNCHANGED <<pc, padding, cache, described, refused>>
    BY <1>12 DEF DeleteModel, AlterTable, HasTable, CreateAll, DropTable, ReleaseTable, InsertRow, vars
  <2> QED BY <1>7, <2>1
<1> HIDE DEF Knows
<1> QED BY <1>6, <1>8, <1>10, <1>11, <1>12 DEF Next

-----------------------------------------------------------------------------
(* Whether a padded table can be queried.                                  *)

LEMMA QueryableStep ==
  ASSUME IInv, [Next]_vars
  PROVE  QueryableUnlessAbandoned'
<1> DEFINE underWay(d) == pc[d] \in {"index", "load"} /\ making[d] = created
<1>1. ProcessesOK /\ TableOK /\ created \in Nat
  BY BoundsAssumption DEF IInv, TableOK
<1>2. Has(Pad) /\ created \notin abandoned /\ (\A d \in Processes : ~underWay(d)) => loaded
  BY DEF IInv, QueryableUnlessAbandoned
<1> SUFFICES ASSUME Has(Pad)', (created \notin abandoned)',
                    \A d \in Processes : ~(underWay(d)')
             PROVE  loaded'
  BY DEF QueryableUnlessAbandoned
<1> HIDE DEF underWay
<1>3. ASSUME Has(Pad) /\ created' = created /\ loaded' = loaded,
             created \notin abandoned /\ (\A d \in Processes : ~underWay(d))
      PROVE  loaded'
  BY <1>2, <1>3
<1>4. ASSUME NEW d \in Processes, NEW step, Go(d, step), UNCHANGED <<making, created>>,
             pc[d] \in {"index", "load"} => step \in {"index", "load"}
      PROVE  \A e \in Processes : ~underWay(e)
  <2>1. \A p \in Processes : pc'[p] = IF p = d THEN step ELSE pc[p]
    BY <1>1, <1>4, Went
  <2> QED BY <1>4, <2>1 DEF underWay
<1>5. ASSUME NEW d \in Processes, CreateModel(d) PROVE loaded'
  <2>1. PICK model \in Models :
          CreateCollection(ModelTable(model)) /\ Go(d, IF NeedsPad(model) THEN "index" ELSE "idle")
    BY <1>5 DEF CreateModel
  <2>2. NeedsPad(model)
    BY <2>1, ModelMade DEF CreateCollection, Has
  <2>3. pc'[d] = "index" /\ making'[d] = created'
    BY <1>1, <1>5, <2>1, <2>2 DEF Go, CreateModel, ProcessesOK
  <2> QED BY <2>3 DEF underWay
<1>6. ASSUME NEW d \in Processes, CreateIndex(d) PROVE loaded'
  <2>1. /\ pc[d] = "index" /\ Go(d, "load") /\ Has(Pad)
        /\ UNCHANGED <<fields, loaded, created, making, abandoned>>
    BY <1>6 DEF CreateIndex, AfterIndex
  <2>2. \A e \in Processes : ~underWay(e)
    BY <1>4, <2>1
  <2> QED BY <1>3, <2>1, <2>2
<1>7. ASSUME NEW d \in Processes, LoadTable(d) PROVE loaded'
  BY <1>7 DEF LoadTable
<1>8. ASSUME DropCollection PROVE loaded'
  BY <1>8 DEF DropCollection, Has, There
<1>9. ASSUME AlterTable PROVE loaded'
  <2>1. created' = created /\ UNCHANGED <<loaded, pc, making, abandoned>>
    BY <1>9 DEF AlterTable
  <2>2. Has(Pad)
    <3>1. created' # created + 1
      BY <1>1, <2>1
    <3> QED BY <3>1, TableStep DEF Has
  <2> QED BY <1>3, <2>1, <2>2 DEF underWay
<1>10. ASSUME NEW d \in Processes, BeginInsert(d) PROVE loaded'
  <2>1. /\ pc[d] = "idle" /\ Go(d, "insert")
        /\ UNCHANGED <<fields, loaded, created, making, abandoned>>
    BY <1>10 DEF BeginInsert, table
  <2>2. \A e \in Processes : ~underWay(e)
    BY <1>4, <2>1
  <2> QED BY <1>3, <2>1, <2>2 DEF Has, There
<1>11. ASSUME NEW d \in Processes, Insert(d) \/ InsertUnmatched(d) PROVE loaded'
  <2>0. pc[d] \in {"idle", "insert"} /\ \E form, given : Send(d, form, given)
    BY <1>11 DEF Insert, InsertUnmatched
  <2>1. /\ pc[d] \notin {"index", "load"} /\ Go(d, "idle")
        /\ UNCHANGED <<fields, loaded, created, making, abandoned>>
    BY <2>0 DEF Send, Store, table
  <2>2. \A e \in Processes : ~underWay(e)
    BY <1>4, <2>1
  <2> QED BY <1>3, <2>1, <2>2 DEF Has, There
<1>12. ASSUME NEW d \in Processes, Abandon(d), UNCHANGED <<fields, loaded, created, making>>
       PROVE  loaded'
  <2>1. created \notin abandoned
    BY <1>12 DEF Abandon
  <2>2. ~underWay(d)
    BY <1>12 DEF Abandon, underWay
  <2>3. \A p \in Processes : p # d => pc'[p] = pc[p]
    BY <1>1, <1>12, Went DEF Abandon
  <2>4. \A e \in Processes : ~underWay(e)
    BY <1>12, <2>2, <2>3 DEF underWay
  <2> QED BY <1>3, <1>12, <2>1, <2>4 DEF Has, There
<1>13. ASSUME NEW d \in Processes, StatementFails(d) \/ Restart(d) PROVE loaded'
  BY <1>12, <1>13 DEF StatementFails, Restart, table
<1>14. ASSUME UNCHANGED <<fields, loaded, created, pc, making, abandoned>> PROVE loaded'
  BY <1>3, <1>14 DEF Has, There, underWay
<1>15. ASSUME CreateAll PROVE loaded'
  <2>1. UNCHANGED <<pc, making, abandoned>>
    BY <1>15 DEF CreateAll
  <2>2. CASE UNCHANGED table
    BY <1>14, <2>1, <2>2 DEF table
  <2>3. CASE ~UNCHANGED table
    <3>1. PICK def \in Definitions :
            CreateTable(def) # Refused /\ CreateCollection(CreateTable(def))
      BY <1>15, <2>3 DEF CreateAll
    <3> QED BY <3>1, DefinitionMade DEF CreateCollection, Has
  <2> QED BY <2>2, <2>3
<1>16. ASSUME HasTable \/ InsertRow \/ UNCHANGED vars PROVE loaded'
  BY <1>14, <1>16 DEF HasTable, InsertRow, Store, table, vars
<1>17. ASSUME (\E d \in Processes : DeleteModel(d)) \/ DropTable PROVE loaded'
  BY <1>8, <1>17 DEF DeleteModel, DropTable
<1>18. ASSUME ReleaseTable PROVE loaded'
  BY <1>18 DEF ReleaseTable
<1> QED BY <1>5, <1>6, <1>7, <1>9, <1>10, <1>11, <1>13, <1>15, <1>16, <1>17, <1>18 DEF Next

-----------------------------------------------------------------------------
(* The invariant, and what follows from it.                                *)

LEMMA InitIInv == Init => IInv
<1> SUFFICES ASSUME Init PROVE IInv
  OBVIOUS
<1>1. /\ fields = Absent /\ ~There /\ indexed = {} /\ loaded = FALSE /\ rows = {} /\ created = 0
      /\ created \in 0..MaxTables /\ 0 \in 0..MaxTables
  BY BoundsAssumption DEF Init, There
<1>2. TableOK /\ RowsFit /\ QueryableUnlessAbandoned
  BY <1>1 DEF TableOK, RowsFit, QueryableUnlessAbandoned, Has
<1>3. ProcessesOK
  BY <1>1 DEF Init, ProcessesOK, Refusals
<1>4. KnowsPad /\ RefusedOnlyIfRecreated
  BY <1>1 DEF Init, KnowsPad, RefusedOnlyIfRecreated
<1> QED BY <1>2, <1>3, <1>4 DEF IInv

LEMMA IInvAlways == Spec => []IInv
<1>1. IInv /\ [Next]_vars => IInv'
  <2> SUFFICES ASSUME IInv, [Next]_vars PROVE IInv'
    OBVIOUS
  <2> QED BY TableStep, ProcessStep, KnowsStep, QueryableStep DEF IInv
<1> QED BY <1>1, InitIInv, PTL DEF Spec

\* Every schema that Django, SQL and SQLAlchemy can bring about is one Milvus
\* can hold: every field of a type it has and with a name of its own, a vector
\* among them, and indexes on vectors only (ast_to_pymilvus.py, schema.py).
THEOREM TypeCorrect == Spec => []TypeOK
<1>1. IInv => TypeOK
  <2> SUFFICES ASSUME IInv PROVE TypeOK
    OBVIOUS
  <2>1. TableOK /\ ProcessesOK
    BY DEF IInv
  <2>2. \A d \in Processes : cache[d] = Unknown \/ cache[d] \in BOOLEAN
    BY <2>1 DEF ProcessesOK
  <2>3. There => \A i \in DOMAIN fields : fields[i].type.type # "none"
    BY <2>1, NotNone DEF TableOK, Fields, FieldOK
  <2> QED BY <2>1, <2>2, <2>3 DEF TypeOK, TableOK, ProcessesOK, Refusals, Fields
<1> QED BY <1>1, IInvAlways, PTL

\* base.py: the cached answer of _table_needs_pad_vector.  Milvus refuses a
\* process's single-row INSERT for the pad vector only if the process could not
\* ask about the table, or the table it asked about has been dropped.
THEOREM PadRefusedOnlyIfRecreated == Spec => []RefusedOnlyIfRecreated
<1>1. IInv => RefusedOnlyIfRecreated
  BY DEF IInv
<1> QED BY <1>1, IInvAlways, PTL

\* schema.py: a table that create_model padded is loaded unless create_model is
\* still at work on it, or failed or died on it, or it has been released.
THEOREM PaddedTablesQueryable == Spec => []QueryableUnlessAbandoned
<1>1. IInv => QueryableUnlessAbandoned
  BY DEF IInv
<1> QED BY <1>1, IInvAlways, PTL

\* Every row has a value for every field that needs one, also after ADD FIELD
\* (_build_alter_add_field).
THEOREM RowsAlwaysFit == Spec => []RowsFit
<1>1. IInv => RowsFit
  BY DEF IInv
<1> QED BY <1>1, IInvAlways, PTL

\* A description keeps all of a field that it can spell.
LEMMA SpelledKept ==
  ASSUME NEW f, FieldOK(f), Spelled(f)
  PROVE  /\ KeptType(f.type) = f.type
         /\ Kept(f, f.type) = f
         /\ Kept(f, Widened(f.type)) = Wider(f)
<1>1. f.type.analyzed = FALSE
  BY DEF FieldOK, Made, Whole, Spelled
<1>2. (IF f.type.elem = "VARCHAR" THEN MaxLength ELSE f.type.size) = f.type.size
  BY DEF Spelled
<1>3. KeptType(f.type) = f.type
  <2> DEFINE m == f.type
             size == IF m.elem = "VARCHAR" THEN MaxLength ELSE m.size
  <2>1. m = MilvusType(m.type, m.size, m.cap, m.elem, m.analyzed) /\ m.analyzed = FALSE /\ size = m.size
    BY <1>1, <1>2 DEF FieldOK, Made, Whole
  <2>2. KeptType(m) = MilvusType(m.type, size, m.cap, m.elem, FALSE)
    BY DEF KeptType
  <2> HIDE DEF m, size
  <2>3. KeptType(m) = m
    BY ONLY <2>1, <2>2
  <2> QED BY <2>3 DEF m
<1>4. (f.nullable /\ f.type.type \notin VectorTypes) = f.nullable
  BY DEF FieldOK, Spelled
<1>5. \A type : Kept(f, type) = Field(f.name, type, f.nullable, f.primary, f.auto, f.source)
  BY <1>4 DEF Kept
<1>6. f = Field(f.name, f.type, f.nullable, f.primary, f.auto, f.source)
  BY DEF FieldOK
<1> QED BY <1>3, <1>5, <1>6 DEF Wider

\* What both copies make of the table: a column for every field that says this
\* much of it, of types that keep vectors vectors and make nothing else one.
LEMMA CopyMade ==
  ASSUME TableOK, There, NEW cs, NEW types, DOMAIN cs = DOMAIN fields,
         \A i \in DOMAIN fields :
           /\ cs[i].name = fields[i].name /\ MapDatatype(cs[i].type) = types[i]
           /\ cs[i].notNull = ~fields[i].nullable /\ cs[i].primary = fields[i].primary
           /\ cs[i].auto = fields[i].auto /\ cs[i].source = fields[i].source
           /\ types[i].type = fields[i].type.type \/ {types[i].type, fields[i].type.type} \subseteq ScalarTypes
  PROVE  CreateTable(Definition(cs, {})) = [i \in DOMAIN fields |-> Kept(fields[i], types[i])]
<1>1. ASSUME NEW i \in DOMAIN fields
      PROVE  /\ FieldOK(fields[i]) /\ fields[i].type.type # "none"
             /\ types[i].type # "none"
             /\ types[i].type \in VectorTypes <=> fields[i].type.type \in VectorTypes
             /\ cs[i].source # "" => types[i].type = "SPARSE_FLOAT_VECTOR"
  <2>1. FieldOK(fields[i]) /\ fields[i].type.type # "none"
    BY NotNone DEF TableOK, Fields, FieldOK
  <2>2. \A t \in ScalarTypes : t # "none" /\ t \notin VectorTypes /\ t # "SPARSE_FLOAT_VECTOR"
    BY VectorTypesAre DEF ScalarTypes
  <2> QED BY <2>1, <2>2 DEF FieldOK
<1>2. \A i \in DOMAIN fields : ToField(cs[i], {}) = Kept(fields[i], types[i])
  <2> SUFFICES ASSUME NEW i \in DOMAIN fields PROVE ToField(cs[i], {}) = Kept(fields[i], types[i])
    OBVIOUS
  <2> DEFINE f == fields[i]
             c == cs[i]
             m == types[i]
  <2>1. /\ FieldOK(f) /\ c.name = f.name /\ MapDatatype(c.type) = m /\ c.notNull = ~f.nullable
        /\ c.primary = f.primary /\ c.auto = f.auto /\ c.source = f.source
        /\ m.type \in VectorTypes <=> f.type.type \in VectorTypes
    BY <1>1
  <2> HIDE DEF f, c, m
  <2>2. ToField(c, {}) = Kept(f, m)
    BY ONLY <2>1, FieldRoundTrips
  <2> QED BY <2>2 DEF f, c, m
<1>3. \E i \in DOMAIN fields : MapDatatype(cs[i].type).type \in VectorTypes
  <2>1. PICK f \in ToSet(fields) : f.type.type \in VectorTypes
    BY DEF TableOK, VectorNames
  <2>2. PICK i \in DOMAIN fields : f = fields[i]
    BY DEF ToSet
  <2> QED BY <1>1, <2>1, <2>2
<1>4. CreateTable(Definition(cs, {})) = [i \in DOMAIN cs |-> ToField(cs[i], {})]
  <2>1. \A i \in DOMAIN cs :
          /\ MapDatatype(cs[i].type).type # "none"
          /\ cs[i].source # "" => MapDatatype(cs[i].type).type = "SPARSE_FLOAT_VECTOR"
    BY <1>1
  <2> QED BY <1>3, <2>1, NotRefused
<1> QED BY <1>2, <1>4

\* DESCRIBE's output round-trips into CREATE TABLE (ast_to_pymilvus.py) for the
\* tables whose fields it can spell, whatever CREATE TABLE and ADD FIELD made
\* them: a reader of it creates the same fields.
THEOREM DescriptionsRoundTrip == Spec => []DescribeRoundTrips
<1>1. IInv => DescribeRoundTrips
  <2> SUFFICES ASSUME TableOK, There, \A f \in ToSet(fields) : Spelled(f)
               PROVE  CreateTable(FromDescription(fields)) = fields
    BY DEF IInv, DescribeRoundTrips
  <2> DEFINE column(f) == LET r == DescribeRow(f) IN
                          [name |-> r.name, type |-> r.type, notNull |-> ~r.null,
                           primary |-> r.key, auto |-> r.auto, source |-> r.generated]
             cs == [i \in DOMAIN fields |-> column(fields[i])]
             types == [i \in DOMAIN fields |-> KeptType(fields[i].type)]
  <2>1. FromDescription(fields) = Definition(cs, {})
    BY DEF FromDescription
  <2>2. \A f : LET c == column(f) IN
               /\ c.name = f.name /\ c.type = DescribeType(f.type) /\ c.notNull = ~f.nullable
               /\ c.primary = f.primary /\ c.auto = f.auto /\ c.source = f.source
    BY DEF DescribeRow
  <2> HIDE DEF column
  <2>3. \A i \in DOMAIN fields : /\ cs[i] = column(fields[i])
                                 /\ types[i] = KeptType(fields[i].type)
                                 /\ types[i].type = fields[i].type.type
    BY DEF KeptType, MilvusType
  <2>4. \A i \in DOMAIN fields : MapDatatype(DescribeType(fields[i].type)) = KeptType(fields[i].type)
    BY TypeRoundTrips DEF TableOK, Fields, FieldOK
  <2>5. DOMAIN cs = DOMAIN fields
    OBVIOUS
  <2> HIDE DEF cs, types
  <2>6. CreateTable(Definition(cs, {})) = [i \in DOMAIN fields |-> Kept(fields[i], types[i])]
    <3>1. \A i \in DOMAIN fields :
            /\ cs[i].name = fields[i].name /\ MapDatatype(cs[i].type) = types[i]
            /\ cs[i].notNull = ~fields[i].nullable /\ cs[i].primary = fields[i].primary
            /\ cs[i].auto = fields[i].auto /\ cs[i].source = fields[i].source
            /\ types[i].type = fields[i].type.type
               \/ {types[i].type, fields[i].type.type} \subseteq ScalarTypes
      BY <2>2, <2>3, <2>4
    <3> QED BY <2>5, <3>1, CopyMade
  <2>7. ASSUME NEW i \in DOMAIN fields PROVE Kept(fields[i], types[i]) = fields[i]
    <3> DEFINE f == fields[i]
    <3>1. FieldOK(f) /\ Spelled(f) /\ types[i] = KeptType(f.type)
      BY <2>3 DEF TableOK, Fields, ToSet
    <3> HIDE DEF f
    <3>2. Kept(f, types[i]) = f
      BY ONLY <3>1, SpelledKept
    <3> QED BY <3>2 DEF f
  <2>8. fields = [i \in DOMAIN fields |-> fields[i]]
    BY DEF TableOK, Fields, List
  <2> QED BY <2>1, <2>6, <2>7, <2>8
<1> QED BY <1>1, IInvAlways, PTL

\* A table that SQLAlchemy can reflect whole (reflection.py), and whose fields can
\* be spelled, is created again by the CREATE TABLE that its compiler writes: the
\* same fields, with INT16 for INT8.
THEOREM ReflectionsRoundTrip == Spec => []ReflectionRoundTrips
<1>1. IInv => ReflectionRoundTrips
  <2>0. SUFFICES ASSUME TableOK, There,
                        \A f \in ToSet(fields) :
                          Spelled(f) /\ ReflectType(f.type).sql # "NULL" /\ f.source = ""
                 PROVE  CreateTable(FromReflection(fields)) =
                        [i \in DOMAIN fields |-> Wider(fields[i])]
    BY DEF IInv, ReflectionRoundTrips
  <2> DEFINE column(f) == LET r == Reflect(f) IN
                          [name |-> r.name, type |-> ReflectType(r.type), notNull |-> ~r.nullable,
                           primary |-> r.primary, auto |-> r.auto, source |-> ""]
             cs == [i \in DOMAIN fields |-> column(fields[i])]
             types == [i \in DOMAIN fields |-> Widened(KeptType(fields[i].type))]
  <2>1. FromReflection(fields) = Definition(cs, {})
    BY DEF FromReflection
  <2>2. \A f : LET c == column(f) IN
               /\ c.name = f.name /\ c.type = ReflectType(f.type) /\ c.notNull = ~f.nullable
               /\ c.primary = f.primary /\ c.auto = f.auto /\ c.source = ""
    BY DEF Reflect
  <2> HIDE DEF column
  <2>3. \A i \in DOMAIN fields :
          /\ cs[i] = column(fields[i]) /\ fields[i] \in ToSet(fields)
          /\ types[i] = Widened(KeptType(fields[i].type))
    BY DEF ToSet
  <2>4. ASSUME NEW i \in DOMAIN fields
        PROVE  \/ types[i].type = fields[i].type.type
               \/ {types[i].type, fields[i].type.type} \subseteq ScalarTypes
    <3> DEFINE k == KeptType(fields[i].type)
    <3>1. k.type = fields[i].type.type
      BY DEF KeptType, MilvusType
    <3>2. CASE k.type = "INT8"
      <4>1. Widened(k).type = "INT16"
        BY <3>2 DEF Widened, MilvusType
      <4> QED BY <2>3, <3>1, <3>2, <4>1 DEF ScalarTypes
    <3>3. CASE k.type # "INT8"
      BY <2>3, <3>1, <3>3 DEF Widened
    <3> QED BY <3>2, <3>3
  <2>5. \A i \in DOMAIN fields :
          MapDatatype(ReflectType(fields[i].type)) = Widened(KeptType(fields[i].type))
    BY <2>0, <2>3, ReflectedTypeRoundTrips DEF TableOK, Fields, FieldOK
  <2>6. DOMAIN cs = DOMAIN fields
    OBVIOUS
  <2> HIDE DEF cs, types
  <2>7. CreateTable(Definition(cs, {})) = [i \in DOMAIN fields |-> Kept(fields[i], types[i])]
    <3>1. \A i \in DOMAIN fields :
            /\ cs[i].name = fields[i].name /\ MapDatatype(cs[i].type) = types[i]
            /\ cs[i].notNull = ~fields[i].nullable /\ cs[i].primary = fields[i].primary
            /\ cs[i].auto = fields[i].auto /\ cs[i].source = fields[i].source
            /\ types[i].type = fields[i].type.type
               \/ {types[i].type, fields[i].type.type} \subseteq ScalarTypes
      BY <2>0, <2>2, <2>3, <2>4, <2>5
    <3>2. TableOK /\ There
      BY <2>0
    <3> QED BY ONLY <2>6, <3>1, <3>2, CopyMade
  <2>8. ASSUME NEW i \in DOMAIN fields PROVE Kept(fields[i], types[i]) = Wider(fields[i])
    <3> DEFINE f == fields[i]
    <3>1. FieldOK(f) /\ Spelled(f) /\ types[i] = Widened(KeptType(f.type))
      BY <2>0, <2>3 DEF TableOK, Fields
    <3> HIDE DEF f
    <3>2. Kept(f, types[i]) = Wider(f)
      BY ONLY <3>1, SpelledKept
    <3> QED BY <3>2 DEF f
  <2> QED BY <2>1, <2>7, <2>8
<1> QED BY <1>1, IInvAlways, PTL
=============================================================================
