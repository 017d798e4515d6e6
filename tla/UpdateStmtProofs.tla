--------------------------- MODULE UpdateStmtProofs ---------------------------
(***************************************************************************)
(* Proofs about UpdateStmt, for any sessions, columns, keys, page and      *)
(* chunk sizes and bounds.  The inductive invariant IInv follows every     *)
(* UPDATE that nobody has disturbed: what it has gathered so far is what   *)
(* matches up to its page cursor, and what it has written so far is what   *)
(* it gathered up to `start` laid over the collection it began with.       *)
(***************************************************************************)
EXTENDS UpdateStmt, SequenceTheorems, FiniteSetTheorems, NatSetProofs, TLAPS

Collections == [Keys -> Rows \cup {NoRow}]
Found == [pk : Keys, row : Rows]

Shapes ==
  /\ TypeOK
  /\ DOMAIN merged = Sessions
  /\ before \in [Sessions -> Collections \cup {Disturbed}]
  /\ overlapped \in [Sessions -> BOOLEAN]
  /\ settled \in SUBSET (InitialKeys \X Cols)
  /\ buried \in SUBSET InitialKeys

\* What a session holds between its RPCs: nothing unless a statement runs.
Phase(s) ==
  /\ ~Busy(s) => merged[s] = << >>
  /\ pc[s] # "read" => after[s] = 0
  /\ pc[s] = "read" => count[s] = 0
  /\ pc[s] = "write" => start[s] < Len(merged[s])
  /\ pc[s] # "write" => start[s] = 0

\* No key above `minted` has been used.
NoKeyAhead ==
  autoId => \A k \in Keys : coll[k] # NoRow \/ replica[k] # NoRow => k <= minted

\* Under caller-assigned keys a row never leaves its own.
OwnKeys ==
  ~autoId =>
    /\ \A k \in Keys : coll[k] # NoRow => coll[k].who = k
    /\ \A k \in Keys : replica[k] # NoRow => replica[k].who = k
    /\ \A s \in Sessions : \A i \in DOMAIN merged[s] :
         merged[s][i].row.who = merged[s][i].pk

\* Every row gathered has the value SET.
ValuesSet ==
  \A s \in Sessions : \A i \in DOMAIN merged[s] : merged[s][i].row.col[stmt[s].set] = 1

Overlaps ==
  \A s, o \in Sessions : s # o /\ Busy(s) /\ Busy(o) => overlapped[s]

\* What is settled is in the collection and in every row gathered since; what a
\* statement that nothing overlapped has written so far is about to be.
Settling ==
  level = "Strong" /\ ~autoId =>
    /\ \A p \in settled : \A k \in Keys :
         coll[k] # NoRow /\ coll[k].who = p[1] => coll[k].col[p[2]] = 1
    /\ \A s \in Sessions : \A i \in DOMAIN merged[s] : \A p \in settled :
         merged[s][i].row.who = p[1] => merged[s][i].row.col[p[2]] = 1
    /\ \A s \in Sessions : pc[s] = "write" /\ ~overlapped[s] =>
         \A i \in 1..start[s] :
           coll[merged[s][i].pk] # NoRow => coll[merged[s][i].pk].col[stmt[s].set] = 1

\* What is buried is in neither.
Burial ==
  level = "Strong" =>
    /\ \A k \in Keys : coll[k] # NoRow => coll[k].who \notin buried
    /\ \A s \in Sessions : \A i \in DOMAIN merged[s] : merged[s][i].row.who \notin buried

\* q is the rows of c that `hit` says, in key order, as statement st leaves them.
Gathered(q, st, c, hit) ==
  /\ \A i, j \in DOMAIN q : i < j => q[i].pk < q[j].pk
  /\ \A i \in DOMAIN q : q[i].pk \in hit /\ q[i].row = Updated(c[q[i].pk], st)
  /\ \A k \in hit : \E i \in DOMAIN q : q[i].pk = k

\* The key the i-th row of q is written under, if `base` was the largest key.
Place(q, base, i) == IF autoId THEN base + i ELSE q[i].pk

\* The collection is b with the first n rows of q written.
Overlaid(c, b, q, n, base) ==
  /\ \A i \in 1..n : c[Place(q, base, i)] = q[i].row /\ (autoId => c[q[i].pk] = NoRow)
  /\ \A k \in Keys : (\A i \in 1..n : q[i].pk # k /\ Place(q, base, i) # k) => c[k] = b[k]

\* What the statement makes of the rows of b.
Result(st, b) ==
  LET hit == Matching(st, b)
  IN  {Updated(b[k], st) : k \in hit} \cup Contents([k \in Keys |-> IF k \in hit THEN NoRow ELSE b[k]])

Exact(s) ==
  LET st == stmt[s]
      b == before[s]
      c == coll
      base == minted - start[s]
      hit == Matching(st, b)
  IN
  /\ pc[s] = "read" =>
       /\ coll = b /\ Visible = coll
       /\ Gathered(merged[s], st, b, {k \in hit : k <= after[s]})
  /\ pc[s] = "write" =>
       /\ Gathered(merged[s], st, b, hit)
       /\ count[s] = start[s]
       /\ autoId => base >= 0 /\ \A k \in Keys : b[k] # NoRow => k <= base
       /\ Overlaid(coll, b, merged[s], start[s], base)
  /\ pc[s] \in {"done", "failed"} =>
       \A w \in InitialKeys : Cardinality(RowsOf(coll, w)) = Cardinality(RowsOf(b, w))
  /\ pc[s] = "done" =>
       /\ Contents(coll) = Result(st, b)
       /\ count[s] = Cardinality(hit)
  /\ pc[s] = "failed" =>
       Contents(coll) \subseteq Contents(b) \cup {Updated(row, st) : row \in Contents(b)}

IInv ==
  /\ Shapes
  /\ \A s \in Sessions : Phase(s)
  /\ NoKeyAhead /\ OwnKeys /\ ValuesSet /\ Overlaps /\ Settling /\ Burial
  /\ \A s \in Sessions : before[s] # Disturbed => Exact(s)

-----------------------------------------------------------------------------
(* Rows.                                                                   *)

LEMMA Bounds ==
  /\ MaxKey \in Nat /\ MaxStatements \in Nat /\ Limit \in Nat /\ Limit > 0
  /\ Batch \in Nat /\ Batch > 0
  /\ InitialKeys \in SUBSET (1..MaxKey) /\ Keys \in SUBSET Nat
  /\ IsFiniteSet(Keys) /\ Cols # {} /\ Wheres # {}
<1>1. IsFiniteSet(1..MaxKey)
  BY BoundsAssumption, FS_Interval
<1>2. \A k \in 1..MaxKey : k \in Nat
  BY BoundsAssumption
<1>3. Keys \in SUBSET Nat /\ IsFiniteSet(Keys)
  BY <1>1, <1>2 DEF Keys
<1>4. Limit > 0 /\ Batch > 0
  BY BoundsAssumption
<1>5. Wheres # {}
  BY BoundsAssumption
<1> QED BY <1>3, <1>4, <1>5, BoundsAssumption

LEMMA RowFacts ==
  ASSUME NEW r \in Rows
  PROVE  r # NoRow /\ r.who \in InitialKeys /\ r.col \in [Cols -> {0, 1}]
<1>1. r.who \in InitialKeys /\ r.col \in [Cols -> {0, 1}]
  BY DEF Rows
<1>2. r.who # 0
  BY <1>1, Bounds
<1>3. NoRow.who = 0
  BY DEF NoRow
<1> QED BY <1>1, <1>2, <1>3

\* merged = {**row, **set_values} leaves a row as SQL's UPDATE does, and never
\* sets a column back.
LEMMA MergeIs ==
  ASSUME NEW r \in Rows, NEW st \in Statements
  PROVE  /\ Merge(r, st) = Updated(r, st) /\ Updated(r, st) \in Rows
         /\ Updated(r, st).who = r.who /\ Updated(r, st).col[st.set] = 1
         /\ \A c \in Cols : r.col[c] = 1 => Updated(r, st).col[c] = 1
<1>1. st.set \in Cols
  BY DEF Statements
<1>2. r = [who |-> r.who, col |-> r.col] /\ r.who \in InitialKeys /\ r.col \in [Cols -> {0, 1}]
  BY DEF Rows
<1> DEFINE new == [c \in Cols |-> IF c = st.set THEN 1 ELSE r.col[c]]
<1>3. [r.col EXCEPT ![st.set] = 1] = new /\ new \in [Cols -> {0, 1}] /\ new[st.set] = 1
      /\ \A c \in Cols : r.col[c] = 1 => new[c] = 1
  BY <1>1, <1>2
<1>4. Merge(r, st) = [who |-> r.who, col |-> [r.col EXCEPT ![st.set] = 1]]
  BY <1>2 DEF Merge
<1>5. Updated(r, st) = [who |-> r.who, col |-> new]
  BY DEF Updated
<1> HIDE DEF new
<1> QED BY <1>2, <1>3, <1>4, <1>5 DEF Rows

\* Rows of Found.
LEMMA FoundFacts ==
  ASSUME NEW q \in Seq(Found)
  PROVE  /\ Len(q) \in Nat /\ DOMAIN q = 1..Len(q)
         /\ \A i \in DOMAIN q : /\ q[i] \in Found /\ q[i].pk \in Keys /\ q[i].row \in Rows
                                /\ q[i].row # NoRow
<1>1. Len(q) \in Nat /\ DOMAIN q = 1..Len(q) /\ \A i \in 1..Len(q) : q[i] \in Found
  BY LenProperties, ElementOfSeq
<1>2. \A f \in Found : f.pk \in Keys /\ f.row \in Rows /\ f.row # NoRow
  BY RowFacts DEF Found
<1> QED BY <1>1, <1>2

-----------------------------------------------------------------------------
(* Reading.                                                                *)

\* What is still to be read, and the rows a page of keys adds to `merged`.
Past(st, c, a) == {k \in Matching(st, c) : k > a}
Page(keys, st, c) == [i \in DOMAIN keys |-> [pk |-> keys[i], row |-> Merge(c[keys[i]], st)]]

\* The keys of a page: the next ones that match, and all of them if it is short.
LEMMA PageFacts ==
  ASSUME NEW c \in Collections, NEW st \in Statements, NEW a \in Nat,
         NEW past, past = Past(st, c, a),
         NEW keys, keys = PageKeys(st, c, a)
  PROVE  /\ keys \in Seq(Keys) /\ Len(keys) \in Nat /\ DOMAIN keys = 1..Len(keys)
         /\ \A i \in 1..Len(keys) : keys[i] \in past
         /\ \A i, j \in 1..Len(keys) : i < j => keys[i] < keys[j]
         /\ Len(keys) < Limit => \A k \in past : \E i \in 1..Len(keys) : keys[i] = k
         /\ Len(keys) >= Limit =>
              /\ Last(keys) \in past
              /\ \A i \in 1..Len(keys) : keys[i] <= Last(keys)
              /\ \A k \in past : k <= Last(keys) => \E i \in 1..Len(keys) : keys[i] = k
<1> DEFINE below(k) == {j \in past : j < k}
           S == {k \in past : Cardinality(below(k)) < Limit}
           n == Cardinality(S)
<1>1. keys = InKeyOrder(S)
  BY DEF PageKeys, Past
<1>2. past \in SUBSET Keys /\ past \in SUBSET Nat /\ IsFiniteSet(past)
  <2>1. past \in SUBSET Keys
    BY DEF Matching, Past
  <2> QED BY <2>1, Bounds, FS_Subset
<1>3. S \in SUBSET past /\ IsFiniteSet(S) /\ S \subseteq Nat /\ n \in Nat
  <2>1. S \in SUBSET past
    OBVIOUS
  <2> HIDE DEF S
  <2> QED BY <1>2, <2>1, FS_Subset, FS_CardinalityType
<1>4. /\ keys \in Seq(S) /\ Len(keys) = n
      /\ \A x \in S : \E i \in 1..n : keys[i] = x
      /\ \A i, j \in 1..n : i < j => keys[i] < keys[j]
  <2> HIDE DEF S
  <2> QED BY <1>1, <1>3, InKeyOrderFacts
<1>5. \A k \in past : below(k) \in SUBSET past /\ IsFiniteSet(below(k)) /\ Cardinality(below(k)) \in Nat
  <2>1. \A k \in past : below(k) \in SUBSET past
    OBVIOUS
  <2> HIDE DEF below
  <2> QED BY <1>2, <2>1, FS_Subset, FS_CardinalityType
<1>6. ASSUME NEW k \in S, NEW m \in past, m < k PROVE m \in S
  <2>1. below(m) \in SUBSET below(k)
    <3>1. \A j \in past : j < m => j < k
      BY <1>2, <1>3, <1>6
    <3> QED BY <3>1
  <2>2. k \in past /\ Cardinality(below(k)) < Limit
    OBVIOUS
  <2>3. Cardinality(below(m)) < Limit
    <3> HIDE DEF below, S
    <3>1. Cardinality(below(m)) <= Cardinality(below(k)) /\ Cardinality(below(m)) \in Nat
          /\ Cardinality(below(k)) \in Nat
      BY <1>5, <2>1, <2>2, FS_Subset
    <3> QED BY <2>2, <3>1, Bounds
  <2> QED BY <2>3
<1>7. ASSUME n < Limit PROVE past \subseteq S
  <2> DEFINE T == past \ S
  <2> SUFFICES ASSUME T # {} PROVE FALSE
    OBVIOUS
  <2>1. PICK k \in T : \A y \in T : k <= y
    <3>1. T \subseteq Nat
      BY <1>2
    <3> HIDE DEF T
    <3> QED BY <3>1, LeastNatural
  <2>2. below(k) \in SUBSET S
    <3>1. \A j \in past : j < k => j \notin T
      BY <1>2, <2>1
    <3> QED BY <3>1
  <2>3. Cardinality(below(k)) < Limit
    <3>1. k \in past
      BY <2>1
    <3> HIDE DEF below, S, T
    <3>2. Cardinality(below(k)) <= n /\ Cardinality(below(k)) \in Nat
      BY <1>3, <1>5, <2>2, <3>1, FS_Subset
    <3> QED BY <1>3, <1>7, <3>2, Bounds
  <2> QED BY <2>1, <2>3
<1> HIDE DEF S, n, below
<1>8. /\ keys \in [1..n -> S] /\ DOMAIN keys = 1..n
      /\ \A i \in 1..n : keys[i] \in S /\ keys[i] \in past /\ keys[i] \in Keys
  <2>1. keys \in [1..n -> S] /\ DOMAIN keys = 1..n
    BY <1>4, LenProperties
  <2>2. \A i \in 1..n : keys[i] \in S
    BY <2>1
  <2>3. S \subseteq past /\ past \subseteq Keys
    BY <1>2, <1>3
  <2> QED BY <2>1, <2>2, <2>3
<1>9. keys \in Seq(Keys)
  <2>1. keys \in [1..n -> Keys]
    BY <1>8
  <2> HIDE DEF Keys
  <2> QED BY <1>3, <2>1
<1>10. ASSUME n >= Limit
       PROVE  /\ Last(keys) \in past /\ Last(keys) \in S
              /\ \A i \in 1..n : keys[i] <= Last(keys)
              /\ \A k \in past : k <= Last(keys) => \E i \in 1..n : keys[i] = k
  <2>1. n \in 1..n /\ Last(keys) = keys[n]
    BY <1>3, <1>4, <1>10, Bounds DEF Last
  <2>2. Last(keys) \in S /\ Last(keys) \in past /\ Last(keys) \in Nat
    BY <1>2, <1>8, <2>1
  <2>3. \A i \in 1..n : keys[i] <= Last(keys)
    <3> TAKE i \in 1..n
    <3>1. i = n \/ i < n
      BY <1>3
    <3>2. CASE i = n
      BY <2>1, <2>2, <3>2
    <3>3. CASE i < n
      <4>1. keys[i] < keys[n] /\ keys[i] \in Nat
        BY <1>2, <1>4, <1>8, <2>1, <3>3
      <4> QED BY <2>1, <2>2, <4>1
    <3> QED BY <3>1, <3>2, <3>3
  <2>4. ASSUME NEW k \in past, k <= Last(keys) PROVE k \in S
    <3>1. k = Last(keys) \/ k < Last(keys)
      BY <1>2, <2>2, <2>4
    <3> QED BY <1>6, <2>2, <3>1
  <2> QED BY <1>4, <2>2, <2>3, <2>4
<1> QED BY <1>3, <1>4, <1>7, <1>8, <1>9, <1>10

\* What is gathered after what was: pages follow each other.
LEMMA GatherOn ==
  ASSUME NEW q \in Seq(Found), NEW r \in Seq(Found), NEW st, NEW c, NEW H, NEW G,
         Gathered(q, st, c, H), Gathered(r, st, c, G), H \subseteq Nat, G \subseteq Nat,
         \A x \in H, y \in G : x < y
  PROVE  Gathered(q \o r, st, c, H \cup G)
<1> DEFINE u == q \o r
           n == Len(q)
           m == Len(r)
<1>1. /\ n \in Nat /\ m \in Nat /\ DOMAIN q = 1..n /\ DOMAIN r = 1..m
      /\ \A i \in 1..n : q[i].pk \in H /\ q[i].row = Updated(c[q[i].pk], st)
      /\ \A i \in 1..m : r[i].pk \in G /\ r[i].row = Updated(c[r[i].pk], st)
      /\ \A i, j \in 1..n : i < j => q[i].pk < q[j].pk
      /\ \A i, j \in 1..m : i < j => r[i].pk < r[j].pk
      /\ \A k \in H : \E i \in 1..n : q[i].pk = k
      /\ \A k \in G : \E i \in 1..m : r[i].pk = k
  BY FoundFacts DEF Gathered
<1>2. u \in Seq(Found) /\ Len(u) = n + m /\ DOMAIN u = 1..n + m
  BY ConcatProperties, LenProperties
<1>3. /\ \A i \in 1..n : u[i] = q[i] /\ i \in 1..n + m
      /\ \A i \in 1..m : u[n + i] = r[i] /\ n + i \in 1..n + m
  <2>1. \A i \in 1..n + m : u[i] = IF i <= n THEN q[i] ELSE r[i - n]
    BY ConcatProperties
  <2> HIDE DEF u, n, m
  <2> QED BY <1>1, <2>1
<1> HIDE DEF u, n, m
<1>4. \A i \in 1..n + m : i \in 1..n \/ (i - n \in 1..m /\ i = n + (i - n))
  BY <1>1
<1>5. ASSUME NEW i \in 1..n + m PROVE u[i].pk \in H \cup G /\ u[i].row = Updated(c[u[i].pk], st)
  <2>1. CASE i \in 1..n
    BY <1>1, <1>3, <2>1
  <2>2. CASE i \notin 1..n
    <3>1. i - n \in 1..m /\ u[i] = r[i - n]
      BY <1>3, <1>4, <2>2
    <3> QED BY <1>1, <3>1
  <2> QED BY <2>1, <2>2
<1>6. ASSUME NEW i \in 1..n + m, NEW j \in 1..n + m, i < j PROVE u[i].pk < u[j].pk
  <2>1. CASE i \in 1..n /\ j \in 1..n
    BY <1>1, <1>3, <1>6, <2>1
  <2>2. CASE i \in 1..n /\ j \notin 1..n
    <3>1. u[i].pk \in H
      BY <1>1, <1>3, <2>2
    <3>2. j - n \in 1..m /\ u[j] = r[j - n]
      BY <1>3, <1>4, <2>2
    <3>3. u[j].pk \in G
      BY <1>1, <3>2
    <3> QED BY <3>1, <3>3
  <2>3. CASE i \notin 1..n
    <3>1. i - n \in 1..m /\ j - n \in 1..m /\ i - n < j - n /\ i = n + (i - n) /\ j = n + (j - n)
      BY <1>1, <1>6, <2>3
    <3>2. u[i] = r[i - n] /\ u[j] = r[j - n]
      BY <1>3, <3>1
    <3> QED BY <1>1, <3>1, <3>2
  <2> QED BY <2>1, <2>2, <2>3
<1>7. ASSUME NEW k \in H \cup G PROVE \E i \in 1..n + m : u[i].pk = k
  <2>1. CASE k \in H
    BY <1>1, <1>3, <2>1
  <2>2. CASE k \in G
    <3>1. PICK i \in 1..m : r[i].pk = k
      BY <1>1, <2>2
    <3>2. u[n + i].pk = k /\ n + i \in 1..n + m
      BY <1>3, <3>1
    <3> QED BY <3>2
  <2> QED BY <2>1, <2>2
<1> QED BY <1>2, <1>5, <1>6, <1>7 DEF Gathered, u

\* The rows of a page, with the SET values merged in.
LEMMA PageGathered ==
  ASSUME NEW c \in Collections, NEW st \in Statements, NEW H, H \subseteq Matching(st, c),
         NEW keys \in Seq(Keys), \A i \in 1..Len(keys) : keys[i] \in H,
         \A i, j \in 1..Len(keys) : i < j => keys[i] < keys[j],
         \A k \in H : \E i \in 1..Len(keys) : keys[i] = k,
         NEW rows, rows = Page(keys, st, c)
  PROVE  Gathered(rows, st, c, H)
<1>1. DOMAIN keys = 1..Len(keys) /\ DOMAIN rows = 1..Len(keys)
  BY LenProperties DEF Page
<1>2. ASSUME NEW i \in 1..Len(keys)
      PROVE  rows[i].pk = keys[i] /\ rows[i].row = Updated(c[keys[i]], st)
  <2>1. c[keys[i]] \in Rows
    BY DEF Matching, Collections
  <2> QED BY <1>1, <2>1, MergeIs DEF Page
<1> QED BY <1>1, <1>2 DEF Gathered

\* What a page adds to `merged`: rows of the table read, a value in each.
LEMMA PageRows ==
  ASSUME NEW c \in Collections, NEW st \in Statements,
         NEW keys \in Seq(Keys), \A i \in 1..Len(keys) : keys[i] \in Matching(st, c),
         NEW rows, rows = Page(keys, st, c)
  PROVE  /\ rows \in Seq(Found) /\ Len(rows) = Len(keys) /\ DOMAIN rows = 1..Len(keys)
         /\ \A i \in 1..Len(rows) :
              /\ rows[i].pk = keys[i] /\ keys[i] \in Keys /\ c[keys[i]] \in Rows
              /\ rows[i].row = Updated(c[keys[i]], st)
<1>1. DOMAIN keys = 1..Len(keys) /\ Len(keys) \in Nat /\ DOMAIN rows = 1..Len(keys)
      /\ \A i \in 1..Len(keys) : keys[i] \in Keys
  BY LenProperties, ElementOfSeq DEF Page
<1>2. ASSUME NEW i \in 1..Len(keys)
      PROVE  /\ rows[i] \in Found /\ rows[i].pk = keys[i] /\ c[keys[i]] \in Rows
             /\ rows[i].row = Updated(c[keys[i]], st)
  <2>1. c[keys[i]] \in Rows /\ keys[i] \in Keys
    BY <1>1 DEF Matching, Collections
  <2>2. Merge(c[keys[i]], st) = Updated(c[keys[i]], st) /\ Updated(c[keys[i]], st) \in Rows
    BY <2>1, MergeIs
  <2> QED BY <1>1, <2>1, <2>2 DEF Found, Page
<1>3. rows \in [1..Len(keys) -> Found]
  <2>1. rows = [i \in 1..Len(keys) |-> rows[i]]
    BY <1>1 DEF Page
  <2> QED BY <1>2, <2>1
<1>4. rows \in Seq(Found) /\ Len(rows) = Len(keys)
  <2> HIDE DEF Found
  <2> QED BY <1>1, <1>3
<1> QED BY <1>1, <1>2, <1>4

-----------------------------------------------------------------------------
(* Writing.                                                                *)

\* The server's upsert, key by key.
LEMMA Upserts ==
  ASSUME coll \in Collections, NEW chunk \in Seq(Found), NEW k \in Keys
  PROVE  /\ Upserted(chunk) \in Collections
         /\ \/ \E i \in 1..Len(chunk) : Place(chunk, minted, i) = k /\ Upserted(chunk)[k] = chunk[i].row
            \/ /\ \A i \in 1..Len(chunk) : Place(chunk, minted, i) # k
               /\ Upserted(chunk)[k] = IF \E i \in 1..Len(chunk) : chunk[i].pk = k
                                       THEN NoRow ELSE coll[k]
<1> DEFINE place(i) == IF autoId THEN minted + i ELSE chunk[i].pk
           rowAt(x) == chunk[CHOOSE i \in DOMAIN chunk : place(i) = x].row
           old == {chunk[i].pk : i \in DOMAIN chunk}
           val(x) == IF \E i \in DOMAIN chunk : place(i) = x THEN rowAt(x)
                     ELSE IF x \in old THEN NoRow ELSE coll[x]
<1>1. Upserted(chunk) = [x \in Keys |-> val(x)]
  BY DEF Upserted
<1>2. DOMAIN chunk = 1..Len(chunk) /\ \A i \in 1..Len(chunk) : chunk[i].row \in Rows
  BY FoundFacts
<1>3. \A i \in 1..Len(chunk) : Place(chunk, minted, i) = place(i)
  BY DEF Place
<1>4. ASSUME NEW x \in Keys
      PROVE  \/ \E i \in DOMAIN chunk : place(i) = x /\ val(x) = chunk[i].row
             \/ /\ \A i \in DOMAIN chunk : place(i) # x
                /\ val(x) = IF x \in old THEN NoRow ELSE coll[x]
  <2>1. CASE \E i \in DOMAIN chunk : place(i) = x
    <3> DEFINE i == CHOOSE i \in DOMAIN chunk : place(i) = x
    <3>1. i \in DOMAIN chunk /\ place(i) = x
      BY <2>1
    <3>2. val(x) = chunk[i].row
      BY <2>1
    <3> QED BY <3>1, <3>2
  <2>2. CASE ~\E i \in DOMAIN chunk : place(i) = x
    BY <2>2
  <2> QED BY <2>1, <2>2
<1>5. k \in old <=> \E i \in 1..Len(chunk) : chunk[i].pk = k
  BY <1>2
<1> HIDE DEF place, rowAt, val, old
<1>6. \A x \in Keys : val(x) \in Rows \cup {NoRow}
  BY <1>2, <1>4 DEF Collections
<1>7. Upserted(chunk) \in Collections
  BY <1>1, <1>6 DEF Collections
<1> QED BY <1>1, <1>2, <1>3, <1>4, <1>5, <1>7

\* The rows gathered have keys of their own, and are in the table read.
LEMMA GatheredKeys ==
  ASSUME NEW q \in Seq(Found), NEW st, NEW b, NEW H, Gathered(q, st, b, H), H \subseteq Matching(st, b)
  PROVE  /\ \A i \in 1..Len(q) : q[i].pk \in Keys /\ b[q[i].pk] # NoRow
         /\ \A i, j \in 1..Len(q) : q[i].pk = q[j].pk => i = j
<1>1. Len(q) \in Nat /\ DOMAIN q = 1..Len(q) /\ \A i \in 1..Len(q) : q[i].pk \in Keys
  BY FoundFacts
<1>2. ASSUME NEW i \in 1..Len(q) PROVE b[q[i].pk] # NoRow
  BY <1>1 DEF Gathered, Matching
<1>3. ASSUME NEW i \in 1..Len(q), NEW j \in 1..Len(q), q[i].pk = q[j].pk PROVE i = j
  <2>1. /\ i < j => q[i].pk < q[j].pk
        /\ j < i => q[j].pk < q[i].pk
        /\ q[i].pk \in Nat /\ q[j].pk \in Nat
    BY <1>1, Bounds DEF Gathered
  <2>2. ~(q[i].pk < q[j].pk) /\ ~(q[j].pk < q[i].pk)
    BY <1>3, <2>1
  <2> QED BY <1>1, <2>1, <2>2
<1> QED BY <1>1, <1>2, <1>3

\* One more chunk: the rows n+1..m of q written over the first n.
LEMMA OverlayOn ==
  ASSUME coll \in Collections, minted \in Nat,
         NEW b \in Collections, NEW q \in Seq(Found),
         \A i \in 1..Len(q) : q[i].pk \in Keys /\ b[q[i].pk] # NoRow,
         \A i, j \in 1..Len(q) : q[i].pk = q[j].pk => i = j,
         NEW n \in Nat, NEW m \in Nat, n <= m, m <= Len(q), NEW base \in Int, base = minted - n,
         autoId => base >= 0 /\ minted + (m - n) <= MaxKey
                   /\ \A k \in Keys : b[k] # NoRow => k <= base,
         Overlaid(coll, b, q, n, base),
         NEW chunk \in Seq(Found), Len(chunk) = m - n, \A i \in 1..m - n : chunk[i] = q[n + i]
  PROVE  Overlaid(Upserted(chunk), b, q, m, base)
<1> DEFINE u == Upserted(chunk)
           d == m - n
<1>1. /\ Len(q) \in Nat /\ d \in Nat /\ m = n + d /\ MaxKey \in Nat /\ Len(chunk) = d
      /\ \A i \in 1..d : chunk[i] = q[n + i] /\ n + i \in 1..m /\ n + i \in 1..Len(q)
      /\ \A i \in 1..m : /\ i \in 1..n \/ (i - n \in 1..d /\ i = n + (i - n))
                         /\ i \in 1..Len(q)
  BY LenProperties, Bounds
<1>2. \A k \in Keys :
        \/ \E j \in 1..d : Place(chunk, minted, j) = k /\ u[k] = chunk[j].row
        \/ /\ \A j \in 1..d : Place(chunk, minted, j) # k
           /\ u[k] = IF \E j \in 1..d : chunk[j].pk = k THEN NoRow ELSE coll[k]
  BY <1>1, Upserts
<1>3. /\ \A i \in 1..n : coll[Place(q, base, i)] = q[i].row /\ (autoId => coll[q[i].pk] = NoRow)
      /\ \A k \in Keys : (\A i \in 1..n : q[i].pk # k /\ Place(q, base, i) # k) => coll[k] = b[k]
  BY DEF Overlaid
<1> HIDE DEF u, d
<1>4. CASE ~autoId
  <2>1. /\ \A i \in 1..m : Place(q, base, i) = q[i].pk
        /\ \A j \in 1..d : Place(chunk, minted, j) = q[n + j].pk /\ chunk[j].pk = q[n + j].pk
    BY <1>1, <1>4 DEF Place
  <2>0. ASSUME NEW k \in Keys
        PROVE  \/ \E j \in 1..d : q[n + j].pk = k /\ u[k] = q[n + j].row
               \/ (\A j \in 1..d : q[n + j].pk # k) /\ u[k] = coll[k]
    <3>1. CASE \E j \in 1..d : Place(chunk, minted, j) = k /\ u[k] = chunk[j].row
      <4>1. PICK j \in 1..d : Place(chunk, minted, j) = k /\ u[k] = chunk[j].row
        BY <3>1
      <4> QED BY <1>1, <2>1, <4>1
    <3>2. CASE /\ \A j \in 1..d : Place(chunk, minted, j) # k
               /\ u[k] = IF \E j \in 1..d : chunk[j].pk = k THEN NoRow ELSE coll[k]
      <4>1. \A j \in 1..d : q[n + j].pk # k /\ chunk[j].pk # k
        BY <2>1, <3>2
      <4> QED BY <3>2, <4>1
    <3> QED BY <1>2, <3>1, <3>2
  <2>2. ASSUME NEW i \in 1..m PROVE u[q[i].pk] = q[i].row
    <3> DEFINE k == q[i].pk
    <3>1. k \in Keys
      BY <1>1
    <3>2. CASE i \in 1..n
      <4>1. \A j \in 1..d : q[n + j].pk # k
        <5> SUFFICES ASSUME NEW j \in 1..d, q[n + j].pk = k PROVE FALSE
          OBVIOUS
        <5>1. n + j = i
          BY <1>1
        <5> QED BY <1>1, <3>2, <5>1
      <4>2. u[k] = coll[k]
        BY <2>0, <3>1, <4>1
      <4> QED BY <1>3, <2>1, <3>2, <4>2
    <3>3. CASE i \notin 1..n
      <4>1. i - n \in 1..d /\ i = n + (i - n)
        BY <1>1, <3>3
      <4>2. PICK j \in 1..d : q[n + j].pk = k /\ u[k] = q[n + j].row
        BY <2>0, <3>1, <4>1
      <4>3. n + j = i
        BY <1>1, <4>2
      <4> QED BY <4>2, <4>3
    <3> QED BY <3>2, <3>3
  <2>3. ASSUME NEW k \in Keys, \A i \in 1..m : q[i].pk # k /\ Place(q, base, i) # k
        PROVE  u[k] = b[k]
    <3>1. \A j \in 1..d : q[n + j].pk # k
      BY <1>1, <2>3
    <3>2. u[k] = coll[k]
      BY <2>0, <3>1
    <3>3. \A i \in 1..n : q[i].pk # k /\ Place(q, base, i) # k
      BY <1>1, <2>3
    <3> QED BY <1>3, <3>2, <3>3
  <2> QED BY <1>4, <2>1, <2>2, <2>3 DEF Overlaid, u
<1>5. CASE autoId
  <2>1. /\ \A i \in 1..m : Place(q, base, i) = base + i
        /\ \A j \in 1..d : Place(chunk, minted, j) = minted + j /\ chunk[j].pk = q[n + j].pk
        /\ minted = base + n /\ base \in Nat /\ minted + d <= MaxKey
    BY <1>1, <1>5 DEF Place, d
  <2>0. ASSUME NEW k \in Keys
        PROVE  \/ \E j \in 1..d : minted + j = k /\ u[k] = q[n + j].row
               \/ /\ \A j \in 1..d : minted + j # k
                  /\ u[k] = IF \E j \in 1..d : chunk[j].pk = k THEN NoRow ELSE coll[k]
    <3>1. CASE \E j \in 1..d : Place(chunk, minted, j) = k /\ u[k] = chunk[j].row
      <4>1. PICK j \in 1..d : Place(chunk, minted, j) = k /\ u[k] = chunk[j].row
        BY <3>1
      <4> QED BY <1>1, <2>1, <4>1
    <3>2. CASE /\ \A j \in 1..d : Place(chunk, minted, j) # k
               /\ u[k] = IF \E j \in 1..d : chunk[j].pk = k THEN NoRow ELSE coll[k]
      <4>1. \A j \in 1..d : minted + j # k
        BY <2>1, <3>2
      <4> QED BY <3>2, <4>1
    <3> QED BY <1>2, <3>1, <3>2
  <2>2. \A i \in 1..Len(q) : q[i].pk \in Keys /\ q[i].pk \in Nat /\ q[i].pk <= base
    BY <1>5, Bounds
  <2>3. \A i \in 1..m : base + i \in Keys
    BY <1>1, <2>1 DEF Keys
  <2>4. ASSUME NEW k \in Keys, k <= minted
        PROVE  u[k] = IF \E j \in 1..d : chunk[j].pk = k THEN NoRow ELSE coll[k]
    <3>1. \A j \in 1..d : minted + j # k
      BY <1>1, <2>4, Bounds
    <3> QED BY <2>0, <3>1
  <2>5. ASSUME NEW i \in 1..m PROVE u[base + i] = q[i].row
    <3>1. CASE i \in 1..n
      <4>1. base + i \in Keys /\ base + i <= minted
        BY <2>1, <2>3, <3>1
      <4>2. \A j \in 1..d : chunk[j].pk # base + i
        <5>1. \A j \in 1..d : chunk[j].pk \in Nat /\ chunk[j].pk <= base
          BY <1>1, <2>1, <2>2
        <5>2. ~(base + i <= base)
          BY <2>1, <3>1
        <5> QED BY <5>1, <5>2
      <4>3. u[base + i] = coll[base + i]
        BY <2>4, <4>1, <4>2
      <4> QED BY <1>1, <1>3, <2>1, <3>1, <4>3
    <3>2. CASE i \notin 1..n
      <4>1. i - n \in 1..d /\ i = n + (i - n)
        BY <1>1, <3>2
      <4>2. minted + (i - n) = base + i
        BY <2>1, <4>1
      <4>3. PICK j \in 1..d : minted + j = base + i /\ u[base + i] = q[n + j].row
        BY <2>0, <2>3, <4>1, <4>2
      <4>4. n + j = i
        <5>1. /\ (base + n) + j = base + i
              /\ base \in Int /\ n \in Int /\ j \in Int /\ i \in Int
          BY <1>1, <2>1, <4>3
        <5> QED BY ONLY <5>1
      <4> QED BY <4>3, <4>4
    <3> QED BY <3>1, <3>2
  <2>6. ASSUME NEW i \in 1..m PROVE u[q[i].pk] = NoRow
    <3>1. q[i].pk \in Keys /\ q[i].pk <= minted /\ i \in 1..Len(q)
      BY <1>1, <2>1, <2>2
    <3>2. CASE i \in 1..n
      <4>1. coll[q[i].pk] = NoRow
        BY <1>3, <1>5, <3>2
      <4> QED BY <2>4, <3>1, <4>1
    <3>3. CASE i \notin 1..n
      <4>1. i - n \in 1..d /\ i = n + (i - n)
        BY <1>1, <3>3
      <4>2. chunk[i - n].pk = q[i].pk
        BY <2>1, <4>1
      <4> QED BY <2>4, <3>1, <4>1, <4>2
    <3> QED BY <3>2, <3>3
  <2>7. ASSUME NEW k \in Keys, \A i \in 1..m : q[i].pk # k /\ Place(q, base, i) # k
        PROVE  u[k] = b[k]
    <3>1. \A j \in 1..d : chunk[j].pk # k
      <4>1. \A j \in 1..d : n + j \in 1..m /\ q[n + j].pk # k
        BY <1>1, <2>7
      <4> QED BY <2>1, <4>1
    <3>2. \A j \in 1..d : minted + j # k
      <4> SUFFICES ASSUME NEW j \in 1..d, minted + j = k PROVE FALSE
        OBVIOUS
      <4>1. n + j \in 1..m /\ base + (n + j) = k
        BY <1>1, <2>1
      <4> QED BY <2>1, <2>7, <4>1
    <3>3. u[k] = coll[k]
      BY <2>0, <3>1, <3>2
    <3>4. \A i \in 1..n : q[i].pk # k /\ Place(q, base, i) # k
      BY <1>1, <2>7
    <3> QED BY <1>3, <3>3, <3>4
  <2> QED BY <2>1, <2>5, <2>6, <2>7 DEF Overlaid, u
<1> QED BY <1>4, <1>5

\* What overlaying n of the rows gathered makes of the collection: every row
\* is there as often as it was, and is as it was or as the statement leaves it.
LEMMA Outcome ==
  ASSUME NEW b \in Collections, NEW c \in Collections, NEW st \in Statements,
         NEW q \in Seq(Found), Gathered(q, st, b, Matching(st, b)),
         NEW n \in Nat, n <= Len(q), NEW base \in Int, Overlaid(c, b, q, n, base),
         autoId => base >= 0 /\ base + n <= MaxKey /\ \A k \in Keys : b[k] # NoRow => k <= base
  PROVE  /\ \A w \in InitialKeys : Cardinality(RowsOf(c, w)) = Cardinality(RowsOf(b, w))
         /\ Contents(c) \subseteq Contents(b) \cup {Updated(row, st) : row \in Contents(b)}
         /\ n = Len(q) => Contents(c) = Result(st, b)
<1> DEFINE hit == Matching(st, b)
           P(i) == Place(q, base, i)
           wr == {q[i].pk : i \in 1..n}
           at(k) == CHOOSE i \in 1..n : q[i].pk = k
           to(k) == IF k \in wr THEN P(at(k)) ELSE k
<1>1. /\ Len(q) \in Nat /\ DOMAIN q = 1..Len(q) /\ \A i \in 1..n : i \in 1..Len(q)
      /\ \A i \in 1..Len(q) : q[i].pk \in hit /\ q[i].row = Updated(b[q[i].pk], st)
                              /\ q[i].row \in Rows /\ q[i].pk \in Keys
      /\ \A k \in hit : \E i \in 1..Len(q) : q[i].pk = k
  BY FoundFacts DEF Gathered
<1>2. /\ \A i \in 1..Len(q) : q[i].pk \in Keys /\ b[q[i].pk] # NoRow
      /\ \A i, j \in 1..Len(q) : q[i].pk = q[j].pk => i = j
  BY GatheredKeys
<1>3. /\ \A i \in 1..n : c[P(i)] = q[i].row /\ (autoId => c[q[i].pk] = NoRow)
      /\ \A k \in Keys : (\A i \in 1..n : q[i].pk # k /\ P(i) # k) => c[k] = b[k]
  BY DEF Overlaid
<1>4. ASSUME NEW k \in Keys PROVE (b[k] # NoRow => b[k] \in Rows) /\ (c[k] # NoRow => c[k] \in Rows)
  BY DEF Collections
<1>5. \A i \in 1..Len(q) : b[q[i].pk] \in Rows
  BY <1>2, <1>4
<1>6. \A k \in wr : at(k) \in 1..n /\ q[at(k)].pk = k
  OBVIOUS
<1>7. \A i \in 1..n : q[i].pk \in wr /\ at(q[i].pk) = i /\ to(q[i].pk) = P(i)
  <2>1. ASSUME NEW i \in 1..n PROVE q[i].pk \in wr /\ at(q[i].pk) = i
    <3>1. q[i].pk \in wr
      OBVIOUS
    <3>2. at(q[i].pk) \in 1..n /\ q[at(q[i].pk)].pk = q[i].pk
      BY <1>6, <3>1
    <3> HIDE DEF at, wr
    <3> QED BY <1>1, <1>2, <3>1, <3>2
  <2> HIDE DEF at, wr
  <2> QED BY <2>1
\* A row that was written is under the key it was given, any other is where it was.
<1>8. /\ ~autoId => \A i \in 1..n : P(i) = q[i].pk
      /\ autoId => \A i \in 1..n : P(i) = base + i
  BY DEF Place
<1>9. \A i \in 1..n : P(i) \in Keys
  <2> SUFFICES ASSUME NEW i \in 1..n PROVE P(i) \in Keys
    OBVIOUS
  <2> HIDE DEF P
  <2>1. CASE autoId
    <3>1. P(i) = base + i /\ i \in 1..n /\ base \in Int /\ base >= 0 /\ base + n <= MaxKey
      BY <1>8, <2>1
    <3>2. P(i) \in 1..MaxKey
      <4>1. MaxKey \in Nat /\ n \in Nat
        BY Bounds
      <4> QED BY ONLY <3>1, <4>1
    <3> QED BY <3>2 DEF Keys
  <2>2. CASE ~autoId
    <3>1. i \in 1..Len(q) /\ P(i) = q[i].pk
      BY <1>1, <1>8, <2>2
    <3> QED BY <1>1, <3>1
  <2> QED BY <2>1, <2>2
<1>10. \A i, j \in 1..n : P(i) = P(j) => i = j
  <2>1. CASE autoId
    BY <1>8, <2>1
  <2>2. CASE ~autoId
    BY <1>1, <1>2, <1>8, <2>2
  <2> QED BY <2>1, <2>2
<1>11. \A k \in Keys : b[k] # NoRow /\ k \notin wr => \A i \in 1..n : P(i) # k
  <2>1. CASE autoId
    <3> SUFFICES ASSUME NEW k \in Keys, b[k] # NoRow, NEW i \in 1..n, P(i) = k PROVE FALSE
      OBVIOUS
    <3>1. base \in Nat /\ k <= base /\ base + i = k
      BY <1>8, <2>1
    <3> QED BY <3>1
  <2>2. CASE ~autoId
    BY <1>7, <1>8, <2>2
  <2> QED BY <2>1, <2>2
<1> HIDE DEF P, wr, at
<1>12. ASSUME NEW k \in Keys, b[k] # NoRow
       PROVE  /\ to(k) \in Keys /\ c[to(k)] # NoRow /\ c[to(k)].who = b[k].who
              /\ k \notin wr => to(k) = k /\ c[k] = b[k]
              /\ k \in wr => c[to(k)] = Updated(b[k], st)
  <2>1. CASE k \in wr
    <3>1. PICK i \in 1..n : q[i].pk = k
      BY <1>6, <2>1
    <3>2. to(k) = P(i) /\ c[P(i)] = q[i].row /\ P(i) \in Keys /\ i \in 1..Len(q)
      BY <1>1, <1>3, <1>7, <1>9, <3>1
    <3>3. q[i].row = Updated(b[k], st) /\ b[k] \in Rows /\ q[i].row \in Rows
      BY <1>1, <1>5, <3>1, <3>2
    <3>4. Updated(b[k], st).who = b[k].who /\ q[i].row # NoRow
      BY <3>3, MergeIs, RowFacts
    <3> HIDE DEF to
    <3> QED BY <2>1, <3>2, <3>3, <3>4
  <2>2. CASE k \notin wr
    <3>1. \A i \in 1..n : q[i].pk # k /\ P(i) # k
      BY <1>7, <1>11, <1>12, <2>2
    <3>2. c[k] = b[k] /\ to(k) = k
      BY <1>3, <2>2, <3>1
    <3> QED BY <1>12, <2>2, <3>2
  <2> QED BY <2>1, <2>2
\* Nothing else is there.
<1>13. ASSUME NEW m \in Keys, c[m] # NoRow
       PROVE  \E k \in Keys : b[k] # NoRow /\ to(k) = m
  <2>1. CASE \E i \in 1..n : P(i) = m
    <3>1. PICK i \in 1..n : P(i) = m
      BY <2>1
    <3>2. q[i].pk \in Keys /\ b[q[i].pk] # NoRow /\ to(q[i].pk) = m
      BY <1>1, <1>2, <1>7, <3>1
    <3> QED BY <3>2
  <2>2. CASE ~\E i \in 1..n : P(i) = m
    <3>1. \A i \in 1..n : q[i].pk # m
      <4> SUFFICES ASSUME NEW i \in 1..n, q[i].pk = m PROVE FALSE
        OBVIOUS
      <4>1. CASE autoId
        BY <1>3, <1>13, <4>1
      <4>2. CASE ~autoId
        BY <1>8, <2>2, <4>2
      <4> QED BY <4>1, <4>2
    <3>2. c[m] = b[m]
      BY <1>3, <2>2, <3>1
    <3>3. m \notin wr
      BY <1>6, <3>1
    <3> QED BY <1>13, <3>2, <3>3
  <2> QED BY <2>1, <2>2
<1>14. \A k, m \in Keys : b[k] # NoRow /\ b[m] # NoRow /\ to(k) = to(m) => k = m
  <2> SUFFICES ASSUME NEW k \in Keys, NEW m \in Keys, b[k] # NoRow, b[m] # NoRow, to(k) = to(m)
               PROVE  k = m
    OBVIOUS
  <2>1. CASE k \in wr /\ m \in wr
    <3>1. P(at(k)) = P(at(m)) /\ at(k) \in 1..n /\ at(m) \in 1..n
          /\ q[at(k)].pk = k /\ q[at(m)].pk = m
      BY <1>6, <2>1
    <3>2. at(k) = at(m)
      BY <1>10, <3>1
    <3> QED BY <3>1, <3>2
  <2>2. CASE k \in wr /\ m \notin wr
    <3>1. P(at(k)) = m /\ at(k) \in 1..n
      BY <1>6, <2>2
    <3> QED BY <1>11, <2>2, <3>1
  <2>3. CASE k \notin wr /\ m \in wr
    <3>1. P(at(m)) = k /\ at(m) \in 1..n
      BY <1>6, <2>3
    <3> QED BY <1>11, <2>3, <3>1
  <2>4. CASE k \notin wr /\ m \notin wr
    BY <2>4
  <2> QED BY <2>1, <2>2, <2>3, <2>4
<1> HIDE DEF to
<1>15. ASSUME NEW w \in InitialKeys
       PROVE  Cardinality(RowsOf(c, w)) = Cardinality(RowsOf(b, w))
  <2> DEFINE A == RowsOf(b, w)
             B == RowsOf(c, w)
             f == [k \in A |-> to(k)]
  <2>1. IsFiniteSet(A) /\ A \subseteq Keys
    <3>1. A \in SUBSET Keys
      BY DEF RowsOf
    <3> HIDE DEF A
    <3> QED BY <3>1, Bounds, FS_Subset
  <2>2. \A k \in A : k \in Keys /\ b[k] # NoRow /\ to(k) \in B
    BY <1>12 DEF RowsOf
  <2>3. \A m \in B : \E k \in A : to(k) = m
    <3> SUFFICES ASSUME NEW m \in B PROVE \E k \in A : to(k) = m
      OBVIOUS
    <3>1. m \in Keys /\ c[m] # NoRow /\ c[m].who = w
      BY DEF RowsOf
    <3>2. PICK k \in Keys : b[k] # NoRow /\ to(k) = m
      BY <1>13, <3>1
    <3>3. b[k].who = w
      BY <1>12, <3>1, <3>2
    <3>4. k \in A
      BY <3>2, <3>3 DEF RowsOf
    <3> QED BY <3>2, <3>4
  <2> HIDE DEF A, B
  <2>4. f \in [A -> B]
    BY <2>2
  <2>5. \A k, m \in A : f[k] = f[m] => k = m
    BY <1>14, <2>2
  <2>6. \A m \in B : \E k \in A : f[k] = m
    BY <2>3
  <2> HIDE DEF f
  <2>7. f \in Bijection(A, B)
    BY <2>4, <2>5, <2>6 DEF Bijection, Injection, Surjection, IsInjective
  <2>8. ExistsBijection(A, B)
    BY <2>7 DEF ExistsBijection
  <2>9. Cardinality(B) = Cardinality(A)
    BY <2>1, <2>8, FS_Bijection
  <2> QED BY <2>9 DEF A, B
<1>16. ASSUME NEW x \in Contents(c)
       PROVE  x \in Contents(b) \cup {Updated(row, st) : row \in Contents(b)}
  <2>1. PICK m \in Keys : x = c[m] /\ c[m] # NoRow
    BY DEF Contents
  <2>2. PICK k \in Keys : b[k] # NoRow /\ to(k) = m
    BY <1>13, <2>1
  <2>3. b[k] \in Contents(b)
    BY <2>2 DEF Contents
  <2>4. x = b[k] \/ x = Updated(b[k], st)
    BY <1>12, <2>1, <2>2
  <2> QED BY <2>3, <2>4
<1>17. ASSUME n = Len(q) PROVE Contents(c) = Result(st, b)
  <2>1. wr = hit
    BY <1>1, <1>17 DEF wr
  <2>2. hit \subseteq Keys /\ \A k \in hit : b[k] # NoRow
    BY DEF Matching
  <2> HIDE DEF hit
  <2> DEFINE rest == [k \in Keys |-> IF k \in hit THEN NoRow ELSE b[k]]
  <2>3. ASSUME NEW x
        PROVE  x \in Contents(rest) <=> \E k \in Keys : k \notin hit /\ b[k] # NoRow /\ x = b[k]
    BY DEF Contents
  <2>4. ASSUME NEW x \in Contents(c)
        PROVE  x \in {Updated(b[k], st) : k \in hit} \cup Contents(rest)
    <3>1. PICK m \in Keys : x = c[m] /\ c[m] # NoRow
      BY DEF Contents
    <3>2. PICK k \in Keys : b[k] # NoRow /\ to(k) = m
      BY <1>13, <3>1
    <3>3. CASE k \in hit
      <4>1. x = Updated(b[k], st)
        BY <1>12, <2>1, <3>1, <3>2, <3>3
      <4> QED BY <3>3, <4>1
    <3>4. CASE k \notin hit
      <4>1. x = b[k]
        BY <1>12, <2>1, <3>1, <3>2, <3>4
      <4> QED BY <2>3, <3>2, <3>4, <4>1
    <3> QED BY <3>3, <3>4
  <2>5. ASSUME NEW k \in hit PROVE Updated(b[k], st) \in Contents(c)
    <3>1. to(k) \in Keys /\ c[to(k)] # NoRow /\ c[to(k)] = Updated(b[k], st)
      BY <1>12, <2>1, <2>2
    <3> QED BY <3>1 DEF Contents
  <2>6. ASSUME NEW x \in Contents(rest) PROVE x \in Contents(c)
    <3>1. PICK k \in Keys : k \notin hit /\ b[k] # NoRow /\ x = b[k]
      BY <2>3
    <3>2. c[k] = b[k]
      BY <1>12, <2>1, <3>1
    <3> QED BY <3>1, <3>2 DEF Contents
  <2> HIDE DEF rest
  <2>7. Contents(c) = {Updated(b[k], st) : k \in hit} \cup Contents(rest)
    BY <2>4, <2>5, <2>6
  <2> QED BY <2>7 DEF rest, hit, Result
<1> QED BY <1>15, <1>16, <1>17

-----------------------------------------------------------------------------
(* Steps.                                                                  *)

\* A session that a step does not touch keeps what it holds.
LEMMA PhaseStays ==
  ASSUME NEW o \in Sessions, Phase(o),
         pc'[o] = pc[o], after'[o] = after[o], merged'[o] = merged[o],
         start'[o] = start[o], count'[o] = count[o]
  PROVE  Phase(o)'
BY DEF Phase, Busy

LEMMA ExactStays ==
  ASSUME NEW o \in Sessions, Exact(o),
         pc'[o] = pc[o], stmt'[o] = stmt[o], after'[o] = after[o], merged'[o] = merged[o],
         start'[o] = start[o], count'[o] = count[o], before'[o] = before[o],
         autoId' = autoId, coll' = coll, minted' = minted,
         Visible = coll => Visible' = coll
  PROVE  Exact(o)'
<1>1. \A b, q, n, base : Overlaid(coll, b, q, n, base)' <=> Overlaid(coll, b, q, n, base)
  BY DEF Overlaid, Place
<1> QED BY <1>1 DEF Exact

\* The shapes, one by one.
LEMMA ShapeFacts ==
  ASSUME Shapes
  PROVE  /\ autoId \in BOOLEAN /\ level \in {"Strong", "Bounded"}
         /\ coll \in Collections /\ replica \in Collections /\ Visible \in Collections
         /\ minted \in 0..MaxKey /\ minted \in Nat
         /\ pc \in [Sessions -> {"idle", "read", "write", "done", "failed"}]
         /\ stmt \in [Sessions -> Statements] /\ after \in [Sessions -> 0..MaxKey]
         /\ DOMAIN merged = Sessions
         /\ start \in [Sessions -> Nat] /\ count \in [Sessions -> Nat]
         /\ DOMAIN before = Sessions /\ overlapped \in [Sessions -> BOOLEAN]
         /\ \A s \in Sessions :
              /\ merged[s] \in Seq(Found) /\ Len(merged[s]) \in Nat
              /\ DOMAIN merged[s] = 1..Len(merged[s])
              /\ before[s] # Disturbed => before[s] \in Collections
<1>1. TypeOK
  BY DEF Shapes
<1>2. coll \in Collections /\ replica \in Collections /\ Visible \in Collections
  BY <1>1 DEF TypeOK, Collections, Visible
<1>3. \A s \in Sessions : merged[s] \in Seq(Found)
  BY <1>1 DEF TypeOK, Found
<1>4. minted \in 0..MaxKey /\ minted \in Nat
  BY <1>1, Bounds DEF TypeOK
<1>5. DOMAIN before = Sessions /\ \A s \in Sessions : before[s] # Disturbed => before[s] \in Collections
  BY DEF Shapes
<1>6. DOMAIN merged = Sessions /\ overlapped \in [Sessions -> BOOLEAN]
  BY DEF Shapes
<1>7. \A s \in Sessions : Len(merged[s]) \in Nat /\ DOMAIN merged[s] = 1..Len(merged[s])
  BY <1>3, LenProperties
<1> QED BY <1>1, <1>2, <1>3, <1>4, <1>5, <1>6, <1>7 DEF TypeOK

\* Nothing gathered is nothing that matches.
LEMMA NothingGathered ==
  ASSUME NEW st, NEW c, NEW H, H = {}
  PROVE  Gathered(<< >>, st, c, H)
<1>1. DOMAIN << >> = {}
  OBVIOUS
<1> QED BY <1>1 DEF Gathered

LEMMA BeginStep ==
  ASSUME IInv, NEW s \in Sessions, NEW st \in Statements, Begin(s, st)
  PROVE  IInv'
<1> DEFINE busy == {o \in Sessions \ {s} : Busy(o)}
<1>1. /\ ~Busy(s) /\ begun < MaxStatements /\ begun' = begun + 1
      /\ pc' = [pc EXCEPT ![s] = "read"] /\ stmt' = [stmt EXCEPT ![s] = st]
      /\ count' = [count EXCEPT ![s] = 0]
      /\ before' = [before EXCEPT ![s] = IF Visible = coll THEN coll ELSE Disturbed]
      /\ overlapped' = [o \in Sessions |-> IF o = s THEN busy # {} ELSE overlapped[o] \/ o \in busy]
      /\ UNCHANGED <<autoId, level, coll, replica, minted, after, merged, start, settled, buried>>
  BY DEF Begin
<1>2. /\ Shapes /\ (\A o \in Sessions : Phase(o)) /\ NoKeyAhead /\ OwnKeys /\ ValuesSet /\ Overlaps
      /\ Settling /\ Burial /\ \A o \in Sessions : before[o] # Disturbed => Exact(o)
  BY DEF IInv
<1>3. /\ merged[s] = << >> /\ after[s] = 0 /\ start[s] = 0
  BY <1>1, <1>2 DEF Phase, Busy
<1>4. /\ pc'[s] = "read" /\ stmt'[s] = st /\ count'[s] = 0 /\ merged'[s] = << >>
      /\ after'[s] = 0 /\ start'[s] = 0
      /\ before'[s] = IF Visible = coll THEN coll ELSE Disturbed
  BY <1>1, <1>2, <1>3, ShapeFacts
<1>5. \A o \in Sessions : o # s =>
        /\ pc'[o] = pc[o] /\ stmt'[o] = stmt[o] /\ count'[o] = count[o] /\ before'[o] = before[o]
        /\ overlapped'[o] = (overlapped[o] \/ o \in busy)
  BY <1>1, <1>2, ShapeFacts
<1>6. Shapes'
  <2>1. begun' \in 0..MaxStatements
    BY <1>1, <1>2, Bounds DEF Shapes, TypeOK
  <2>2. before' \in [Sessions -> Collections \cup {Disturbed}]
    BY <1>1, <1>2, ShapeFacts DEF Shapes
  <2>3. overlapped' \in [Sessions -> BOOLEAN]
    BY <1>1, <1>2, ShapeFacts
  <2>4. TypeOK'
    BY <1>1, <1>2, <2>1 DEF Shapes, TypeOK
  <2> QED BY <1>1, <1>2, <2>2, <2>3, <2>4 DEF Shapes, Collections
<1>7. ASSUME NEW o \in Sessions PROVE Phase(o)'
  <2>1. CASE o = s
    BY <1>4, <2>1 DEF Phase, Busy
  <2>2. CASE o # s
    BY <1>1, <1>2, <1>5, <2>2, PhaseStays
  <2> QED BY <2>1, <2>2
<1>8. NoKeyAhead' /\ OwnKeys' /\ Burial'
  BY <1>1, <1>2 DEF NoKeyAhead, OwnKeys, Burial
<1>9. ValuesSet'
  <2>1. DOMAIN merged'[s] = {}
    BY <1>4
  <2> QED BY <1>1, <1>2, <1>5, <2>1 DEF ValuesSet
<1>10. Overlaps'
  <2> SUFFICES ASSUME NEW x \in Sessions, NEW o \in Sessions, x # o, Busy(x)', Busy(o)'
               PROVE  overlapped'[x]
    BY DEF Overlaps
  <2>1. CASE x = s
    <3>1. o \in busy
      BY <1>5, <2>1 DEF Busy
    <3> QED BY <1>1, <2>1, <3>1
  <2>2. CASE x # s
    <3>1. x \in busy
      BY <1>5, <2>2 DEF Busy
    <3> QED BY <1>5, <2>2, <3>1
  <2> QED BY <2>1, <2>2
<1>11. Settling'
  <2>1. \A o \in Sessions : pc'[o] = "write" /\ ~overlapped'[o] =>
          o # s /\ pc[o] = "write" /\ ~overlapped[o] /\ stmt'[o] = stmt[o]
    BY <1>4, <1>5
  <2> QED BY <1>1, <1>2, <2>1 DEF Settling
<1>12. ASSUME NEW o \in Sessions, before'[o] # Disturbed PROVE Exact(o)'
  <2>1. CASE o = s
    <3>1. before'[s] = coll' /\ Visible' = coll'
      BY <1>1, <1>4, <1>12, <2>1 DEF Visible
    <3> DEFINE H == {k \in Matching(st, coll') : k <= 0}
    <3>2. H = {}
      BY Bounds DEF Matching, Keys
    <3> HIDE DEF H
    <3>3. Gathered(<< >>, st, coll', H)
      BY <3>2, NothingGathered
    <3> QED BY <1>4, <2>1, <3>1, <3>3 DEF Exact, H
  <2>2. CASE o # s
    <3>1. Exact(o) /\ (Visible = coll => Visible' = coll)
      BY <1>1, <1>2, <1>5, <1>12, <2>2 DEF Visible
    <3> QED BY <1>1, <1>5, <2>2, <3>1, ExactStays
  <2> QED BY <2>1, <2>2
<1> QED BY <1>6, <1>7, <1>8, <1>9, <1>10, <1>11, <1>12 DEF IInv

\* Sessions that run are among those that ran, and none forgets an overlap.
LEMMA OverlapsStay ==
  ASSUME Overlaps, \A o \in Sessions : Busy(o)' => Busy(o), overlapped' = overlapped
  PROVE  Overlaps'
BY DEF Overlaps

LEMMA ReadStep ==
  ASSUME IInv, NEW s \in Sessions, ReadPage(s)
  PROVE  IInv'
<1> DEFINE st == stmt[s]
           V == Visible
           a == after[s]
           q == merged[s]
           keys == PageKeys(st, V, a)
           past == Past(st, V, a)
           rows == Page(keys, st, V)
           u == q \o rows
           more == Len(keys) >= Limit
<1>1. /\ pc[s] = "read"
      /\ merged' = [merged EXCEPT ![s] = u]
      /\ IF more THEN after' = [after EXCEPT ![s] = Last(keys)] /\ UNCHANGED pc
         ELSE /\ pc' = [pc EXCEPT ![s] = IF merged'[s] = << >> THEN "done" ELSE "write"]
              /\ after' = [after EXCEPT ![s] = 0]
      /\ UNCHANGED <<autoId, level, coll, replica, minted, stmt, start, count, begun,
                     before, overlapped, settled, buried>>
  BY DEF ReadPage, Page
<1>2. /\ Shapes /\ (\A o \in Sessions : Phase(o)) /\ NoKeyAhead /\ OwnKeys /\ ValuesSet /\ Overlaps
      /\ Settling /\ Burial /\ \A o \in Sessions : before[o] # Disturbed => Exact(o)
  BY DEF IInv
<1>3. /\ st \in Statements /\ V \in Collections /\ a \in Nat /\ a \in 0..MaxKey /\ q \in Seq(Found)
      /\ Len(q) \in Nat /\ DOMAIN q = 1..Len(q) /\ start[s] = 0 /\ count[s] = 0
  <2>1. start[s] = 0 /\ count[s] = 0
    BY <1>1, <1>2 DEF Phase
  <2>2. a \in 0..MaxKey /\ a \in Nat
    BY <1>2, ShapeFacts, Bounds
  <2> QED BY <1>2, <2>1, <2>2, ShapeFacts
<1> HIDE DEF st, V, a, q, keys, past, rows, u, more
<1>4. /\ keys \in Seq(Keys) /\ Len(keys) \in Nat /\ DOMAIN keys = 1..Len(keys)
      /\ \A i \in 1..Len(keys) : keys[i] \in past
      /\ \A i, j \in 1..Len(keys) : i < j => keys[i] < keys[j]
      /\ Len(keys) < Limit => \A k \in past : \E i \in 1..Len(keys) : keys[i] = k
      /\ Len(keys) >= Limit =>
           /\ Last(keys) \in past
           /\ \A i \in 1..Len(keys) : keys[i] <= Last(keys)
           /\ \A k \in past : k <= Last(keys) => \E i \in 1..Len(keys) : keys[i] = k
  BY <1>3, PageFacts DEF past, keys
<1>5. past \subseteq Matching(st, V) /\ past \subseteq Keys
  BY DEF past, Past, Matching
<1>6. /\ rows \in Seq(Found) /\ Len(rows) = Len(keys) /\ DOMAIN rows = 1..Len(keys)
      /\ \A i \in 1..Len(rows) :
           /\ rows[i].pk = keys[i] /\ keys[i] \in Keys /\ V[keys[i]] \in Rows
           /\ rows[i].row = Updated(V[keys[i]], st)
  <2>1. \A i \in 1..Len(keys) : keys[i] \in Matching(st, V)
    BY <1>4, <1>5
  <2> QED BY <1>3, <1>4, <2>1, PageRows DEF rows
<1>7. /\ u \in Seq(Found) /\ Len(u) = Len(q) + Len(rows) /\ DOMAIN u = 1..Len(u)
      /\ \A i \in 1..Len(u) : u[i] = IF i <= Len(q) THEN q[i] ELSE rows[i - Len(q)]
  <2>1. /\ u \in Seq(Found) /\ Len(u) = Len(q) + Len(rows)
        /\ \A i \in 1..Len(q) + Len(rows) : u[i] = IF i <= Len(q) THEN q[i] ELSE rows[i - Len(q)]
    <3>1. q \in Seq(Found) /\ rows \in Seq(Found)
      BY <1>3, <1>6
    <3> QED BY ONLY <3>1, ConcatProperties DEF u
  <2>2. DOMAIN u = 1..Len(u)
    BY <2>1, LenProperties
  <2> QED BY <2>1, <2>2
\* A row of u was there, or was read now.
<1>8. ASSUME NEW i \in DOMAIN u
      PROVE  \/ i \in DOMAIN q /\ u[i] = q[i]
             \/ \E k \in Keys : V[k] \in Rows /\ u[i].pk = k /\ u[i].row = Updated(V[k], st)
  <2>1. CASE i <= Len(q)
    BY <1>3, <1>7, <2>1
  <2>2. CASE ~(i <= Len(q))
    <3>1. i - Len(q) \in 1..Len(rows) /\ u[i] = rows[i - Len(q)]
      BY <1>3, <1>4, <1>6, <1>7, <2>2
    <3> QED BY <1>6, <3>1
  <2> QED BY <2>1, <2>2
<1>9. /\ merged'[s] = u /\ \A o \in Sessions : o # s => merged'[o] = merged[o]
      /\ DOMAIN merged' = Sessions
  BY <1>1, <1>2, ShapeFacts
<1>10. /\ \A o \in Sessions : o # s => pc'[o] = pc[o] /\ after'[o] = after[o]
       /\ pc' \in [Sessions -> {"idle", "read", "write", "done", "failed"}]
       /\ more => pc'[s] = "read" /\ after'[s] = Last(keys)
       /\ ~more => /\ after'[s] = 0
                   /\ pc'[s] = IF u = << >> THEN "done" ELSE "write"
  <2>1. /\ pc \in [Sessions -> {"idle", "read", "write", "done", "failed"}]
        /\ DOMAIN after = Sessions
    BY <1>2, ShapeFacts
  <2>2. CASE more
    BY <1>1, <2>1, <2>2
  <2>3. CASE ~more
    <3>1. pc' = [pc EXCEPT ![s] = IF u = << >> THEN "done" ELSE "write"]
          /\ after' = [after EXCEPT ![s] = 0]
      BY <1>1, <1>9, <2>3
    <3> QED BY <2>1, <2>3, <3>1
  <2> QED BY <2>2, <2>3
<1>11. after' \in [Sessions -> 0..MaxKey]
  <2>1. more => Last(keys) \in 0..MaxKey
    <3>1. more => Last(keys) \in Keys
      BY <1>4, <1>5 DEF more
    <3>2. \A k \in Keys : k \in 0..MaxKey
      BY Bounds DEF Keys
    <3> QED BY <3>1, <3>2
  <2>2. 0 \in 0..MaxKey /\ after \in [Sessions -> 0..MaxKey]
    BY <1>2, ShapeFacts, Bounds
  <2> QED BY <1>1, <2>1, <2>2
<1>12. Shapes'
  <2>1. \A o \in Sessions : merged'[o] \in Seq(Found)
    BY <1>2, <1>7, <1>9, ShapeFacts
  <2>2. TypeOK'
    BY <1>1, <1>2, <1>10, <1>11, <2>1 DEF Shapes, TypeOK, Found
  <2> QED BY <1>1, <1>2, <1>9, <2>2 DEF Shapes, Collections
<1>13. ASSUME NEW o \in Sessions PROVE Phase(o)'
  <2>1. CASE o = s
    <3>1. u # << >> => 0 < Len(u)
      BY <1>7, LenProperties, EmptySeq
    <3> QED BY <1>1, <1>3, <1>9, <1>10, <2>1, <3>1 DEF Phase, Busy
  <2>2. CASE o # s
    BY <1>1, <1>2, <1>9, <1>10, <2>2, PhaseStays
  <2> QED BY <2>1, <2>2
<1>14. NoKeyAhead'
  BY <1>1, <1>2 DEF NoKeyAhead
<1>15. OwnKeys'
  <2> SUFFICES ASSUME ~autoId, NEW o \in Sessions, NEW i \in DOMAIN merged'[o]
               PROVE  merged'[o][i].row.who = merged'[o][i].pk
    BY <1>1, <1>2 DEF OwnKeys
  <2>1. CASE o # s
    BY <1>2, <1>9, <2>1 DEF OwnKeys
  <2>2. CASE o = s /\ i \in DOMAIN q /\ u[i] = q[i]
    BY <1>2, <1>9, <2>2 DEF OwnKeys, q
  <2>3. CASE o = s /\ \E k \in Keys : V[k] \in Rows /\ u[i].pk = k /\ u[i].row = Updated(V[k], st)
    <3>1. PICK k \in Keys : V[k] \in Rows /\ u[i].pk = k /\ u[i].row = Updated(V[k], st)
      BY <2>3
    <3>2. V[k] # NoRow /\ (V = coll \/ V = replica)
      BY <3>1, RowFacts DEF V, Visible
    <3>3. V[k].who = k
      BY <1>2, <3>2 DEF OwnKeys
    <3>4. Updated(V[k], st).who = k
      BY <1>3, <3>1, <3>3, MergeIs
    <3> QED BY <1>9, <2>3, <3>1, <3>4
  <2> QED BY <1>8, <1>9, <2>1, <2>2, <2>3
<1>16. ValuesSet'
  <2> SUFFICES ASSUME NEW o \in Sessions, NEW i \in DOMAIN merged'[o]
               PROVE  merged'[o][i].row.col[stmt[o].set] = 1
    BY <1>1 DEF ValuesSet
  <2>1. CASE o # s
    BY <1>2, <1>9, <2>1 DEF ValuesSet
  <2>2. CASE o = s /\ i \in DOMAIN q /\ u[i] = q[i]
    BY <1>2, <1>9, <2>2 DEF ValuesSet, q
  <2>3. CASE o = s /\ \E k \in Keys : V[k] \in Rows /\ u[i].pk = k /\ u[i].row = Updated(V[k], st)
    BY <1>3, <1>9, <2>3, MergeIs DEF st
  <2> QED BY <1>8, <1>9, <2>1, <2>2, <2>3
<1>17. Overlaps'
  <2>1. \A o \in Sessions : Busy(o)' => Busy(o)
    BY <1>1, <1>10 DEF Busy
  <2> QED BY <1>1, <1>2, <2>1, OverlapsStay
<1>18. Settling'
  <2> SUFFICES ASSUME level = "Strong", ~autoId
               PROVE  /\ \A o \in Sessions : \A i \in DOMAIN merged'[o] : \A p \in settled :
                           merged'[o][i].row.who = p[1] => merged'[o][i].row.col[p[2]] = 1
                      /\ \A o \in Sessions : pc'[o] = "write" /\ ~overlapped[o] =>
                           \A i \in 1..start[o] :
                             coll[merged'[o][i].pk] # NoRow =>
                               coll[merged'[o][i].pk].col[stmt[o].set] = 1
    BY <1>1, <1>2 DEF Settling
  <2>1. ASSUME NEW o \in Sessions, NEW i \in DOMAIN merged'[o], NEW p \in settled,
               merged'[o][i].row.who = p[1]
        PROVE  merged'[o][i].row.col[p[2]] = 1
    <3>1. CASE o # s
      BY <1>2, <1>9, <2>1, <3>1 DEF Settling
    <3>2. CASE o = s /\ i \in DOMAIN q /\ u[i] = q[i]
      BY <1>2, <1>9, <2>1, <3>2 DEF Settling, q
    <3>3. CASE o = s /\ \E k \in Keys : V[k] \in Rows /\ u[i].pk = k /\ u[i].row = Updated(V[k], st)
      <4>1. PICK k \in Keys : V[k] \in Rows /\ u[i].pk = k /\ u[i].row = Updated(V[k], st)
        BY <3>3
      <4>2. V = coll /\ V[k] # NoRow /\ p[2] \in Cols
        BY <1>2, <4>1, RowFacts DEF V, Visible, Shapes
      <4>3. V[k].who = p[1]
        BY <1>3, <1>9, <2>1, <3>3, <4>1, MergeIs
      <4>4. V[k].col[p[2]] = 1
        BY <1>2, <4>2, <4>3 DEF Settling
      <4> QED BY <1>3, <1>9, <3>3, <4>1, <4>2, <4>4, MergeIs
    <3> QED BY <1>8, <1>9, <3>1, <3>2, <3>3
  <2>2. ASSUME NEW o \in Sessions, pc'[o] = "write", ~overlapped[o], NEW i \in 1..start[o],
               coll[merged'[o][i].pk] # NoRow
        PROVE  coll[merged'[o][i].pk].col[stmt[o].set] = 1
    <3>1. o # s
      BY <1>3, <2>2
    <3> QED BY <1>2, <1>9, <1>10, <2>2, <3>1 DEF Settling
  <2> QED BY <2>1, <2>2
<1>19. Burial'
  <2> SUFFICES ASSUME level = "Strong", NEW o \in Sessions, NEW i \in DOMAIN merged'[o]
               PROVE  merged'[o][i].row.who \notin buried
    BY <1>1, <1>2 DEF Burial
  <2>1. CASE o # s
    BY <1>2, <1>9, <2>1 DEF Burial
  <2>2. CASE o = s /\ i \in DOMAIN q /\ u[i] = q[i]
    BY <1>2, <1>9, <2>2 DEF Burial, q
  <2>3. CASE o = s /\ \E k \in Keys : V[k] \in Rows /\ u[i].pk = k /\ u[i].row = Updated(V[k], st)
    <3>1. PICK k \in Keys : V[k] \in Rows /\ u[i].pk = k /\ u[i].row = Updated(V[k], st)
      BY <2>3
    <3>2. V = coll /\ V[k] # NoRow
      BY <3>1, RowFacts DEF V, Visible
    <3>3. V[k].who \notin buried
      BY <1>2, <3>2 DEF Burial
    <3> QED BY <1>3, <1>9, <2>3, <3>1, <3>3, MergeIs
  <2> QED BY <1>8, <1>9, <2>1, <2>2, <2>3
<1>20. ASSUME before[s] # Disturbed PROVE Exact(s)'
  <2> DEFINE b == before[s]
             hit == Matching(st, b)
             H == {k \in hit : k <= a}
  <2>1. /\ Exact(s) /\ b \in Collections
    BY <1>2, <1>20, ShapeFacts
  <2>2. coll = b /\ V = b /\ Gathered(q, st, b, H)
    BY <1>1, <2>1 DEF Exact, V, st, a, q
  <2>3. past = {k \in hit : k > a}
    BY <2>2 DEF past, Past
  <2>4. hit \subseteq Keys /\ hit \subseteq Nat
    BY Bounds DEF Matching
  <2> HIDE DEF hit, b
  \* A page, and the rows before it.
  <2>5. ASSUME NEW G, G \subseteq past, \A i \in 1..Len(keys) : keys[i] \in G,
               \A k \in G : \E i \in 1..Len(keys) : keys[i] = k
        PROVE  Gathered(u, st, b, H \cup G)
    <3>1. rows = Page(keys, st, b)
      BY <2>2 DEF rows
    <3>2. G \subseteq Matching(st, b) /\ G \subseteq Nat /\ H \subseteq Nat
      BY <2>3, <2>4, <2>5 DEF hit
    <3>3. Gathered(rows, st, b, G)
      BY <1>3, <1>4, <2>1, <2>5, <3>1, <3>2, PageGathered
    <3>4. \A x \in H, y \in G : x < y
      BY <1>3, <2>3, <2>4, <2>5
    <3> HIDE DEF H
    <3> QED BY <1>3, <1>6, <2>2, <3>2, <3>3, <3>4, GatherOn DEF u
  <2>6. CASE more
    <3> DEFINE l == Last(keys)
               G == {k \in past : k <= l}
    <3>1. l \in past /\ l \in hit /\ l > a /\ l \in Nat
      BY <1>4, <2>3, <2>4, <2>6 DEF more
    <3>2. Gathered(u, st, b, H \cup G)
      <4>1. /\ G \subseteq past /\ (\A i \in 1..Len(keys) : keys[i] \in G)
            /\ \A k \in G : \E i \in 1..Len(keys) : keys[i] = k
        BY <1>4, <2>6 DEF more
      <4> HIDE DEF G, H
      <4> QED BY <2>5, <4>1
    <3>3. H \cup G = {k \in hit : k <= l}
      <4>1. ASSUME NEW k \in hit PROVE (k <= a \/ (k > a /\ k <= l)) <=> k <= l
        BY <1>3, <2>4, <3>1
      <4> QED BY <2>3, <4>1
    <3> HIDE DEF G, H, l
    <3>4. pc'[s] = "read" /\ after'[s] = l
      BY <1>10, <2>6 DEF l
    <3>5. Visible' = coll'
      BY <1>1, <2>2 DEF V, Visible
    <3>6. Gathered(merged'[s], stmt'[s], before'[s], {k \in Matching(stmt'[s], before'[s]) : k <= after'[s]})
      BY <1>1, <1>9, <3>2, <3>3, <3>4 DEF st, b, hit
    <3> QED BY <1>1, <2>2, <3>4, <3>5, <3>6 DEF Exact, b
  <2>7. CASE ~more
    <3>1. Len(keys) < Limit
      BY <1>4, <2>7, Bounds DEF more
    <3>2. Gathered(u, st, b, H \cup past)
      <4> HIDE DEF H
      <4> QED BY <1>4, <2>5, <3>1
    <3>3. H \cup past = hit
      <4>1. ASSUME NEW k \in hit PROVE k <= a \/ k > a
        BY <1>3, <2>4
      <4> QED BY <2>3, <4>1
    <3>4. Gathered(u, st, b, hit)
      BY <3>2, <3>3
    <3>5. /\ minted \in Nat /\ minted <= MaxKey
          /\ autoId => \A k \in Keys : b[k] # NoRow => k <= minted
      BY <1>2, <2>2, ShapeFacts, Bounds DEF NoKeyAhead
    <3>6. CASE u # << >>
      <4>1. pc'[s] = "write"
        BY <1>10, <2>7, <3>6
      <4>2. Overlaid(coll, before[s], merged[s], start[s], minted - start[s])'
        <5>1. minted' - start'[s] = minted /\ start'[s] = 0
          BY <1>1, <1>3, <3>5
        <5>2. 1..start'[s] = {} /\ coll' = before'[s]
          BY <1>1, <2>2, <5>1 DEF b
        <5> QED BY <5>2 DEF Overlaid
      <4>3. Gathered(merged'[s], stmt'[s], before'[s], Matching(stmt'[s], before'[s]))
        BY <1>1, <1>9, <3>4 DEF b, st, hit
      <4>4. count'[s] = start'[s]
        BY <1>1, <1>3
      <4>5. autoId' => /\ minted' - start'[s] >= 0
                       /\ \A k \in Keys : before'[s][k] # NoRow => k <= minted' - start'[s]
        BY <1>1, <1>3, <3>5 DEF b
      <4> QED BY <4>1, <4>2, <4>3, <4>4, <4>5 DEF Exact
    <3>7. CASE u = << >>
      <4>1. pc'[s] = "done"
        BY <1>10, <2>7, <3>7
      <4>2. hit = {} /\ Cardinality(hit) = 0
        <5>1. DOMAIN u = {}
          BY <3>7
        <5>2. hit = {}
          BY <3>4, <5>1 DEF Gathered
        <5> QED BY <5>2, FS_EmptySet
      <4>3. Contents(b) = Result(st, b)
        <5>1. b = [k \in Keys |-> b[k]]
          BY <2>1 DEF Collections
        <5> QED BY <4>2, <5>1 DEF Result, hit
      <4> QED BY <1>1, <1>3, <2>2, <4>1, <4>2, <4>3 DEF Exact, b, st, hit
    <3> QED BY <3>6, <3>7
  <2> QED BY <2>6, <2>7
<1>21. ASSUME NEW o \in Sessions, before'[o] # Disturbed PROVE Exact(o)'
  <2>1. CASE o = s
    BY <1>1, <1>20, <1>21, <2>1
  <2>2. CASE o # s
    <3>1. Exact(o) /\ (Visible = coll => Visible' = coll)
      BY <1>1, <1>2, <1>21 DEF Visible
    <3> QED BY <1>1, <1>9, <1>10, <2>2, <3>1, ExactStays
  <2> QED BY <2>1, <2>2
<1> QED BY <1>12, <1>13, <1>14, <1>15, <1>16, <1>17, <1>18, <1>19, <1>21 DEF IInv

\* The rows of a chunk: those from `start` up to m.
LEMMA ChunkFacts ==
  ASSUME Shapes, NEW s \in Sessions, Phase(s), pc[s] = "write"
  PROVE  \E m \in Nat :
           /\ start[s] < m /\ m <= Len(merged[s])
           /\ Chunk(s) \in Seq(Found) /\ Len(Chunk(s)) = m - start[s]
           /\ \A i \in 1..m - start[s] : /\ Chunk(s)[i] = merged[s][start[s] + i]
                                         /\ start[s] + i \in 1..Len(merged[s])
           /\ Following(s) < Len(merged[s]) => m = Following(s)
           /\ ~(Following(s) < Len(merged[s])) => m = Len(merged[s])
<1> DEFINE n == start[s]
           q == merged[s]
           S == {n + Batch, Len(q)}
           m == Min(S)
<1>1. /\ n \in Nat /\ q \in Seq(Found) /\ Len(q) \in Nat /\ n < Len(q)
      /\ Batch \in Nat /\ Batch > 0
      /\ \A i \in 1..Len(q) : q[i] \in Found
  BY ShapeFacts, Bounds, ElementOfSeq DEF Phase
<1>2. m \in S /\ \A y \in S : m <= y
  <2>1. S \subseteq Nat /\ S # {}
    BY <1>1
  <2> HIDE DEF S
  <2> QED BY <2>1, LeastNatural DEF Min
<1>3. Chunk(s) = SubSeq(q, n + 1, m) /\ Following(s) = n + Batch
  BY DEF Chunk, Following
<1> HIDE DEF m, q, n
<1>4. /\ m \in Nat /\ n < m /\ m <= Len(q)
      /\ n + Batch < Len(q) => m = n + Batch
      /\ ~(n + Batch < Len(q)) => m = Len(q)
  BY <1>1, <1>2
<1>5. \A i \in n + 1..m : q[i] \in Found
  BY <1>1, <1>4
<1>6. /\ SubSeq(q, n + 1, m) \in Seq(Found)
      /\ Len(SubSeq(q, n + 1, m)) = IF n + 1 <= m THEN m - (n + 1) + 1 ELSE 0
      /\ \A i \in 1..m - (n + 1) + 1 : SubSeq(q, n + 1, m)[i] = q[(n + 1) + i - 1]
  <2>1. n + 1 \in Int /\ m \in Int
    BY <1>1, <1>4
  <2> QED BY <1>5, <2>1, SubSeqProperties
<1>7. n + 1 <= m /\ m - (n + 1) + 1 = m - n
  BY <1>1, <1>4
<1>8. \A i \in 1..m - n : (n + 1) + i - 1 = n + i /\ n + i \in 1..Len(q)
  BY <1>1, <1>4
<1>9. Len(SubSeq(q, n + 1, m)) = m - n /\ \A i \in 1..m - n : SubSeq(q, n + 1, m)[i] = q[n + i]
  BY <1>6, <1>7, <1>8
<1> QED BY <1>3, <1>4, <1>6, <1>8, <1>9 DEF n, q

\* What a chunk that is applied makes of the collection: every row in it was
\* there, or was gathered.
LEMMA ApplyFacts ==
  ASSUME IInv, NEW s \in Sessions, pc[s] = "write", Apply(s)
  PROVE  /\ coll' \in Collections /\ minted' \in 0..MaxKey /\ minted <= minted'
         /\ before' \in [Sessions -> Collections \cup {Disturbed}]
         /\ before'[s] = before[s] /\ \A o \in Sessions : o # s => before'[o] = Disturbed
         /\ autoId => \A k \in Keys : coll'[k] # NoRow => k <= minted'
         /\ \A k \in Keys : coll'[k] # NoRow =>
              \/ coll'[k] = coll[k] /\ (~autoId => \A i \in 1..Len(Chunk(s)) : Chunk(s)[i].pk # k)
              \/ \E i \in DOMAIN merged[s] : /\ coll'[k] = merged[s][i].row
                                             /\ ~autoId => merged[s][i].pk = k
<1> DEFINE chunk == Chunk(s)
           d == Len(chunk)
<1>1. /\ autoId => minted + d <= MaxKey
      /\ coll' = Upserted(chunk)
      /\ minted' = IF autoId THEN minted + d ELSE minted
      /\ before' = [o \in Sessions |-> IF o = s THEN before[o] ELSE Disturbed]
  BY DEF Apply
<1>2. Shapes /\ Phase(s) /\ NoKeyAhead
  BY DEF IInv
<1>3. PICK m \in Nat :
        /\ start[s] < m /\ m <= Len(merged[s])
        /\ chunk \in Seq(Found) /\ d = m - start[s]
        /\ \A i \in 1..m - start[s] : /\ chunk[i] = merged[s][start[s] + i]
                                      /\ start[s] + i \in 1..Len(merged[s])
  BY <1>2, ChunkFacts
<1> HIDE DEF chunk, d
<1>4. /\ d \in Nat /\ minted \in Nat /\ minted \in 0..MaxKey /\ autoId \in BOOLEAN
      /\ coll \in Collections /\ DOMAIN merged[s] = 1..Len(merged[s])
      /\ \A i \in 1..d : chunk[i] = merged[s][start[s] + i] /\ start[s] + i \in 1..Len(merged[s])
  BY <1>2, <1>3, ShapeFacts, LenProperties DEF d
<1>5. minted' \in 0..MaxKey /\ minted <= minted'
  BY <1>1, <1>4, Bounds
<1>6. /\ before' \in [Sessions -> Collections \cup {Disturbed}]
      /\ before'[s] = before[s] /\ \A o \in Sessions : o # s => before'[o] = Disturbed
  BY <1>1, <1>2 DEF Shapes
<1>7. ASSUME NEW k \in Keys
      PROVE  \/ \E i \in 1..d : Place(chunk, minted, i) = k /\ coll'[k] = chunk[i].row
             \/ /\ \A i \in 1..d : Place(chunk, minted, i) # k
                /\ coll'[k] = IF \E i \in 1..d : chunk[i].pk = k THEN NoRow ELSE coll[k]
  BY <1>1, <1>3, <1>4, Upserts DEF d
<1>8. ASSUME autoId, NEW k \in Keys, coll'[k] # NoRow PROVE k <= minted'
  <2>1. CASE \E i \in 1..d : Place(chunk, minted, i) = k
    <3>1. PICK i \in 1..d : Place(chunk, minted, i) = k
      BY <2>1
    <3>2. minted + i = k
      BY <1>8, <3>1 DEF Place
    <3> QED BY <1>1, <1>4, <1>8, <3>2
  <2>2. CASE coll'[k] = IF \E i \in 1..d : chunk[i].pk = k THEN NoRow ELSE coll[k]
    <3>1. coll[k] # NoRow
      BY <1>8, <2>2
    <3>2. k <= minted /\ k \in Nat
      BY <1>2, <1>8, <3>1, Bounds DEF NoKeyAhead
    <3>3. minted' \in Nat
      BY <1>5, Bounds
    <3> QED BY <1>4, <1>5, <3>2, <3>3
  <2> QED BY <1>7, <2>1, <2>2
<1>9. ASSUME NEW k \in Keys, coll'[k] # NoRow
      PROVE  \/ coll'[k] = coll[k] /\ (~autoId => \A i \in 1..d : chunk[i].pk # k)
             \/ \E i \in DOMAIN merged[s] : coll'[k] = merged[s][i].row
                                            /\ (~autoId => merged[s][i].pk = k)
  <2>1. CASE \E i \in 1..d : Place(chunk, minted, i) = k /\ coll'[k] = chunk[i].row
    <3>1. PICK i \in 1..d : Place(chunk, minted, i) = k /\ coll'[k] = chunk[i].row
      BY <2>1
    <3>2. ~autoId => chunk[i].pk = k
      BY <3>1 DEF Place
    <3>3. chunk[i] = merged[s][start[s] + i] /\ start[s] + i \in DOMAIN merged[s]
      BY <1>4, <3>1
    <3> QED BY <3>1, <3>2, <3>3
  <2>2. CASE /\ \A i \in 1..d : Place(chunk, minted, i) # k
             /\ coll'[k] = IF \E i \in 1..d : chunk[i].pk = k THEN NoRow ELSE coll[k]
    <3>1. \A i \in 1..d : chunk[i].pk # k
      BY <1>9, <2>2
    <3> QED BY <2>2, <3>1
  <2> QED BY <1>7, <2>1, <2>2
<1>10. coll' \in Collections
  <2>1. Keys # {} => \E k \in Keys : TRUE
    OBVIOUS
  <2>2. \A k \in Keys : Upserted(chunk) \in Collections
    BY <1>3, <1>4, Upserts
  <2>3. Keys = {} => Upserted(chunk) \in Collections
    BY DEF Upserted, Collections
  <2> QED BY <1>1, <2>1, <2>2, <2>3
<1> QED BY <1>5, <1>6, <1>8, <1>9, <1>10 DEF d, chunk

\* What it is to the statement that nobody disturbed: one more chunk.
LEMMA ChunkWritten ==
  ASSUME Shapes, NEW s \in Sessions, Phase(s), Exact(s), before[s] # Disturbed, pc[s] = "write",
         Apply(s), NEW m \in Nat, start[s] < m, m <= Len(merged[s]),
         Chunk(s) \in Seq(Found), Len(Chunk(s)) = m - start[s],
         \A i \in 1..m - start[s] : Chunk(s)[i] = merged[s][start[s] + i]
  PROVE  /\ Overlaid(coll', before[s], merged[s], m, minted - start[s])
         /\ autoId => (minted - start[s]) + m <= MaxKey
<1> DEFINE n == start[s]
           q == merged[s]
           b == before[s]
           base == minted - n
           chunk == Chunk(s)
<1>1. coll' = Upserted(chunk) /\ (autoId => minted + Len(chunk) <= MaxKey)
  BY DEF Apply
<1>2. /\ coll \in Collections /\ minted \in Nat /\ b \in Collections /\ q \in Seq(Found)
      /\ n \in Nat /\ n <= m /\ base \in Int
  BY ShapeFacts
<1>3. /\ Gathered(q, stmt[s], b, Matching(stmt[s], b)) /\ Overlaid(coll, b, q, n, base)
      /\ autoId => base >= 0 /\ \A k \in Keys : b[k] # NoRow => k <= base
  BY DEF Exact
<1>4. /\ \A i \in 1..Len(q) : q[i].pk \in Keys /\ b[q[i].pk] # NoRow
      /\ \A i, j \in 1..Len(q) : q[i].pk = q[j].pk => i = j
  <2> HIDE DEF q, b
  <2> QED BY <1>2, <1>3, GatheredKeys
<1>5. autoId => minted + (m - n) <= MaxKey /\ base + m <= MaxKey
  BY <1>1, <1>2, Bounds
<1> HIDE DEF n, q, b, chunk
<1>6. Overlaid(Upserted(chunk), b, q, m, base)
  <2>1. base = minted - n
    OBVIOUS
  <2>2. /\ m <= Len(q) /\ chunk \in Seq(Found) /\ Len(chunk) = m - n
        /\ \A i \in 1..m - n : chunk[i] = q[n + i]
    BY DEF n, q, chunk
  <2> HIDE DEF base
  <2> QED BY <1>2, <1>3, <1>4, <1>5, <2>1, <2>2, OverlayOn
<1> QED BY <1>1, <1>5, <1>6 DEF n, q, b

\* The rows gathered, by whoever: those that were, unless the statement is over.
LEMMA GatheredBefore ==
  ASSUME NEW s \in Sessions, \A o \in Sessions : o # s => merged'[o] = merged[o],
         merged'[s] = merged[s] \/ merged'[s] = << >>
  PROVE  \A o \in Sessions : \A i \in DOMAIN merged'[o] :
           i \in DOMAIN merged[o] /\ merged'[o][i] = merged[o][i]
<1>1. DOMAIN << >> = {}
  OBVIOUS
<1> QED BY <1>1

\* What a chunk leaves true, whether its answer arrives or not.
LEMMA ChunkKeeps ==
  ASSUME IInv, NEW s \in Sessions, pc[s] = "write", Apply(s),
         UNCHANGED <<autoId, level, replica, stmt, overlapped, buried>>,
         \A o \in Sessions : o # s => merged'[o] = merged[o],
         merged'[s] = merged[s] \/ merged'[s] = << >>
  PROVE  /\ NoKeyAhead' /\ OwnKeys' /\ ValuesSet' /\ Burial'
         /\ level = "Strong" /\ ~autoId =>
              /\ \A p \in settled : \A k \in Keys :
                   coll'[k] # NoRow /\ coll'[k].who = p[1] => coll'[k].col[p[2]] = 1
              /\ \A o \in Sessions : \A i \in DOMAIN merged'[o] : \A p \in settled :
                   merged'[o][i].row.who = p[1] => merged'[o][i].row.col[p[2]] = 1
<1>1. /\ coll' \in Collections /\ minted' \in 0..MaxKey /\ minted <= minted'
      /\ autoId => \A k \in Keys : coll'[k] # NoRow => k <= minted'
      /\ \A k \in Keys : coll'[k] # NoRow =>
           \/ coll'[k] = coll[k]
           \/ \E i \in DOMAIN merged[s] : coll'[k] = merged[s][i].row /\ (~autoId => merged[s][i].pk = k)
  BY ApplyFacts
<1>2. /\ Shapes /\ NoKeyAhead /\ OwnKeys /\ ValuesSet /\ Settling /\ Burial
  BY DEF IInv
<1>3. \A o \in Sessions : \A i \in DOMAIN merged'[o] :
        i \in DOMAIN merged[o] /\ merged'[o][i] = merged[o][i]
  BY GatheredBefore
<1>4. NoKeyAhead'
  <2> SUFFICES ASSUME autoId, NEW k \in Keys, replica[k] # NoRow PROVE k <= minted'
    BY <1>1 DEF NoKeyAhead
  <2>1. k <= minted /\ k \in Nat /\ minted \in Nat /\ minted' \in Nat
    BY <1>1, <1>2, ShapeFacts, Bounds DEF NoKeyAhead
  <2> QED BY <1>1, <2>1
<1>5. OwnKeys'
  <2> SUFFICES ASSUME ~autoId
               PROVE  /\ \A k \in Keys : coll'[k] # NoRow => coll'[k].who = k
                      /\ \A o \in Sessions : \A i \in DOMAIN merged'[o] :
                           merged'[o][i].row.who = merged'[o][i].pk
    BY <1>2 DEF OwnKeys
  <2>1. ASSUME NEW k \in Keys, coll'[k] # NoRow PROVE coll'[k].who = k
    BY <1>1, <1>2, <2>1 DEF OwnKeys
  <2> QED BY <1>2, <1>3, <2>1 DEF OwnKeys
<1>6. ValuesSet'
  BY <1>2, <1>3 DEF ValuesSet
<1>7. Burial'
  <2> SUFFICES ASSUME level = "Strong"
               PROVE  /\ \A k \in Keys : coll'[k] # NoRow => coll'[k].who \notin buried
                      /\ \A o \in Sessions : \A i \in DOMAIN merged'[o] :
                           merged'[o][i].row.who \notin buried
    BY DEF Burial
  <2>1. ASSUME NEW k \in Keys, coll'[k] # NoRow PROVE coll'[k].who \notin buried
    BY <1>1, <1>2, <2>1 DEF Burial
  <2> QED BY <1>2, <1>3, <2>1 DEF Burial
<1>8. ASSUME level = "Strong", ~autoId, NEW p \in settled, NEW k \in Keys,
             coll'[k] # NoRow, coll'[k].who = p[1]
      PROVE  coll'[k].col[p[2]] = 1
  <2>1. CASE coll'[k] = coll[k]
    BY <1>2, <1>8, <2>1 DEF Settling
  <2>2. CASE \E i \in DOMAIN merged[s] : coll'[k] = merged[s][i].row
    BY <1>2, <1>8, <2>2 DEF Settling
  <2> QED BY <1>1, <1>8, <2>1, <2>2
<1>9. ASSUME level = "Strong", ~autoId, NEW p \in settled, NEW o \in Sessions,
             NEW i \in DOMAIN merged'[o], merged'[o][i].row.who = p[1]
      PROVE  merged'[o][i].row.col[p[2]] = 1
  BY <1>2, <1>3, <1>9 DEF Settling
<1> QED BY <1>4, <1>5, <1>6, <1>7, <1>8, <1>9

\* What has been written of a statement that nothing overlapped has its value.
LEMMA ChunkSets ==
  ASSUME IInv, NEW s \in Sessions, pc[s] = "write", Apply(s),
         level = "Strong", ~autoId, ~overlapped[s],
         NEW m \in Nat, start[s] < m, m <= Len(merged[s]), Len(Chunk(s)) = m - start[s],
         \A i \in 1..m - start[s] : Chunk(s)[i] = merged[s][start[s] + i],
         NEW i \in 1..m, coll'[merged[s][i].pk] # NoRow
  PROVE  coll'[merged[s][i].pk].col[stmt[s].set] = 1
<1> DEFINE q == merged[s]
           k == q[i].pk
           n == start[s]
<1>1. Shapes /\ ValuesSet /\ Settling
  BY DEF IInv
<1>2. n \in Nat /\ Len(q) \in Nat /\ DOMAIN q = 1..Len(q) /\ q \in Seq(Found)
  BY <1>1, ShapeFacts
<1>3. i \in 1..Len(q) /\ k \in Keys
  <2>1. i \in 1..Len(q)
    BY <1>2
  <2> QED BY <1>2, <2>1, FoundFacts
<1>4. \/ coll'[k] = coll[k] /\ \A j \in 1..Len(Chunk(s)) : Chunk(s)[j].pk # k
      \/ \E j \in DOMAIN q : coll'[k] = q[j].row
  BY <1>3, ApplyFacts
<1>5. CASE \E j \in DOMAIN q : coll'[k] = q[j].row
  BY <1>1, <1>5 DEF ValuesSet
<1>6. CASE coll'[k] = coll[k] /\ \A j \in 1..Len(Chunk(s)) : Chunk(s)[j].pk # k
  <2>1. i \in 1..n
    <3> SUFFICES ASSUME i \notin 1..n PROVE FALSE
      OBVIOUS
    <3> HIDE DEF n
    <3>1. i - n \in 1..m - n /\ n + (i - n) = i
      BY <1>2
    <3>2. Chunk(s)[i - n] = q[i]
      BY <3>1 DEF n
    <3> QED BY <1>6, <3>1, <3>2 DEF n
  <2> QED BY <1>1, <1>6, <2>1 DEF Settling
<1> QED BY <1>4, <1>5, <1>6

\* Nobody else runs beside a statement that nothing overlapped.
LEMMA AloneIs ==
  ASSUME IInv, NEW s \in Sessions, Busy(s)
  PROVE  /\ \A o \in Sessions : o # s /\ Busy(o) => overlapped[o]
         /\ ~overlapped[s] => \A o \in Sessions : o # s => ~Busy(o) /\ merged[o] = << >>
<1>1. Overlaps /\ \A o \in Sessions : Phase(o)
  BY DEF IInv
<1> QED BY <1>1 DEF Overlaps, Phase

\* Under caller-assigned keys it does not matter what the largest key was.
LEMMA OverlaidAnyBase ==
  ASSUME ~autoId, NEW c, NEW b, NEW q, NEW n, NEW x, NEW y, Overlaid(c, b, q, n, x)
  PROVE  Overlaid(c, b, q, n, y)
BY DEF Overlaid, Place

\* The rowcount of a statement that has written all it gathered.
LEMMA CountedOnce ==
  ASSUME NEW q \in Seq(Found), NEW st, NEW b, Gathered(q, st, b, Matching(st, b))
  PROVE  Len(q) = Cardinality(Matching(st, b))
<1> DEFINE hit == Matching(st, b)
           f == [i \in 1..Len(q) |-> q[i].pk]
<1>1. Len(q) \in Nat /\ DOMAIN q = 1..Len(q)
  BY LenProperties
<1>2. /\ \A i \in 1..Len(q) : q[i].pk \in hit
      /\ \A k \in hit : \E i \in 1..Len(q) : q[i].pk = k
  BY <1>1 DEF Gathered
<1>3. \A i, j \in 1..Len(q) : q[i].pk = q[j].pk => i = j
  BY GatheredKeys
<1> HIDE DEF hit
<1>4. f \in [1..Len(q) -> hit] /\ (\A i, j \in 1..Len(q) : f[i] = f[j] => i = j)
      /\ \A k \in hit : \E i \in 1..Len(q) : f[i] = k
  BY <1>2, <1>3
<1> HIDE DEF f
<1>5. ExistsBijection(1..Len(q), hit)
  <2>1. f \in Bijection(1..Len(q), hit)
    BY <1>4 DEF Bijection, Injection, Surjection, IsInjective
  <2> QED BY <2>1 DEF ExistsBijection
<1>6. IsFiniteSet(1..Len(q)) /\ Cardinality(1..Len(q)) = Len(q)
  <2>1. IsFiniteSet(1..Len(q))
    BY <1>1, FS_Interval
  <2>2. Cardinality(1..Len(q)) = IF 1 > Len(q) THEN 0 ELSE Len(q) - 1 + 1
    BY <1>1, FS_Interval
  <2> QED BY <1>1, <2>1, <2>2
<1>7. Cardinality(hit) = Cardinality(1..Len(q))
  BY <1>5, <1>6, FS_Bijection
<1> QED BY <1>6, <1>7 DEF hit

LEMMA UpsertStep ==
  ASSUME IInv, NEW s \in Sessions, UpsertChunk(s)
  PROVE  IInv'
<1> DEFINE st == stmt[s]
           q == merged[s]
           n == start[s]
           more == Following(s) < Len(q)
<1>1. /\ pc[s] = "write" /\ Apply(s)
      /\ count' = [count EXCEPT ![s] = @ + Len(Chunk(s))]
      /\ IF more THEN start' = [start EXCEPT ![s] = Following(s)] /\ UNCHANGED <<pc, merged, settled>>
         ELSE pc' = [pc EXCEPT ![s] = "done"] /\ settled' = settled \cup Settled(s) /\ Forget(s)
      /\ UNCHANGED <<autoId, level, replica, stmt, after, begun, overlapped, buried>>
  BY DEF UpsertChunk
<1>2. /\ Shapes /\ (\A o \in Sessions : Phase(o)) /\ NoKeyAhead /\ OwnKeys /\ ValuesSet /\ Overlaps
      /\ Settling /\ Burial /\ \A o \in Sessions : before[o] # Disturbed => Exact(o)
  BY DEF IInv
<1>3. /\ Busy(s) /\ Phase(s) /\ after[s] = 0 /\ n \in Nat /\ count[s] \in Nat /\ st \in Statements
      /\ q \in Seq(Found) /\ Len(q) \in Nat /\ DOMAIN q = 1..Len(q) /\ minted \in Nat
      /\ autoId \in BOOLEAN
  BY <1>1, <1>2, ShapeFacts DEF Phase, Busy
<1>4. PICK m \in Nat :
        /\ n < m /\ m <= Len(q)
        /\ Chunk(s) \in Seq(Found) /\ Len(Chunk(s)) = m - n
        /\ \A i \in 1..m - n : Chunk(s)[i] = q[n + i] /\ n + i \in 1..Len(q)
        /\ more => m = Following(s)
        /\ ~more => m = Len(q)
  BY <1>1, <1>2, <1>3, ChunkFacts
<1>5. /\ coll' \in Collections /\ minted' \in 0..MaxKey /\ minted <= minted'
      /\ before' \in [Sessions -> Collections \cup {Disturbed}]
      /\ before'[s] = before[s] /\ \A o \in Sessions : o # s => before'[o] = Disturbed
  BY <1>1, ApplyFacts
<1>6. /\ \A o \in Sessions : o # s =>
           /\ pc'[o] = pc[o] /\ merged'[o] = merged[o] /\ start'[o] = start[o]
           /\ count'[o] = count[o]
      /\ pc' \in [Sessions -> {"idle", "read", "write", "done", "failed"}]
      /\ DOMAIN merged' = Sessions /\ start' \in [Sessions -> Nat] /\ count' \in [Sessions -> Nat]
      /\ count'[s] = count[s] + (m - n)
      /\ more => pc'[s] = "write" /\ merged'[s] = q /\ start'[s] = m /\ settled' = settled
      /\ ~more => /\ pc'[s] = "done" /\ merged'[s] = << >> /\ start'[s] = 0
                  /\ settled' = settled \cup Settled(s)
  <2>1. /\ pc \in [Sessions -> {"idle", "read", "write", "done", "failed"}]
        /\ DOMAIN merged = Sessions /\ start \in [Sessions -> Nat] /\ count \in [Sessions -> Nat]
    BY <1>2, ShapeFacts
  <2> HIDE DEF n, q
  <2>2. /\ count' = [count EXCEPT ![s] = @ + (m - n)] /\ m - n \in Nat
    BY <1>1, <1>3, <1>4
  <2>3. /\ count' \in [Sessions -> Nat] /\ count'[s] = count[s] + (m - n)
        /\ \A o \in Sessions : o # s => count'[o] = count[o]
    BY <1>3, <2>1, <2>2
  <2>4. CASE more
    <3>1. start' = [start EXCEPT ![s] = m] /\ UNCHANGED <<pc, merged, settled>>
      BY <1>1, <1>4, <2>4
    <3> HIDE DEF more
    <3> QED BY <1>1, <2>1, <2>3, <2>4, <3>1 DEF q
  <2>5. CASE ~more
    <3>1. /\ pc' = [pc EXCEPT ![s] = "done"] /\ settled' = settled \cup Settled(s)
          /\ merged' = [merged EXCEPT ![s] = << >>] /\ start' = [start EXCEPT ![s] = 0]
      BY <1>1, <2>5 DEF Forget
    <3> HIDE DEF more
    <3> QED BY <2>1, <2>3, <2>5, <3>1
  <2> QED BY <2>4, <2>5
<1> HIDE DEF more, n, q, st
<1>7. /\ NoKeyAhead' /\ OwnKeys' /\ ValuesSet' /\ Burial'
      /\ level = "Strong" /\ ~autoId =>
           /\ \A p \in settled : \A k \in Keys :
                coll'[k] # NoRow /\ coll'[k].who = p[1] => coll'[k].col[p[2]] = 1
           /\ \A o \in Sessions : \A i \in DOMAIN merged'[o] : \A p \in settled :
                merged'[o][i].row.who = p[1] => merged'[o][i].row.col[p[2]] = 1
  <2>1. merged'[s] = merged[s] \/ merged'[s] = << >>
    BY <1>6 DEF q
  <2> QED BY <1>1, <1>6, <2>1, ChunkKeeps
<1>8. settled' \in SUBSET (InitialKeys \X Cols)
  <2>1. Settled(s) \in SUBSET (InitialKeys \X Cols)
    <3>1. \A i \in DOMAIN merged[s] : <<merged[s][i].row.who, stmt[s].set>> \in InitialKeys \X Cols
      <4>1. stmt[s].set \in Cols
        BY <1>3 DEF Statements, st
      <4>2. \A i \in DOMAIN merged[s] : merged[s][i].row.who \in InitialKeys
        BY <1>3, FoundFacts, RowFacts DEF q
      <4> QED BY <4>1, <4>2
    <3> QED BY <3>1 DEF Settled
  <2> QED BY <1>2, <1>6, <2>1 DEF Shapes
<1>9. Shapes'
  <2>1. << >> \in Seq(Found)
    OBVIOUS
  <2>2. \A o \in Sessions : merged'[o] \in Seq(Found)
    BY <1>2, <1>3, <1>6, <2>1, ShapeFacts
  <2>3. TypeOK'
    BY <1>1, <1>2, <1>5, <1>6, <2>2 DEF Shapes, TypeOK, Found, Collections
  <2> QED BY <1>1, <1>2, <1>5, <1>6, <1>8, <2>3 DEF Shapes, Collections
<1>10. ASSUME NEW o \in Sessions PROVE Phase(o)'
  <2>1. CASE o = s /\ more
    <3>1. m < Len(q)
      BY <1>4, <2>1 DEF more
    <3> QED BY <1>1, <1>3, <1>6, <2>1, <3>1 DEF Phase, Busy
  <2>2. CASE o = s /\ ~more
    BY <1>1, <1>3, <1>6, <2>2 DEF Phase, Busy
  <2>3. CASE o # s
    <3>1. after'[o] = after[o]
      BY <1>1
    <3> QED BY <1>2, <1>6, <2>3, <3>1, PhaseStays
  <2> QED BY <2>1, <2>2, <2>3
<1>11. Overlaps'
  <2>1. \A o \in Sessions : Busy(o)' => Busy(o)
    BY <1>3, <1>6 DEF Busy
  <2> QED BY <1>1, <1>2, <2>1, OverlapsStay
<1>12. /\ \A o \in Sessions : o # s /\ pc[o] = "write" => overlapped[o]
       /\ ~overlapped[s] => \A o \in Sessions : o # s => merged[o] = << >>
  BY <1>3, AloneIs DEF Busy
<1>13. Settling'
  <2> SUFFICES ASSUME level = "Strong", ~autoId
               PROVE  /\ \A p \in settled' : \A k \in Keys :
                           coll'[k] # NoRow /\ coll'[k].who = p[1] => coll'[k].col[p[2]] = 1
                      /\ \A o \in Sessions : \A i \in DOMAIN merged'[o] : \A p \in settled' :
                           merged'[o][i].row.who = p[1] => merged'[o][i].row.col[p[2]] = 1
                      /\ \A o \in Sessions : pc'[o] = "write" /\ ~overlapped[o] =>
                           \A i \in 1..start'[o] :
                             coll'[merged'[o][i].pk] # NoRow =>
                               coll'[merged'[o][i].pk].col[stmt[o].set] = 1
    BY <1>1 DEF Settling
  <2>1. ASSUME ~overlapped[s], NEW i \in 1..m, coll'[q[i].pk] # NoRow
        PROVE  coll'[q[i].pk].col[stmt[s].set] = 1
    BY <1>1, <1>4, <2>1, ChunkSets DEF q, n
  \* What the statement settles, it has written.
  <2>2. ASSUME NEW p \in settled', p \notin settled
        PROVE  ~overlapped[s] /\ m = Len(q) /\ ~more /\ \E i \in 1..m : p = <<q[i].row.who, stmt[s].set>>
    <3>1. ~more /\ p \in Settled(s)
      BY <1>6, <2>2
    <3> QED BY <1>3, <1>4, <3>1 DEF Settled, q
  <2>3. ASSUME NEW p \in settled', NEW k \in Keys, coll'[k] # NoRow, coll'[k].who = p[1]
        PROVE  coll'[k].col[p[2]] = 1
    <3>1. CASE p \in settled
      BY <1>7, <2>3, <3>1
    <3>2. CASE p \notin settled
      <4>1. PICK i \in 1..m : p = <<q[i].row.who, stmt[s].set>>
        BY <2>2, <3>2
      <4>2. i \in DOMAIN q /\ ~overlapped[s]
        BY <1>3, <1>4, <2>2, <3>2
      <4>3. q[i].row.who = q[i].pk /\ coll'[k].who = k
        BY <1>1, <1>2, <1>7, <2>3, <4>2 DEF OwnKeys, q
      <4>4. p[1] = q[i].row.who /\ p[2] = stmt[s].set
        BY <4>1
      <4>5. k = q[i].pk
        BY <2>3, <4>3, <4>4
      <4> QED BY <2>1, <2>3, <4>2, <4>4, <4>5
    <3> QED BY <3>1, <3>2
  <2>4. ASSUME NEW o \in Sessions, NEW i \in DOMAIN merged'[o], NEW p \in settled',
               merged'[o][i].row.who = p[1]
        PROVE  merged'[o][i].row.col[p[2]] = 1
    <3>1. CASE p \in settled
      BY <1>7, <2>4, <3>1
    <3>2. CASE p \notin settled
      <4>1. merged'[o] = << >>
        BY <1>6, <1>12, <2>2, <3>2
      <4> QED BY <4>1
    <3> QED BY <3>1, <3>2
  <2>5. ASSUME NEW o \in Sessions, pc'[o] = "write", ~overlapped[o], NEW i \in 1..start'[o],
               coll'[merged'[o][i].pk] # NoRow
        PROVE  coll'[merged'[o][i].pk].col[stmt[o].set] = 1
    <3>1. o = s
      BY <1>6, <1>12, <2>5
    <3>2. more
      BY <1>6, <2>5, <3>1
    <3>3. merged'[o] = q /\ start'[o] = m
      BY <1>6, <3>1, <3>2
    <3> QED BY <2>1, <2>5, <3>1, <3>3
  <2> QED BY <2>3, <2>4, <2>5
<1>14. ASSUME NEW o \in Sessions, before'[o] # Disturbed PROVE Exact(o)'
  <2> DEFINE b == before[s]
             hit == Matching(st, b)
             base == minted - n
  <2>1. o = s /\ before[s] # Disturbed
    BY <1>5, <1>14
  <2>2. /\ Exact(s) /\ b \in Collections
    BY <1>2, <2>1, ShapeFacts
  <2>3. /\ Gathered(q, st, b, hit) /\ count[s] = n
        /\ autoId => base >= 0 /\ \A k \in Keys : b[k] # NoRow => k <= base
    BY <1>1, <2>2 DEF Exact, q, n, st
  <2>4. /\ Overlaid(coll', b, q, m, base)
        /\ autoId => base + m <= MaxKey
    BY <1>1, <1>2, <1>3, <1>4, <2>1, <2>2, ChunkWritten DEF q, n
  <2>5. minted' = IF autoId THEN minted + (m - n) ELSE minted
    BY <1>1, <1>4 DEF Apply
  <2>6. count'[s] = m
    <3>1. count'[s] = n + (m - n) /\ n \in Nat
      BY <1>3, <1>6, <2>3
    <3> QED BY <3>1
  <2>7. base \in Int /\ minted' \in Nat
    <3>1. minted' \in Nat
      BY <1>5, Bounds
    <3> QED BY <1>3, <3>1
  <2> HIDE DEF b, hit, base
  <2>8. CASE more
    <3>1. Overlaid(coll', b, q, m, minted' - m)
      <4>1. CASE autoId
        <5>1. minted' - m = base
          BY <1>3, <2>5, <4>1 DEF base
        <5> QED BY <2>4, <5>1
      <4>2. CASE ~autoId
        BY <2>4, <4>2, OverlaidAnyBase
      <4> QED BY <4>1, <4>2
    <3>2. Overlaid(coll, before[s], merged[s], start[s], minted - start[s])'
      <4>1. /\ coll' = coll' /\ before'[s] = b /\ merged'[s] = q /\ start'[s] = m
            /\ minted' - start'[s] = minted' - m
        BY <1>5, <1>6, <2>8 DEF b
      <4> QED BY <1>1, <3>1, <4>1 DEF Overlaid, Place
    <3>3. Gathered(merged'[s], stmt'[s], before'[s], Matching(stmt'[s], before'[s]))
      BY <1>1, <1>5, <1>6, <2>3, <2>8 DEF b, hit, st
    <3>4. count'[s] = start'[s]
      BY <1>6, <2>6, <2>8
    <3>5. autoId' => /\ minted' - start'[s] >= 0
                     /\ \A k \in Keys : before'[s][k] # NoRow => k <= minted' - start'[s]
      <4>1. autoId => minted' - start'[s] = base
        BY <1>3, <1>6, <2>5, <2>8 DEF base
      <4> QED BY <1>1, <1>5, <2>3, <4>1 DEF b
    <3>6. pc'[s] = "write"
      BY <1>6, <2>8
    <3> QED BY <2>1, <3>2, <3>3, <3>4, <3>5, <3>6 DEF Exact
  <2>9. CASE ~more
    <3>1. m = Len(q) /\ pc'[s] = "done"
      BY <1>4, <1>6, <2>9
    <3>2. /\ \A w \in InitialKeys : Cardinality(RowsOf(coll', w)) = Cardinality(RowsOf(b, w))
          /\ Contents(coll') = Result(st, b)
      <4>1. Gathered(q, st, b, Matching(st, b))
        BY <2>3 DEF hit
      <4>2. autoId => base >= 0 /\ base + m <= MaxKey /\ \A k \in Keys : b[k] # NoRow => k <= base
        BY <2>3, <2>4
      <4>3. b \in Collections /\ coll' \in Collections /\ st \in Statements /\ q \in Seq(Found)
            /\ m \in Nat /\ m <= Len(q) /\ base \in Int /\ Overlaid(coll', b, q, m, base)
        BY <1>3, <1>4, <1>5, <2>2, <2>4, <2>7
      <4> DEFINE c == coll'
      <4> HIDE DEF c
      <4>4. /\ \A w \in InitialKeys : Cardinality(RowsOf(c, w)) = Cardinality(RowsOf(b, w))
            /\ m = Len(q) => Contents(c) = Result(st, b)
        <5>1. c \in Collections /\ Overlaid(c, b, q, m, base)
          BY <4>3 DEF c
        <5> QED BY ONLY <4>1, <4>2, <4>3, <5>1, Outcome
      <4> QED BY <3>1, <4>4 DEF c
    <3>3. count'[s] = Cardinality(Matching(st, b))
      BY <1>3, <2>3, <2>6, <3>1, CountedOnce DEF hit
    <3>4. before'[s] = b /\ stmt'[s] = st
      BY <1>1, <1>5 DEF b, st
    <3> QED BY <2>1, <3>1, <3>2, <3>3, <3>4 DEF Exact
  <2> QED BY <2>8, <2>9
<1> QED BY <1>7, <1>9, <1>10, <1>11, <1>13, <1>14 DEF IInv

\* What a statement that fails leaves of the collection.
LEMMA FailLeaves ==
  ASSUME IInv, NEW s \in Sessions, before[s] # Disturbed,
         \/ Busy(s) /\ coll' = coll
         \/ pc[s] = "write" /\ Apply(s)
  PROVE  /\ \A w \in InitialKeys : Cardinality(RowsOf(coll', w)) = Cardinality(RowsOf(before[s], w))
         /\ Contents(coll') \subseteq
              Contents(before[s]) \cup {Updated(row, stmt[s]) : row \in Contents(before[s])}
<1> DEFINE st == stmt[s]
           b == before[s]
           q == merged[s]
           n == start[s]
           base == minted - n
           c == coll'
<1>1. /\ Shapes /\ Phase(s) /\ Exact(s)
  BY DEF IInv
<1>2. /\ b \in Collections /\ coll \in Collections /\ st \in Statements /\ q \in Seq(Found)
      /\ n \in Nat /\ minted \in 0..MaxKey /\ minted \in Nat /\ base \in Int /\ Len(q) \in Nat
  BY <1>1, ShapeFacts
<1>3. CASE pc[s] = "read" /\ coll' = coll
  <2>1. c = b
    BY <1>1, <1>3 DEF Exact
  <2> HIDE DEF c, b
  <2> QED BY <2>1 DEF c, b
<1>4. ASSUME pc[s] = "write"
      PROVE  /\ Gathered(q, st, b, Matching(st, b)) /\ Overlaid(coll, b, q, n, base) /\ n < Len(q)
             /\ autoId => base >= 0 /\ \A k \in Keys : b[k] # NoRow => k <= base
  BY <1>1, <1>4 DEF Exact, Phase
\* The rows that made it are the first m.
<1>5. ASSUME pc[s] = "write", c \in Collections, NEW m \in Nat, m <= Len(q), Overlaid(c, b, q, m, base),
             autoId => base + m <= MaxKey
      PROVE  /\ \A w \in InitialKeys : Cardinality(RowsOf(c, w)) = Cardinality(RowsOf(b, w))
             /\ Contents(c) \subseteq Contents(b) \cup {Updated(row, st) : row \in Contents(b)}
  <2> HIDE DEF c, b, q, st, n, base
  <2>1. /\ Gathered(q, st, b, Matching(st, b))
        /\ autoId => base >= 0 /\ base + m <= MaxKey /\ \A k \in Keys : b[k] # NoRow => k <= base
    BY <1>4, <1>5
  <2> QED BY ONLY <1>2, <1>5, <2>1, Outcome
<1>6. CASE pc[s] = "write" /\ coll' = coll
  <2>1. n <= Len(q) /\ Overlaid(c, b, q, n, base) /\ c \in Collections
    BY <1>2, <1>4, <1>6
  <2>2. autoId => base + n <= MaxKey
    BY <1>2, Bounds
  <2> HIDE DEF c, b, q, st, n, base
  <2>3. /\ \A w \in InitialKeys : Cardinality(RowsOf(c, w)) = Cardinality(RowsOf(b, w))
        /\ Contents(c) \subseteq Contents(b) \cup {Updated(row, st) : row \in Contents(b)}
    BY <1>2, <1>5, <1>6, <2>1, <2>2
  <2> QED BY <2>3 DEF c, b, st
<1>7. CASE pc[s] = "write" /\ Apply(s)
  <2>1. PICK m \in Nat :
          /\ n < m /\ m <= Len(q)
          /\ Chunk(s) \in Seq(Found) /\ Len(Chunk(s)) = m - n
          /\ \A i \in 1..m - n : Chunk(s)[i] = q[n + i]
    BY <1>1, <1>7, ChunkFacts
  <2>2. Overlaid(c, b, q, m, base) /\ (autoId => base + m <= MaxKey)
    BY <1>1, <1>7, <2>1, ChunkWritten
  <2>3. c \in Collections
    BY <1>7, ApplyFacts
  <2> HIDE DEF c, b, q, st, n, base
  <2>4. /\ \A w \in InitialKeys : Cardinality(RowsOf(c, w)) = Cardinality(RowsOf(b, w))
        /\ Contents(c) \subseteq Contents(b) \cup {Updated(row, st) : row \in Contents(b)}
    BY <1>5, <1>7, <2>1, <2>2, <2>3
  <2> QED BY <2>4 DEF c, b, st
<1> QED BY <1>3, <1>6, <1>7 DEF Busy

LEMMA FailStep ==
  ASSUME IInv, NEW s \in Sessions, Fail(s)
  PROVE  IInv'
<1>1. /\ Busy(s) /\ pc' = [pc EXCEPT ![s] = "failed"]
      /\ \/ UNCHANGED <<coll, minted, before>>
         \/ pc[s] = "write" /\ Apply(s)
      /\ merged' = [merged EXCEPT ![s] = << >>] /\ start' = [start EXCEPT ![s] = 0]
      /\ after' = [after EXCEPT ![s] = 0]
      /\ UNCHANGED <<autoId, level, replica, stmt, count, begun, overlapped, settled, buried>>
  BY DEF Fail, Forget
<1>2. /\ Shapes /\ (\A o \in Sessions : Phase(o)) /\ NoKeyAhead /\ OwnKeys /\ ValuesSet /\ Overlaps
      /\ Settling /\ Burial /\ \A o \in Sessions : before[o] # Disturbed => Exact(o)
  BY DEF IInv
<1>3. /\ \A o \in Sessions : o # s =>
           /\ pc'[o] = pc[o] /\ merged'[o] = merged[o] /\ start'[o] = start[o]
           /\ after'[o] = after[o] /\ count'[o] = count[o] /\ stmt'[o] = stmt[o]
      /\ pc' \in [Sessions -> {"idle", "read", "write", "done", "failed"}]
      /\ DOMAIN merged' = Sessions /\ start' \in [Sessions -> Nat]
      /\ after' \in [Sessions -> 0..MaxKey]
      /\ pc'[s] = "failed" /\ merged'[s] = << >> /\ start'[s] = 0 /\ after'[s] = 0
  <2>1. 0 \in 0..MaxKey
    BY Bounds
  <2> QED BY <1>1, <1>2, <2>1, ShapeFacts
<1>4. \A o \in Sessions : \A i \in DOMAIN merged'[o] :
        i \in DOMAIN merged[o] /\ merged'[o][i] = merged[o][i]
  BY <1>3, GatheredBefore
<1>5. /\ coll' \in Collections /\ minted' \in 0..MaxKey
      /\ before' \in [Sessions -> Collections \cup {Disturbed}] /\ before'[s] = before[s]
  <2>1. CASE UNCHANGED <<coll, minted, before>>
    BY <1>2, <2>1, ShapeFacts DEF Shapes
  <2>2. CASE pc[s] = "write" /\ Apply(s)
    BY <2>2, ApplyFacts
  <2> QED BY <1>1, <2>1, <2>2
<1>6. /\ NoKeyAhead' /\ OwnKeys' /\ ValuesSet' /\ Burial'
      /\ level = "Strong" /\ ~autoId =>
           /\ \A p \in settled : \A k \in Keys :
                coll'[k] # NoRow /\ coll'[k].who = p[1] => coll'[k].col[p[2]] = 1
           /\ \A o \in Sessions : \A i \in DOMAIN merged'[o] : \A p \in settled :
                merged'[o][i].row.who = p[1] => merged'[o][i].row.col[p[2]] = 1
  <2>1. CASE UNCHANGED <<coll, minted, before>>
    <3>1. NoKeyAhead'
      BY <1>1, <1>2, <2>1 DEF NoKeyAhead
    <3>2. OwnKeys'
      BY <1>1, <1>2, <1>4, <2>1 DEF OwnKeys
    <3>3. ValuesSet'
      BY <1>1, <1>2, <1>4 DEF ValuesSet
    <3>4. Burial'
      BY <1>1, <1>2, <1>4, <2>1 DEF Burial
    <3> QED BY <1>2, <1>4, <2>1, <3>1, <3>2, <3>3, <3>4 DEF Settling
  <2>2. CASE pc[s] = "write" /\ Apply(s)
    BY <1>1, <1>3, <2>2, ChunkKeeps
  <2> QED BY <1>1, <2>1, <2>2
<1>7. Shapes'
  <2>1. << >> \in Seq(Found)
    OBVIOUS
  <2>2. \A o \in Sessions : merged'[o] \in Seq(Found)
    BY <1>2, <1>3, <2>1, ShapeFacts
  <2>3. TypeOK'
    BY <1>1, <1>2, <1>3, <1>5, <2>2 DEF Shapes, TypeOK, Found, Collections
  <2> QED BY <1>1, <1>2, <1>3, <1>5, <2>3 DEF Shapes, Collections
<1>8. ASSUME NEW o \in Sessions PROVE Phase(o)'
  <2>1. CASE o = s
    BY <1>3, <2>1 DEF Phase, Busy
  <2>2. CASE o # s
    BY <1>2, <1>3, <2>2, PhaseStays
  <2> QED BY <2>1, <2>2
<1>9. Overlaps'
  <2>1. \A o \in Sessions : Busy(o)' => Busy(o)
    BY <1>1, <1>3 DEF Busy
  <2> QED BY <1>1, <1>2, <2>1, OverlapsStay
<1>10. Settling'
  <2> SUFFICES ASSUME level = "Strong", ~autoId, NEW o \in Sessions, pc'[o] = "write", ~overlapped[o],
                      NEW i \in 1..start'[o], coll'[merged'[o][i].pk] # NoRow
               PROVE  coll'[merged'[o][i].pk].col[stmt[o].set] = 1
    BY <1>1, <1>6 DEF Settling
  <2>1. o # s /\ pc[o] = "write" /\ merged'[o] = merged[o] /\ start'[o] = start[o]
    BY <1>3
  <2>2. overlapped[o]
    BY <1>1, <2>1, AloneIs DEF Busy
  <2> QED BY <2>2
<1>11. ASSUME NEW o \in Sessions, before'[o] # Disturbed PROVE Exact(o)'
  <2>1. CASE o = s
    <3>1. \/ Busy(s) /\ coll' = coll
          \/ pc[s] = "write" /\ Apply(s)
      BY <1>1
    <3>2. /\ \A w \in InitialKeys : Cardinality(RowsOf(coll', w)) = Cardinality(RowsOf(before[s], w))
          /\ Contents(coll') \subseteq
               Contents(before[s]) \cup {Updated(row, stmt[s]) : row \in Contents(before[s])}
      BY <1>5, <1>11, <2>1, <3>1, FailLeaves
    <3> QED BY <1>1, <1>3, <1>5, <2>1, <3>2 DEF Exact
  <2>2. CASE o # s
    <3>1. UNCHANGED <<coll, minted, before>>
      BY <1>1, <1>11, <2>2, ApplyFacts
    <3>2. Exact(o) /\ (Visible = coll => Visible' = coll)
      BY <1>1, <1>2, <1>11, <3>1 DEF Visible
    <3> QED BY <1>1, <1>3, <2>2, <3>1, <3>2, ExactStays
  <2> QED BY <2>1, <2>2
<1> QED BY <1>6, <1>7, <1>8, <1>9, <1>10, <1>11 DEF IInv

LEMMA DeleteStep ==
  ASSUME IInv, NEW k \in Keys, Delete(k)
  PROVE  IInv'
<1> DEFINE gone == {coll[k].who} \ {coll'[j].who : j \in Keys}
<1>1. /\ coll[k] # NoRow /\ coll' = [coll EXCEPT ![k] = NoRow]
      /\ before' = [s \in Sessions |-> Disturbed]
      /\ buried' = IF \A s \in Sessions : ~Busy(s) THEN buried \cup gone ELSE buried
      /\ UNCHANGED <<autoId, level, replica, minted, pc, stmt, after, merged, start, count, begun,
                     overlapped, settled>>
  BY DEF Delete, session
<1>2. /\ Shapes /\ (\A o \in Sessions : Phase(o)) /\ NoKeyAhead /\ OwnKeys /\ ValuesSet /\ Overlaps
      /\ Settling /\ Burial
  BY DEF IInv
<1>3. /\ coll' \in Collections /\ coll'[k] = NoRow
      /\ \A j \in Keys : coll'[j] # NoRow => coll'[j] = coll[j]
  <2>1. coll \in Collections
    BY <1>2, ShapeFacts
  <2> QED BY <1>1, <2>1 DEF Collections
<1>4. gone \in SUBSET InitialKeys
  <2>1. coll[k] \in Rows
    BY <1>1, <1>2, ShapeFacts DEF Collections
  <2> QED BY <2>1, RowFacts
<1>5. Shapes'
  <2>1. buried' \in SUBSET InitialKeys
    BY <1>1, <1>2, <1>4 DEF Shapes
  <2>2. before' \in [Sessions -> Collections \cup {Disturbed}]
    BY <1>1
  <2>3. TypeOK'
    BY <1>1, <1>2, <1>3 DEF Shapes, TypeOK, Collections
  <2> QED BY <1>1, <1>2, <2>1, <2>2, <2>3 DEF Shapes, Collections
<1>6. \A o \in Sessions : Phase(o)'
  BY <1>1, <1>2, PhaseStays
<1>7. NoKeyAhead' /\ OwnKeys' /\ ValuesSet'
  BY <1>1, <1>2, <1>3 DEF NoKeyAhead, OwnKeys, ValuesSet
<1>8. Overlaps'
  BY <1>1, <1>2 DEF Overlaps, Busy
<1>9. Settling'
  <2> SUFFICES ASSUME level = "Strong", ~autoId
               PROVE  /\ \A p \in settled : \A j \in Keys :
                           coll'[j] # NoRow /\ coll'[j].who = p[1] => coll'[j].col[p[2]] = 1
                      /\ \A o \in Sessions : pc[o] = "write" /\ ~overlapped[o] =>
                           \A i \in 1..start[o] :
                             coll'[merged[o][i].pk] # NoRow =>
                               coll'[merged[o][i].pk].col[stmt[o].set] = 1
    BY <1>1, <1>2 DEF Settling
  <2>1. ASSUME NEW o \in Sessions, pc[o] = "write", ~overlapped[o], NEW i \in 1..start[o],
               coll'[merged[o][i].pk] # NoRow
        PROVE  coll'[merged[o][i].pk].col[stmt[o].set] = 1
    <3>1. merged[o][i].pk \in Keys
      <4>1. merged[o] \in Seq(Found) /\ start[o] \in Nat /\ Len(merged[o]) \in Nat
        BY <1>2, ShapeFacts
      <4>2. i \in 1..Len(merged[o])
        BY <1>2, <2>1, <4>1 DEF Phase
      <4> QED BY <4>1, <4>2, FoundFacts
    <3>2. coll'[merged[o][i].pk] = coll[merged[o][i].pk]
      BY <1>3, <2>1, <3>1
    <3> QED BY <1>2, <2>1, <3>2 DEF Settling
  <2> QED BY <1>2, <1>3, <2>1 DEF Settling
<1>10. Burial'
  <2> SUFFICES ASSUME level = "Strong"
               PROVE  /\ \A j \in Keys : coll'[j] # NoRow => coll'[j].who \notin buried'
                      /\ \A s \in Sessions : \A i \in DOMAIN merged[s] :
                           merged[s][i].row.who \notin buried'
    BY <1>1 DEF Burial
  <2>1. \A j \in Keys : coll'[j] # NoRow => coll'[j].who \notin buried
    BY <1>2, <1>3 DEF Burial
  <2>2. \A j \in Keys : coll'[j].who \notin gone
    OBVIOUS
  <2>3. CASE \A s \in Sessions : ~Busy(s)
    <3>1. \A s \in Sessions : merged[s] = << >>
      BY <1>2, <2>3 DEF Phase
    <3>2. \A s \in Sessions : DOMAIN merged[s] = {}
      BY <3>1
    <3> QED BY <1>1, <2>1, <2>2, <2>3, <3>2
  <2>4. CASE ~\A s \in Sessions : ~Busy(s)
    BY <1>1, <1>2, <2>1, <2>4 DEF Burial
  <2> QED BY <2>3, <2>4
<1>11. \A o \in Sessions : before'[o] = Disturbed
  BY <1>1
<1> QED BY <1>5, <1>6, <1>7, <1>8, <1>9, <1>10, <1>11 DEF IInv

LEMMA SyncStep ==
  ASSUME IInv, Sync
  PROVE  IInv'
<1>1. /\ replica' = coll
      /\ UNCHANGED <<autoId, level, coll, minted, pc, stmt, after, merged, start, count, begun,
                     before, overlapped, settled, buried>>
  BY DEF Sync, session
<1>2. /\ Shapes /\ (\A o \in Sessions : Phase(o)) /\ NoKeyAhead /\ OwnKeys /\ ValuesSet /\ Overlaps
      /\ Settling /\ Burial /\ \A o \in Sessions : before[o] # Disturbed => Exact(o)
  BY DEF IInv
<1>3. Shapes'
  BY <1>1, <1>2 DEF Shapes, TypeOK, Collections
<1>4. \A o \in Sessions : Phase(o)'
  BY <1>1, <1>2, PhaseStays
<1>5. NoKeyAhead' /\ OwnKeys' /\ ValuesSet' /\ Overlaps'
  BY <1>1, <1>2 DEF NoKeyAhead, OwnKeys, ValuesSet, Overlaps, Busy
<1>6. Settling' /\ Burial'
  BY <1>1, <1>2 DEF Settling, Burial
<1>7. ASSUME NEW o \in Sessions, before'[o] # Disturbed PROVE Exact(o)'
  <2>1. Exact(o) /\ (Visible = coll => Visible' = coll)
    BY <1>1, <1>2, <1>7 DEF Visible
  <2> QED BY <1>1, <2>1, ExactStays
<1> QED BY <1>3, <1>4, <1>5, <1>6, <1>7 DEF IInv

LEMMA StutterStep ==
  ASSUME IInv, UNCHANGED vars
  PROVE  IInv'
<1>1. UNCHANGED <<autoId, level, coll, replica, minted, pc, stmt, after, merged, start, count, begun,
                  before, overlapped, settled, buried>>
  BY DEF vars, session
<1>2. /\ Shapes /\ (\A o \in Sessions : Phase(o)) /\ NoKeyAhead /\ OwnKeys /\ ValuesSet /\ Overlaps
      /\ Settling /\ Burial /\ \A o \in Sessions : before[o] # Disturbed => Exact(o)
  BY DEF IInv
<1>3. Shapes'
  BY <1>1, <1>2 DEF Shapes, TypeOK, Collections
<1>4. \A o \in Sessions : Phase(o)'
  BY <1>1, <1>2, PhaseStays
<1>5. NoKeyAhead' /\ OwnKeys' /\ ValuesSet' /\ Overlaps' /\ Settling' /\ Burial'
  BY <1>1, <1>2 DEF NoKeyAhead, OwnKeys, ValuesSet, Overlaps, Busy, Settling, Burial
<1>6. ASSUME NEW o \in Sessions, before'[o] # Disturbed PROVE Exact(o)'
  <2>1. Exact(o) /\ (Visible = coll => Visible' = coll)
    BY <1>1, <1>2, <1>6 DEF Visible
  <2> QED BY <1>1, <2>1, ExactStays
<1> QED BY <1>3, <1>4, <1>5, <1>6 DEF IInv

-----------------------------------------------------------------------------
(* The invariant.                                                          *)

\* The largest key that may be used at first.
LEMMA LargestKey ==
  /\ Max(InitialKeys \cup {0}) \in 0..MaxKey
  /\ \A k \in InitialKeys : k <= Max(InitialKeys \cup {0})
<1> DEFINE S == InitialKeys \cup {0}
           T == {MaxKey - x : x \in S}
<1>1. MaxKey \in Nat /\ \A x \in S : x \in 0..MaxKey /\ MaxKey - x \in Nat
  BY Bounds
<1>2. PICK y \in T : \A z \in T : y <= z
  <2>1. T \subseteq Nat /\ T # {}
    BY <1>1
  <2> HIDE DEF T
  <2> QED BY <2>1, LeastNatural
<1>3. PICK x \in S : y = MaxKey - x
  BY <1>2
<1>4. \A z \in S : x >= z
  <2> SUFFICES ASSUME NEW z \in S PROVE x >= z
    OBVIOUS
  <2>1. MaxKey - x <= MaxKey - z
    BY <1>2, <1>3
  <2>2. MaxKey \in Nat /\ x \in 0..MaxKey /\ z \in 0..MaxKey
    BY <1>1
  <2> QED BY ONLY <2>1, <2>2
<1>5. Max(S) \in S /\ \A z \in S : Max(S) >= z
  <2> HIDE DEF S
  <2> QED BY <1>4 DEF Max
<1>6. Max(S) \in 0..MaxKey
  BY <1>1, <1>5
<1>7. ASSUME NEW k \in InitialKeys PROVE k <= Max(S)
  <2>1. k \in 0..MaxKey /\ Max(S) >= k
    BY <1>1, <1>5
  <2> QED BY <1>6, <2>1
<1> QED BY <1>6, <1>7

LEMMA InitIInv == Init => IInv
<1> SUFFICES ASSUME Init PROVE IInv
  OBVIOUS
<1>1. /\ autoId \in BOOLEAN /\ level \in {"Strong", "Bounded"}
      /\ coll \in Collections /\ replica = coll /\ minted = Max(InitialKeys \cup {0})
      /\ \A k \in Keys : coll[k] # NoRow =>
           k \in InitialKeys /\ coll[k] = [who |-> k, col |-> [x \in Cols |-> 0]]
      /\ pc = [s \in Sessions |-> "idle"]
      /\ stmt \in [Sessions -> {CHOOSE st \in Statements : TRUE}]
      /\ after = [s \in Sessions |-> 0] /\ merged = [s \in Sessions |-> << >>]
      /\ start = [s \in Sessions |-> 0] /\ count = [s \in Sessions |-> 0]
      /\ before = [s \in Sessions |-> Disturbed]
      /\ overlapped = [s \in Sessions |-> FALSE]
      /\ begun = 0 /\ settled = {} /\ buried = {}
  BY DEF Init, Collections
<1>2. stmt \in [Sessions -> Statements]
  <2>1. PICK c \in Cols, w \in Wheres : TRUE
    BY Bounds
  <2>2. [set |-> c, where |-> w] \in Statements
    BY DEF Statements
  <2>3. (CHOOSE st \in Statements : TRUE) \in Statements
    BY <2>2
  <2> QED BY <1>1, <2>3
<1>3. minted \in 0..MaxKey /\ 0 \in 0..MaxKey /\ 0 \in 0..MaxStatements
  BY <1>1, LargestKey, Bounds
<1>4. << >> \in Seq(Found) /\ DOMAIN << >> = {}
  OBVIOUS
<1>5. Shapes
  <2>1. TypeOK
    BY <1>1, <1>2, <1>3, <1>4 DEF TypeOK, Collections, Found
  <2> QED BY <1>1, <2>1 DEF Shapes
<1>6. \A s \in Sessions : Phase(s)
  BY <1>1 DEF Phase, Busy
<1>7. NoKeyAhead
  BY <1>1, LargestKey DEF NoKeyAhead
<1>8. \A s \in Sessions : DOMAIN merged[s] = {}
  BY <1>1, <1>4
<1>9. OwnKeys
  <2>1. ASSUME NEW k \in Keys, coll[k] # NoRow PROVE coll[k].who = k
    <3>1. coll[k] = [who |-> k, col |-> [x \in Cols |-> 0]]
      BY <1>1, <2>1
    <3> QED BY <3>1
  <2> QED BY <1>1, <1>8, <2>1 DEF OwnKeys
<1>10. ValuesSet /\ Overlaps
  BY <1>1, <1>8 DEF ValuesSet, Overlaps, Busy
<1>11. Settling /\ Burial
  BY <1>1, <1>8 DEF Settling, Burial
<1> QED BY <1>1, <1>5, <1>6, <1>7, <1>9, <1>10, <1>11 DEF IInv

LEMMA NextIInv == IInv /\ [Next]_vars => IInv'
<1> SUFFICES ASSUME IInv, [Next]_vars PROVE IInv'
  OBVIOUS
<1>1. CASE \E s \in Sessions : \E st \in Statements : Begin(s, st)
  BY <1>1, BeginStep
<1>2. CASE \E s \in Sessions : ReadPage(s)
  BY <1>2, ReadStep
<1>3. CASE \E s \in Sessions : UpsertChunk(s)
  BY <1>3, UpsertStep
<1>4. CASE \E s \in Sessions : Fail(s)
  BY <1>4, FailStep
<1>5. CASE \E k \in Keys : Delete(k)
  BY <1>5, DeleteStep
<1>6. CASE Sync
  BY <1>6, SyncStep
<1>7. CASE UNCHANGED vars
  BY <1>7, StutterStep
<1> QED BY <1>1, <1>2, <1>3, <1>4, <1>5, <1>6, <1>7 DEF Next

LEMMA IInvAlways == Spec => []IInv
<1>1. Init => IInv
  BY InitIInv
<1>2. IInv /\ [Next]_vars => IInv'
  BY NextIInv
<1> QED BY <1>1, <1>2, PTL DEF Spec

-----------------------------------------------------------------------------
(* Theorems.                                                               *)

\* Every variable of _build_update's chain keeps its type; in particular the
\* rows it merges the SET values into stay rows of the collection's columns.
THEOREM TypeCorrect == Spec => []TypeOK
<1>1. IInv => TypeOK
  BY DEF IInv, Shapes
<1> QED BY <1>1, IInvAlways, PTL

\* An UPDATE that returned, that nobody wrote beside and that read the current
\* rows has done what SQL's UPDATE does: it set the column in exactly the rows
\* that matched, kept every other column and row, dropped and duplicated none,
\* and its rowcount is their number -- for any page size and chunk size, over
\* any number of pages and chunks (_build_update's link() chain).
THEOREM ExactAlone == Spec => []ExactWhenAlone
<1>1. IInv => ExactWhenAlone
  <2> SUFFICES ASSUME IInv, NEW s \in Sessions, pc[s] = "done", before[s] # Disturbed
               PROVE  /\ Contents(coll) = Result(stmt[s], before[s])
                      /\ \A w \in InitialKeys :
                           Cardinality(RowsOf(coll, w)) = Cardinality(RowsOf(before[s], w))
                      /\ count[s] = Cardinality(Matching(stmt[s], before[s]))
    BY DEF ExactWhenAlone, Result
  <2>1. Exact(s)
    BY DEF IInv
  <2> QED BY <2>1 DEF Exact
<1> QED BY <1>1, IInvAlways, PTL

\* One that an exception ended part-way, between any two RPCs and whether the
\* failing upsert was applied or not, left every row once, either as it was or
\* as the statement would have left it.
THEOREM RowsStayWhole == Spec => []WholeRowsWhenFailed
<1>1. IInv => WholeRowsWhenFailed
  <2> SUFFICES ASSUME IInv, NEW s \in Sessions, pc[s] = "failed", before[s] # Disturbed
               PROVE  /\ \A w \in InitialKeys :
                           Cardinality(RowsOf(coll, w)) = Cardinality(RowsOf(before[s], w))
                      /\ Contents(coll) \subseteq
                           Contents(before[s]) \cup {Updated(row, stmt[s]) : row \in Contents(before[s])}
    BY DEF WholeRowsWhenFailed
  <2>1. Exact(s)
    BY DEF IInv
  <2> QED BY <2>1 DEF Exact
<1> QED BY <1>1, IInvAlways, PTL

\* With Strong reads and caller-assigned keys, what an UPDATE that nothing
\* overlapped has set and acknowledged is never written back to its old value
\* by a later UPDATE's whole-row upsert (output_fields ["*"], then upsert).
THEOREM SettledStays == Spec => []UpdatesStay
<1>1. IInv => UpdatesStay
  <2> SUFFICES ASSUME IInv, level = "Strong", ~autoId, NEW p \in settled, NEW k \in RowsOf(coll, p[1])
               PROVE  coll[k].col[p[2]] = 1
    BY DEF UpdatesStay
  <2>1. Settling /\ k \in Keys /\ coll[k] # NoRow /\ coll[k].who = p[1]
    BY DEF IInv, RowsOf
  <2> QED BY <2>1 DEF Settling
<1> QED BY <1>1, IInvAlways, PTL

\* With Strong reads, a row deleted while no UPDATE was running is not brought
\* back by any later one: the upsert writes only rows that were read since.
THEOREM BuriedStays == Spec => []DeletesStay
<1>1. IInv => DeletesStay
  <2> SUFFICES ASSUME IInv, level = "Strong", NEW w \in buried, NEW k \in RowsOf(coll, w)
               PROVE  FALSE
    BY DEF DeletesStay
  <2>1. Burial /\ k \in Keys /\ coll[k] # NoRow /\ coll[k].who = w
    BY DEF IInv, RowsOf
  <2> QED BY <2>1 DEF Burial
<1> QED BY <1>1, IInvAlways, PTL
=============================================================================
