---------------------------- MODULE JoinReadProofs ----------------------------
(***************************************************************************)
(* Proofs about JoinRead, for any statements of any number of joins, any   *)
(* contents and bounds.  That the plan is transparent is an induction on   *)
(* the joins: after i of them, what the narrowed reads join to and what    *)
(* the collections join to agree on every joined row whose restrictions    *)
(* by reads of later frames are met, and every other one will be dropped.  *)
(***************************************************************************)
EXTENDS JoinRead, SequenceTheorems, FiniteSetTheorems, NatSetProofs, TLAPS

\* Joined rows of the first m frames, and the first i of one.
Cells == Rows \cup {NoRow}
Tuples(m) == [1..m -> Cells]
Cut(t, i) == [x \in 1..i |-> t[x]]
Blank(i) == [x \in 1..i |-> NoRow]

-----------------------------------------------------------------------------
(* Joined rows.                                                            *)

LEMMA ShapeFacts ==
  ASSUME NEW st, StatementShape(st)
  PROVE  /\ Len(st.joins) \in Nat /\ DOMAIN st.joins = 1..Len(st.joins)
         /\ st.search \in 0..Len(st.joins)+1
         /\ \A i \in 1..Len(st.joins) :
              /\ st.joins[i].how \in Hows /\ st.joins[i].on \in 0..i /\ st.joins[i].cond \in BOOLEAN
              /\ st.joins[i].on \in Nat
         /\ \A f \in 1..Len(st.joins)+1 : st.where[f] \in Predicates
<1> DEFINE J == [how : Hows, on : Nat, cond : BOOLEAN]
<1>1. st.joins \in Seq(J)
  BY DEF StatementShape
<1>2. /\ Len(st.joins) \in Nat /\ DOMAIN st.joins = 1..Len(st.joins)
      /\ \A i \in 1..Len(st.joins) : st.joins[i] \in J
  <2> HIDE DEF J
  <2> QED BY <1>1, LenProperties, ElementOfSeq
<1>3. /\ \A i \in 1..Len(st.joins) : st.joins[i].on \in 0..i
      /\ st.where \in [1..Len(st.joins)+1 -> Predicates] /\ st.search \in 0..Len(st.joins)+1
  BY DEF StatementShape
<1> QED BY <1>2, <1>3

LEMMA RowFacts ==
  /\ NoRow \notin Rows /\ NoRow \in Cells /\ NoRow.k = Null
  /\ \A r \in Rows : r # NoRow /\ r \in Cells
<1>1. NoRow.k = Null /\ NoRow.real = FALSE
  BY DEF NoRow
<1>2. \A r \in Rows : r.real = TRUE
  BY DEF Rows
<1>3. \A r \in Rows : r # NoRow
  BY <1>1, <1>2
<1> QED BY <1>1, <1>3 DEF Cells

LEMMA AppendIs ==
  ASSUME NEW i \in Nat, NEW l \in Tuples(i), NEW r \in Cells
  PROVE  /\ Append(l, r) \in Tuples(i + 1) /\ Append(l, r)[i + 1] = r
         /\ \A x \in 1..i : Append(l, r)[x] = l[x]
         /\ Cut(Append(l, r), i) = l
<1> HIDE DEF Cells
<1>1. l \in Seq(Cells) /\ Len(l) = i
  BY DEF Tuples
<1>2. /\ Append(l, r) \in Seq(Cells) /\ Len(Append(l, r)) = i + 1
      /\ Append(l, r)[i + 1] = r /\ \A x \in 1..i : Append(l, r)[x] = l[x]
  BY <1>1, AppendProperties
<1>3. Append(l, r) \in Tuples(i + 1)
  BY <1>2, LenProperties DEF Tuples
<1>4. Cut(Append(l, r), i) = l
  BY <1>2 DEF Cut, Tuples
<1> QED BY <1>2, <1>3, <1>4

LEMMA CutIs ==
  ASSUME NEW i \in Nat, NEW t \in Tuples(i + 1)
  PROVE  /\ Cut(t, i) \in Tuples(i) /\ t[i + 1] \in Cells
         /\ \A x \in 1..i : Cut(t, i)[x] = t[x]
         /\ t = Append(Cut(t, i), t[i + 1])
<1> HIDE DEF Cells
<1>1. Cut(t, i) \in Tuples(i) /\ t[i + 1] \in Cells /\ \A x \in 1..i : Cut(t, i)[x] = t[x]
  BY DEF Cut, Tuples
<1>2. /\ Append(Cut(t, i), t[i + 1]) \in Tuples(i + 1)
      /\ Append(Cut(t, i), t[i + 1])[i + 1] = t[i + 1]
      /\ \A x \in 1..i : Append(Cut(t, i), t[i + 1])[x] = t[x]
  BY <1>1, AppendIs
<1>3. \A x \in 1..i + 1 : Append(Cut(t, i), t[i + 1])[x] = t[x]
  <2>1. \A x \in 1..i + 1 : x \in 1..i \/ x = i + 1
    OBVIOUS
  <2> QED BY <1>2, <2>1
<1>4. t = Append(Cut(t, i), t[i + 1])
  BY <1>2, <1>3 DEF Tuples
<1> QED BY <1>1, <1>4

\* Two joined rows are one if they are one on the first i frames and the last.
LEMMA SameTuple ==
  ASSUME NEW i \in Nat, NEW t \in Tuples(i + 1), NEW u \in Tuples(i + 1),
         Cut(t, i) = Cut(u, i), t[i + 1] = u[i + 1]
  PROVE  t = u
BY CutIs

\* What a join puts into a joined row, by how it came to be there.
Paired(st, i, lefts, rows, l, r) == l \in lefts /\ r \in rows /\ On(st.joins[i], l, r)
LeftAlone(st, i, lefts, rows, l, r) ==
  /\ l \in lefts /\ r = NoRow /\ st.joins[i].how \in {"left", "full"}
  /\ \A x \in rows : ~On(st.joins[i], l, x)
RightAlone(st, i, lefts, rows, l, r) ==
  /\ l = Blank(i) /\ r \in rows /\ st.joins[i].how \in {"right", "full"}
  /\ \A x \in lefts : ~On(st.joins[i], x, r)
Comes(st, i, lefts, rows, l, r) ==
  \/ Paired(st, i, lefts, rows, l, r)
  \/ LeftAlone(st, i, lefts, rows, l, r)
  \/ RightAlone(st, i, lefts, rows, l, r)

LEMMA JoinedIs ==
  ASSUME NEW st, NEW i \in Nat, NEW lefts \in SUBSET Tuples(i), NEW rows \in SUBSET Rows
  PROVE  /\ Joined(st, i, lefts, rows) \in SUBSET Tuples(i + 1)
         /\ \A t \in Tuples(i + 1) :
              t \in Joined(st, i, lefts, rows) <=> Comes(st, i, lefts, rows, Cut(t, i), t[i + 1])
<1> DEFINE j == st.joins[i]
           pairs == {p \in lefts \X rows : On(j, p[1], p[2])}
           A == {Append(p[1], p[2]) : p \in pairs}
           B == {Append(l, NoRow) : l \in
                   {x \in lefts : j.how \in {"left", "full"} /\ \A r \in rows : <<x, r>> \notin pairs}}
           C == {Append(Blank(i), r) : r \in
                   {x \in rows : j.how \in {"right", "full"} /\ \A l \in lefts : <<l, x>> \notin pairs}}
<1>1. Joined(st, i, lefts, rows) = A \cup B \cup C
  BY DEF Joined, Blank
<1>2. \A l \in lefts, r \in rows : <<l, r>> \in pairs <=> On(j, l, r)
  OBVIOUS
<1>3. ASSUME NEW t PROVE t \in A <=> \E l \in lefts, r \in rows : On(j, l, r) /\ t = Append(l, r)
  <2>1. \A p : p \in pairs => p[1] \in lefts /\ p[2] \in rows /\ On(j, p[1], p[2])
    OBVIOUS
  <2>2. t \in A => \E p \in pairs : t = Append(p[1], p[2])
    OBVIOUS
  <2>3. ASSUME NEW l \in lefts, NEW r \in rows, On(j, l, r) PROVE Append(l, r) \in A
    <3>1. <<l, r>> \in pairs /\ <<l, r>>[1] = l /\ <<l, r>>[2] = r
      BY <1>2, <2>3
    <3> QED BY <3>1
  <2> HIDE DEF A, pairs
  <2> QED BY <2>1, <2>2, <2>3
<1>4. ASSUME NEW t
      PROVE  t \in B <=> \E l \in lefts : /\ t = Append(l, NoRow) /\ j.how \in {"left", "full"}
                                          /\ \A x \in rows : ~On(j, l, x)
  BY <1>2
<1>5. ASSUME NEW t
      PROVE  t \in C <=> \E r \in rows : /\ t = Append(Blank(i), r) /\ j.how \in {"right", "full"}
                                         /\ \A x \in lefts : ~On(j, x, r)
  BY <1>2
<1> HIDE DEF pairs, A, B, C
<1>6. /\ \A l \in lefts : l \in Tuples(i)
      /\ \A r \in rows : r \in Cells
      /\ NoRow \in Cells /\ Blank(i) \in Tuples(i)
  BY RowFacts DEF Blank, Tuples
<1>7. ASSUME NEW t \in A \cup B \cup C
      PROVE  t \in Tuples(i + 1) /\ Comes(st, i, lefts, rows, Cut(t, i), t[i + 1])
  <2>1. CASE t \in A
    <3>1. PICK l \in lefts, r \in rows : On(j, l, r) /\ t = Append(l, r)
      BY <1>3, <2>1
    <3>2. t \in Tuples(i + 1) /\ Cut(t, i) = l /\ t[i + 1] = r
      BY <1>6, <3>1, AppendIs
    <3> QED BY <3>1, <3>2 DEF Comes, Paired
  <2>2. CASE t \in B
    <3>1. PICK l \in lefts : /\ t = Append(l, NoRow) /\ j.how \in {"left", "full"}
                             /\ \A x \in rows : ~On(j, l, x)
      BY <1>4, <2>2
    <3>2. t \in Tuples(i + 1) /\ Cut(t, i) = l /\ t[i + 1] = NoRow
      BY <1>6, <3>1, AppendIs
    <3> QED BY <3>1, <3>2 DEF Comes, LeftAlone
  <2>3. CASE t \in C
    <3>1. PICK r \in rows : /\ t = Append(Blank(i), r) /\ j.how \in {"right", "full"}
                            /\ \A x \in lefts : ~On(j, x, r)
      BY <1>5, <2>3
    <3>2. t \in Tuples(i + 1) /\ Cut(t, i) = Blank(i) /\ t[i + 1] = r
      BY <1>6, <3>1, AppendIs
    <3> QED BY <3>1, <3>2 DEF Comes, RightAlone
  <2> QED BY <2>1, <2>2, <2>3
<1>8. ASSUME NEW t \in Tuples(i + 1), Comes(st, i, lefts, rows, Cut(t, i), t[i + 1])
      PROVE  t \in A \cup B \cup C
  <2>1. t = Append(Cut(t, i), t[i + 1])
    BY CutIs
  <2> DEFINE l == Cut(t, i)
             r == t[i + 1]
  <2> HIDE DEF l, r
  <2>2. CASE Paired(st, i, lefts, rows, l, r)
    BY <1>3, <2>1, <2>2 DEF Paired, l, r
  <2>3. CASE LeftAlone(st, i, lefts, rows, l, r)
    BY <1>4, <2>1, <2>3 DEF LeftAlone, l, r
  <2>4. CASE RightAlone(st, i, lefts, rows, l, r)
    BY <1>5, <2>1, <2>4 DEF RightAlone, l, r
  <2> QED BY <1>8, <2>2, <2>3, <2>4 DEF Comes, l, r
<1> QED BY <1>1, <1>7, <1>8

-----------------------------------------------------------------------------
(* The loop over the joins.                                                *)

\* f is what the first m turns of _evaluate's loop compute.
First(rowsOf) == {<<r>> : r \in rowsOf[1]}
Turns(f, st, rowsOf, m) ==
  /\ f = [i \in 0..m |-> f[i]]
  /\ f[0] = First(rowsOf)
  /\ \A i \in 1..m : f[i] = Joined(st, i, f[i - 1], rowsOf[i + 1])

\* The loop computes something, whatever the number of joins.
LEMMA LoopEnds ==
  ASSUME NEW st, NEW rowsOf, NEW n \in Nat
  PROVE  \E f : Turns(f, st, rowsOf, n)
<1> DEFINE T == {m \in Nat : \E f : Turns(f, st, rowsOf, m)}
<1>1. 0 \in T
  <2> DEFINE f == [i \in 0..0 |-> First(rowsOf)]
  <2>1. f = [i \in 0..0 |-> f[i]] /\ f[0] = First(rowsOf) /\ 1..0 = {}
    OBVIOUS
  <2> HIDE DEF f
  <2>2. Turns(f, st, rowsOf, 0)
    BY <2>1 DEF Turns
  <2> QED BY <2>2
<1>2. ASSUME NEW m \in Nat, m \in T PROVE m + 1 \in T
  <2>1. PICK f : Turns(f, st, rowsOf, m)
    BY <1>2
  <2> DEFINE next == Joined(st, m + 1, f[m], rowsOf[(m + 1) + 1])
             g == [i \in 0..m + 1 |-> IF i = m + 1 THEN next ELSE f[i]]
  <2>2. /\ g = [i \in 0..m + 1 |-> g[i]]
        /\ g[m + 1] = next /\ \A i \in 0..m : g[i] = f[i]
    OBVIOUS
  <2> HIDE DEF g
  <2>3. g[0] = First(rowsOf)
    <3>1. 0 \in 0..m
      OBVIOUS
    <3> QED BY <2>1, <2>2, <3>1 DEF Turns
  <2>4. ASSUME NEW i \in 1..m + 1 PROVE g[i] = Joined(st, i, g[i - 1], rowsOf[i + 1])
    <3>1. CASE i = m + 1
      <4>1. i - 1 = m /\ m \in 0..m
        BY <3>1
      <4>2. g[i] = next /\ g[i - 1] = f[m]
        BY <2>2, <3>1, <4>1
      <4> QED BY <3>1, <4>2
    <3>2. CASE i # m + 1
      <4>1. i \in 1..m /\ i - 1 \in 0..m /\ i \in 0..m
        BY <3>2
      <4> QED BY <2>1, <2>2, <4>1 DEF Turns
    <3> QED BY <3>1, <3>2
  <2>5. Turns(g, st, rowsOf, m + 1)
    BY <2>2, <2>3, <2>4 DEF Turns
  <2> QED BY <2>5
<1> HIDE DEF T
<1>3. n \in T
  BY <1>1, <1>2, NatSetInduction
<1> QED BY <1>3 DEF T

LEMMA StagesAre ==
  ASSUME NEW st, NEW rowsOf, Len(st.joins) \in Nat
  PROVE  Turns(Stages(st, rowsOf), st, rowsOf, Len(st.joins))
<1> DEFINE n == Len(st.joins)
           body(f) == [i \in 0..n |-> IF i = 0 THEN {<<r>> : r \in rowsOf[1]}
                                      ELSE Joined(st, i, f[i - 1], rowsOf[i + 1])]
           s == CHOOSE f : f = body(f)
<1>1. Stages(st, rowsOf) = s
  BY DEF Stages
<1>2. PICK f : Turns(f, st, rowsOf, n)
  BY LoopEnds
<1>3. f = body(f)
  <2>1. f = [i \in 0..n |-> f[i]]
    BY <1>2 DEF Turns
  <2>2. ASSUME NEW i \in 0..n PROVE f[i] = body(f)[i]
    <3>1. i = 0 \/ i \in 1..n
      OBVIOUS
    <3> QED BY <1>2, <3>1 DEF Turns, First
  <2>3. body(f) = [i \in 0..n |-> body(f)[i]]
    OBVIOUS
  <2> HIDE DEF body
  <2> QED BY <2>1, <2>2, <2>3
<1>4. s = body(s)
  <2> HIDE DEF body
  <2> QED BY <1>3
<1>5. /\ s = [i \in 0..n |-> s[i]] /\ s[0] = First(rowsOf)
      /\ \A i \in 1..n : s[i] = Joined(st, i, s[i - 1], rowsOf[i + 1])
  <2>1. /\ body(s) = [i \in 0..n |-> body(s)[i]] /\ body(s)[0] = First(rowsOf)
        /\ \A i \in 1..n : body(s)[i] = Joined(st, i, s[i - 1], rowsOf[i + 1])
    <3> HIDE DEF s
    <3> QED BY DEF First
  <2> HIDE DEF body, s
  <2> QED BY <1>4, <2>1
<1> HIDE DEF s
<1> QED BY <1>1, <1>5 DEF Turns

\* One row per frame.
Table(st, rowsOf) == \A f \in Frames(st) : rowsOf[f] \in SUBSET Rows

\* The joined rows of every stage have a cell for every frame so far, one of
\* them a row read; and one is NoRow only where an outer join says it may be.
LEMMA StagesFit ==
  ASSUME NEW st, StatementShape(st), NEW rowsOf, Table(st, rowsOf), NEW k \in 0..Len(st.joins)
  PROVE  /\ Stages(st, rowsOf)[k] \in SUBSET Tuples(k + 1)
         /\ \A t \in Stages(st, rowsOf)[k] :
              /\ t # Blank(k + 1)
              /\ \A f \in 1..k + 1 :
                   \/ t[f] \in rowsOf[f]
                   \/ t[f] = NoRow /\ \E h \in 1..k : f \in NullExtended(st, h)
<1> DEFINE n == Len(st.joins)
           s == Stages(st, rowsOf)
           P(m) == /\ s[m] \in SUBSET Tuples(m + 1)
                   /\ \A t \in s[m] :
                        /\ t # Blank(m + 1)
                        /\ \A f \in 1..m + 1 :
                             \/ t[f] \in rowsOf[f]
                             \/ t[f] = NoRow /\ \E h \in 1..m : f \in NullExtended(st, h)
           T == {m \in Nat : m \in 0..n => P(m)}
<1>1. n \in Nat /\ DOMAIN st.joins = 1..n /\ Frames(st) = 1..n + 1
      /\ \A h \in 1..n : st.joins[h].how \in Hows
  BY ShapeFacts DEF Frames
<1>2. s[0] = First(rowsOf) /\ \A m \in 1..n : s[m] = Joined(st, m, s[m - 1], rowsOf[m + 1])
  BY <1>1, StagesAre DEF Turns
<1> HIDE DEF n, s
<1>3. \A f \in 1..n + 1 : rowsOf[f] \in SUBSET Rows
  BY <1>1 DEF Table
<1>4. 0 \in T
  <2> SUFFICES ASSUME NEW t \in s[0]
               PROVE  t \in Tuples(1) /\ t # Blank(1) /\ \A f \in 1..1 : t[f] \in rowsOf[f]
    OBVIOUS
  <2>1. PICK r \in rowsOf[1] : t = <<r>>
    BY <1>2 DEF First
  <2>2. r \in Rows /\ r \in Cells /\ r # NoRow
    BY <1>1, <1>3, RowFacts
  <2>3. t \in Tuples(1) /\ t[1] = r
    BY <2>1, <2>2 DEF Tuples
  <2>4. Blank(1)[1] = NoRow
    BY DEF Blank
  <2> QED BY <2>1, <2>2, <2>3, <2>4
<1>5. ASSUME NEW m \in Nat, m \in T PROVE m + 1 \in T
  <2> SUFFICES ASSUME m + 1 \in 0..n PROVE P(m + 1)
    OBVIOUS
  <2> DEFINE i == m + 1
  <2>1. i \in 1..n /\ m \in 0..n /\ i - 1 = m /\ i \in Nat /\ i \in Frames(st) /\ i + 1 \in 1..n + 1
    BY <1>1
  <2>2. P(m)
    BY <1>5, <2>1
  <2>3. s[i] = Joined(st, i, s[m], rowsOf[i + 1])
    BY <1>2, <2>1
  <2>4. s[m] \in SUBSET Tuples(i) /\ rowsOf[i + 1] \in SUBSET Rows
    BY <1>3, <2>1, <2>2
  <2> HIDE DEF i
  <2>5. /\ s[i] \in SUBSET Tuples(i + 1)
        /\ \A t \in s[i] : Comes(st, i, s[m], rowsOf[i + 1], Cut(t, i), t[i + 1])
    BY <2>1, <2>3, <2>4, JoinedIs
  <2>6. \A t \in s[m] : /\ t # Blank(i)
                        /\ \A f \in 1..i :
                             \/ t[f] \in rowsOf[f]
                             \/ t[f] = NoRow /\ \E h \in 1..i : f \in NullExtended(st, h)
    <3>1. \A h \in 1..m : h \in 1..i
      BY DEF i
    <3>2. m + 1 = i
      BY DEF i
    <3> HIDE DEF s
    <3> QED BY <2>2, <3>1, <3>2
  <2>7. ASSUME NEW t \in s[i]
        PROVE  /\ t # Blank(i + 1)
               /\ \A f \in 1..i + 1 :
                    \/ t[f] \in rowsOf[f]
                    \/ t[f] = NoRow /\ \E h \in 1..i : f \in NullExtended(st, h)
    <3> DEFINE l == Cut(t, i)
               r == t[i + 1]
    <3>1. t \in Tuples(i + 1) /\ Comes(st, i, s[m], rowsOf[i + 1], l, r)
      BY <2>5
    <3>2. /\ l \in Tuples(i) /\ (\A f \in 1..i : l[f] = t[f])
          /\ \A f \in 1..i + 1 : f \in 1..i \/ f = i + 1
      BY <2>1, <3>1, CutIs
    <3>3. t = Blank(i + 1) => l = Blank(i) /\ r = NoRow
      BY <2>1, <3>2 DEF Blank, Cut
    <3> HIDE DEF l
    <3>4. CASE Paired(st, i, s[m], rowsOf[i + 1], l, r)
      <4>1. l \in s[m] /\ r \in rowsOf[i + 1]
        BY <3>4 DEF Paired
      <4> QED BY <2>6, <3>2, <3>3, <4>1
    <3>5. CASE LeftAlone(st, i, s[m], rowsOf[i + 1], l, r)
      <4>1. l \in s[m] /\ r = NoRow /\ st.joins[i].how \in {"left", "full"}
        BY <3>5 DEF LeftAlone
      <4>2. i + 1 \in NullExtended(st, i) /\ i \in 1..i
        BY <2>1, <4>1 DEF NullExtended
      <4> QED BY <2>6, <3>2, <3>3, <4>1, <4>2
    <3>6. CASE RightAlone(st, i, s[m], rowsOf[i + 1], l, r)
      <4>1. l = Blank(i) /\ r \in rowsOf[i + 1] /\ st.joins[i].how \in {"right", "full"}
        BY <3>6 DEF RightAlone
      <4>2. 1..i \subseteq NullExtended(st, i) /\ i \in 1..i
        BY <2>1, <4>1 DEF NullExtended
      <4>3. \A f \in 1..i : t[f] = NoRow
        BY <3>2, <4>1 DEF Blank
      <4>4. r # NoRow
        BY <2>4, <4>1, RowFacts
      <4> QED BY <3>2, <3>3, <4>1, <4>2, <4>3, <4>4
    <3> QED BY <3>1, <3>4, <3>5, <3>6 DEF Comes
  <2> QED BY <2>5, <2>7 DEF i
<1> HIDE DEF T
<1>6. k \in T
  <2>1. k \in Nat
    BY <1>1 DEF n
  <2> QED BY <1>4, <1>5, <2>1, NatSetInduction
<1> QED BY <1>6 DEF T, s, n

-----------------------------------------------------------------------------
(* The loop computes what SQL describes.                                   *)

LEMMA SqlJoinIs ==
  ASSUME NEW st, NEW i \in Nat, NEW lefts \in SUBSET Tuples(i), NEW rows \in SUBSET Rows,
         Blank(i) \notin lefts
  PROVE  SqlJoin(st, i, lefts, rows) = Joined(st, i, lefts, rows)
<1> DEFINE j == st.joins[i]
           Keeps(l, r) ==
             CASE l # Blank(i) /\ r # NoRow -> On(j, l, r)
               [] l # Blank(i) /\ r = NoRow -> j.how \in {"left", "full"} /\ ~\E x \in rows : On(j, l, x)
               [] l = Blank(i) /\ r # NoRow -> j.how \in {"right", "full"} /\ ~\E x \in lefts : On(j, x, r)
               [] OTHER -> FALSE
           L == lefts \cup {Blank(i)}
           R == rows \cup {NoRow}
           pairs == {q \in L \X R : Keeps(q[1], q[2])}
<1>1. SqlJoin(st, i, lefts, rows) = {Append(p[1], p[2]) : p \in pairs}
  BY DEF SqlJoin, Blank
<1>2. /\ \A r \in rows : r # NoRow /\ r \in Cells
      /\ \A l \in lefts : l # Blank(i) /\ l \in Tuples(i)
      /\ NoRow \in Cells /\ Blank(i) \in Tuples(i)
  BY RowFacts DEF Blank, Tuples
<1>3. ASSUME NEW l, NEW r
      PROVE  l \in L /\ r \in R /\ Keeps(l, r) <=> Comes(st, i, lefts, rows, l, r)
  <2>1. ASSUME l \in L, r \in R, Keeps(l, r) PROVE Comes(st, i, lefts, rows, l, r)
    <3>1. CASE l \in lefts /\ r \in rows
      BY <1>2, <2>1, <3>1 DEF Comes, Paired
    <3>2. CASE l \in lefts /\ r = NoRow
      BY <1>2, <2>1, <3>2 DEF Comes, LeftAlone
    <3>3. CASE l = Blank(i) /\ r \in rows
      BY <1>2, <2>1, <3>3 DEF Comes, RightAlone
    <3>4. CASE l = Blank(i) /\ r = NoRow
      BY <2>1, <3>4
    <3> QED BY <2>1, <3>1, <3>2, <3>3, <3>4
  <2>2. CASE Paired(st, i, lefts, rows, l, r)
    <3>1. l \in lefts /\ r \in rows /\ l # Blank(i) /\ r # NoRow /\ On(j, l, r)
      BY <1>2, <2>2 DEF Paired
    <3> QED BY <2>2, <3>1 DEF Comes
  <2>3. CASE LeftAlone(st, i, lefts, rows, l, r)
    <3>1. l \in lefts /\ r = NoRow /\ l # Blank(i) /\ j.how \in {"left", "full"}
      BY <1>2, <2>3 DEF LeftAlone
    <3>2. ~\E x \in rows : On(j, l, x)
      BY <2>3 DEF LeftAlone
    <3> QED BY <2>3, <3>1, <3>2 DEF Comes
  <2>4. CASE RightAlone(st, i, lefts, rows, l, r)
    <3>1. l = Blank(i) /\ r \in rows /\ r # NoRow /\ j.how \in {"right", "full"}
      BY <1>2, <2>4 DEF RightAlone
    <3>2. ~\E x \in lefts : On(j, x, r)
      BY <2>4 DEF RightAlone
    <3> QED BY <2>4, <3>1, <3>2 DEF Comes
  <2> QED BY <2>1, <2>2, <2>3, <2>4 DEF Comes
<1> HIDE DEF Keeps
<1>4. \A l, r : <<l, r>> \in pairs <=> Comes(st, i, lefts, rows, l, r)
  BY <1>3
<1>5. \A p \in pairs : p = <<p[1], p[2]>>
  OBVIOUS
<1> HIDE DEF pairs, L, R
<1>6. \A l, r : Comes(st, i, lefts, rows, l, r) => l \in Tuples(i) /\ r \in Cells
  BY <1>2 DEF Comes, Paired, LeftAlone, RightAlone
<1>7. ASSUME NEW t
      PROVE  t \in SqlJoin(st, i, lefts, rows) <=> t \in Joined(st, i, lefts, rows)
  <2>1. ASSUME t \in SqlJoin(st, i, lefts, rows) PROVE t \in Joined(st, i, lefts, rows)
    <3>1. PICK p \in pairs : t = Append(p[1], p[2])
      BY <1>1, <2>1
    <3>2. Comes(st, i, lefts, rows, p[1], p[2])
      BY <1>4, <1>5
    <3> DEFINE l == p[1]
               r == p[2]
    <3> HIDE DEF l, r
    <3>3. l \in Tuples(i) /\ r \in Cells /\ t = Append(l, r)
      BY <1>6, <3>1, <3>2 DEF l, r
    <3>4. t \in Tuples(i + 1) /\ Cut(t, i) = l /\ t[i + 1] = r
      BY <3>3, AppendIs
    <3> QED BY <3>2, <3>4, JoinedIs DEF l, r
  <2>2. ASSUME t \in Joined(st, i, lefts, rows) PROVE t \in SqlJoin(st, i, lefts, rows)
    <3>1. t \in Tuples(i + 1) /\ Comes(st, i, lefts, rows, Cut(t, i), t[i + 1])
      BY <2>2, JoinedIs
    <3>2. <<Cut(t, i), t[i + 1]>> \in pairs
      BY <1>4, <3>1
    <3>3. Append(<<Cut(t, i), t[i + 1]>>[1], <<Cut(t, i), t[i + 1]>>[2])
            \in {Append(p[1], p[2]) : p \in pairs}
      BY <3>2
    <3>4. t = Append(Cut(t, i), t[i + 1])
      BY <3>1, CutIs
    <3> QED BY <1>1, <3>3, <3>4
  <2> QED BY <2>1, <2>2
<1> QED BY <1>7

LEMMA SqlStagesAre ==
  ASSUME NEW st, StatementShape(st), NEW rowsOf, Table(st, rowsOf)
  PROVE  \A i \in 0..Len(st.joins) : SqlStages(st, rowsOf)[i] = Stages(st, rowsOf)[i]
<1> DEFINE n == Len(st.joins)
           f == Stages(st, rowsOf)
           body(g) == [i \in 0..n |-> IF i = 0 THEN {<<r>> : r \in rowsOf[1]}
                                      ELSE SqlJoin(st, i, g[i - 1], rowsOf[i + 1])]
           s == CHOOSE g : g = body(g)
<1>1. SqlStages(st, rowsOf) = s
  BY DEF SqlStages
<1>2. n \in Nat /\ Turns(f, st, rowsOf, n) /\ Frames(st) = 1..n + 1
  BY ShapeFacts, StagesAre DEF Frames
<1>3. \A i \in 1..n : SqlJoin(st, i, f[i - 1], rowsOf[i + 1]) = Joined(st, i, f[i - 1], rowsOf[i + 1])
  <2> SUFFICES ASSUME NEW i \in 1..n
               PROVE  SqlJoin(st, i, f[i - 1], rowsOf[i + 1]) = Joined(st, i, f[i - 1], rowsOf[i + 1])
    OBVIOUS
  <2>1. i \in Nat /\ i - 1 \in 0..n /\ (i - 1) + 1 = i /\ i + 1 \in Frames(st)
    BY <1>2
  <2>2. f[i - 1] \in SUBSET Tuples(i) /\ Blank(i) \notin f[i - 1]
    BY <2>1, StagesFit
  <2>3. rowsOf[i + 1] \in SUBSET Rows
    BY <2>1 DEF Table
  <2> HIDE DEF f
  <2> QED BY <2>1, <2>2, <2>3, SqlJoinIs
<1> HIDE DEF f, n
<1>4. f = body(f)
  <2>1. f = [i \in 0..n |-> f[i]]
    BY <1>2 DEF Turns
  <2>2. ASSUME NEW i \in 0..n PROVE f[i] = body(f)[i]
    <3>1. i = 0 \/ i \in 1..n
      BY <1>2
    <3> QED BY <1>2, <1>3, <3>1 DEF Turns, First
  <2>3. body(f) = [i \in 0..n |-> body(f)[i]]
    OBVIOUS
  <2> HIDE DEF body
  <2> QED BY <2>1, <2>2, <2>3
<1>5. s = body(s)
  <2> HIDE DEF body
  <2> QED BY <1>4
<1>6. s[0] = First(rowsOf) /\ \A i \in 1..n : s[i] = SqlJoin(st, i, s[i - 1], rowsOf[i + 1])
  <2>1. /\ body(s)[0] = First(rowsOf)
        /\ \A i \in 1..n : body(s)[i] = SqlJoin(st, i, s[i - 1], rowsOf[i + 1])
    <3> HIDE DEF s
    <3> QED BY <1>2 DEF First
  <2> HIDE DEF body, s
  <2> QED BY <1>5, <2>1
<1> HIDE DEF s, body
<1> DEFINE T == {m \in Nat : m \in 0..n => s[m] = f[m]}
<1>7. 0 \in T
  BY <1>2, <1>6 DEF Turns
<1>8. ASSUME NEW m \in Nat, m \in T PROVE m + 1 \in T
  <2> SUFFICES ASSUME m + 1 \in 0..n PROVE s[m + 1] = f[m + 1]
    OBVIOUS
  <2>1. m + 1 \in 1..n /\ m \in 0..n /\ (m + 1) - 1 = m
    BY <1>2
  <2>2. s[m] = f[m]
    BY <1>8, <2>1
  <2>3. s[m + 1] = SqlJoin(st, m + 1, f[m], rowsOf[(m + 1) + 1])
    BY <1>6, <2>1, <2>2
  <2>4. f[m + 1] = Joined(st, m + 1, f[m], rowsOf[(m + 1) + 1])
    BY <1>2, <2>1 DEF Turns
  <2> QED BY <1>3, <2>1, <2>3, <2>4
<1> HIDE DEF T
<1>9. Nat \subseteq T
  BY <1>7, <1>8, NatSetInduction
<1>10. \A i \in 0..n : i \in Nat
  BY <1>2
<1> QED BY <1>1, <1>9, <1>10 DEF T, n, f

-----------------------------------------------------------------------------
(* The order of the reads, and which of them restrict which.               *)

\* A sequence of X's that has every member of a finite set, and their number.
Lists(a, A, X) ==
  /\ A \in SUBSET X /\ IsFiniteSet(A)
  /\ a \in Seq(X) /\ Len(a) = Cardinality(A)
  /\ \A x \in A : \E k \in 1..Cardinality(A) : a[k] = x

LEMMA ConcatIs ==
  ASSUME NEW X, NEW A, NEW B, NEW a, NEW b, Lists(a, A, X), Lists(b, B, X), A \cap B = {}
  PROVE  Lists(a \o b, A \cup B, X)
<1> USE DEF Lists
<1>1. /\ IsFiniteSet(A \cup B) /\ Cardinality(A \cup B) = Cardinality(A) + Cardinality(B)
      /\ Cardinality(A) \in Nat /\ Cardinality(B) \in Nat
  <2>1. IsFiniteSet(A \cup B) /\ Cardinality(A \cup B) = Cardinality(A) + Cardinality(B) - Cardinality(A \cap B)
    BY FS_Union
  <2>2. Cardinality(A) \in Nat /\ Cardinality(B) \in Nat /\ Cardinality(A \cap B) = 0
    BY FS_EmptySet, FS_CardinalityType
  <2> QED BY <2>1, <2>2
<1>2. /\ a \o b \in Seq(X) /\ Len(a \o b) = Cardinality(A) + Cardinality(B)
      /\ \A k \in 1..Cardinality(A) + Cardinality(B) :
           (a \o b)[k] = IF k <= Cardinality(A) THEN a[k] ELSE b[k - Cardinality(A)]
  <2>1. /\ a \o b \in Seq(X) /\ Len(a \o b) = Len(a) + Len(b)
        /\ \A k \in 1..Len(a) + Len(b) : (a \o b)[k] = IF k <= Len(a) THEN a[k] ELSE b[k - Len(a)]
    BY ONLY a \in Seq(X), b \in Seq(X), ConcatProperties
  <2> QED BY <2>1
<1>3. ASSUME NEW x \in A PROVE \E k \in 1..Cardinality(A \cup B) : (a \o b)[k] = x
  <2>1. PICK k \in 1..Cardinality(A) : a[k] = x
    OBVIOUS
  <2>2. k \in 1..Cardinality(A) + Cardinality(B) /\ k <= Cardinality(A)
    BY <1>1
  <2> QED BY <1>1, <1>2, <2>1, <2>2
<1>4. ASSUME NEW x \in B PROVE \E k \in 1..Cardinality(A \cup B) : (a \o b)[k] = x
  <2>1. PICK k \in 1..Cardinality(B) : b[k] = x
    OBVIOUS
  <2> DEFINE m == k + Cardinality(A)
  <2>2. m \in 1..Cardinality(A) + Cardinality(B) /\ ~(m <= Cardinality(A)) /\ m - Cardinality(A) = k
    BY <1>1
  <2> HIDE DEF m
  <2> QED BY <1>1, <1>2, <2>1, <2>2
<1> QED BY <1>1, <1>2, <1>3, <1>4

OfRank(st, r) == {f \in Frames(st) : Rank(st, f) = r}

LEMMA RankedIs ==
  ASSUME NEW st, StatementShape(st), NEW r
  PROVE  Lists(Ranked(st, r), OfRank(st, r), Frames(st))
<1> DEFINE S == OfRank(st, r)
<1>1. Frames(st) \in SUBSET Nat /\ IsFiniteSet(Frames(st))
  <2>1. Len(st.joins) + 1 \in Int
    BY ShapeFacts
  <2> QED BY <2>1, FS_Interval DEF Frames
<1>2. Ranked(st, r) = InKeyOrder(S) /\ S \in SUBSET Frames(st)
  BY DEF Ranked, OfRank
<1> HIDE DEF S
<1>3. IsFiniteSet(S) /\ S \subseteq Nat
  BY <1>1, <1>2, FS_Subset
<1>4. /\ InKeyOrder(S) \in Seq(S) /\ Len(InKeyOrder(S)) = Cardinality(S)
      /\ \A x \in S : \E k \in 1..Cardinality(S) : InKeyOrder(S)[k] = x
  BY <1>3, InKeyOrderFacts
<1>5. InKeyOrder(S) \in Seq(Frames(st))
  BY <1>2, <1>4, SeqMonotonic
<1> QED BY <1>2, <1>3, <1>4, <1>5 DEF S, Lists

\* Every frame is read once.
LEMMA OrderIs ==
  ASSUME NEW st, StatementShape(st)
  PROVE  /\ \A i \in Frames(st) : OrderScans(st)[i] \in Frames(st)
         /\ \A f \in Frames(st) : \E i \in Frames(st) : OrderScans(st)[i] = f
         /\ \A i, j \in Frames(st) : OrderScans(st)[i] = OrderScans(st)[j] => i = j
<1> DEFINE F == Frames(st)
           N == Len(st.joins) + 1
           S(r) == OfRank(st, r)
           o == OrderScans(st)
<1>1. N \in Nat /\ F = 1..N /\ F \in SUBSET Nat /\ IsFiniteSet(F) /\ Cardinality(F) = N
  BY ShapeFacts, FS_Interval DEF Frames
<1>2. /\ S(0) \in SUBSET F /\ S(1) \in SUBSET F /\ S(2) \in SUBSET F
      /\ S(0) \cap S(1) = {} /\ (S(0) \cup S(1)) \cap S(2) = {}
      /\ (S(0) \cup S(1)) \cup S(2) = F
  BY DEF Rank, OfRank
<1>3. o = (Ranked(st, 0) \o Ranked(st, 1)) \o Ranked(st, 2)
  BY DEF OrderScans
<1>4. \A r : Lists(Ranked(st, r), S(r), F)
  BY RankedIs
<1> HIDE DEF F, N, S, o
<1>5. Lists(Ranked(st, 0) \o Ranked(st, 1), S(0) \cup S(1), F)
  BY <1>2, <1>4, ConcatIs
<1>6. Lists(o, F, F)
  BY <1>2, <1>3, <1>4, <1>5, ConcatIs
<1>7. o \in [F -> F] /\ \A x \in F : \E k \in F : o[k] = x
  BY <1>1, <1>6, LenProperties, ElementOfSeq DEF Lists
<1>8. o \in Injection(F, F)
  <2>1. o \in Surjection(F, F)
    BY <1>7 DEF Surjection
  <2> QED BY <1>1, <2>1, FS_Surjection
<1> QED BY <1>7, <1>8 DEF Injection, IsInjective, o, F

LEMMA ReadOnce ==
  ASSUME NEW st, StatementShape(st), NEW f, NEW g, ReadBefore(st, f, g)
  PROVE  f \in Frames(st) /\ g \in Frames(st) /\ ~ReadBefore(st, g, f)
<1>1. PICK i \in Frames(st), j \in Frames(st) : i < j /\ OrderScans(st)[i] = f /\ OrderScans(st)[j] = g
  BY DEF ReadBefore
<1>2. ASSUME NEW k \in Frames(st), NEW m \in Frames(st),
             k < m, OrderScans(st)[k] = g, OrderScans(st)[m] = f
      PROVE  FALSE
  <2>1. k = j /\ m = i
    BY <1>1, <1>2, OrderIs
  <2> QED BY <1>1, <1>2, <2>1, ShapeFacts DEF Frames
<1> QED BY <1>1, <1>2, OrderIs DEF ReadBefore

\* Join i may restrict the read of frame f by the keys of frame g.
Supports(st, i, f, g) ==
  LET j == st.joins[i] IN
  /\ j.on # 0
  /\ \/ j.how \in {"inner", "left"} /\ f = i + 1 /\ g = j.on
     \/ j.how \in {"inner", "right"} /\ f = j.on /\ g = i + 1

LEMMA KeySourceIs ==
  ASSUME NEW st, StatementShape(st), NEW f \in Frames(st)
  PROVE  \/ KeySource(st, f) = 0
         \/ /\ f # st.search /\ ReadBefore(st, KeySource(st, f), f)
            /\ KeySource(st, f) \in Frames(st) /\ KeySource(st, f) # 0
            /\ \E i \in 1..Len(st.joins) : Supports(st, i, f, KeySource(st, f))
<1> DEFINE able == {i \in DOMAIN st.joins : ReadBefore(st, Candidate(st, i, f), f)}
<1>1. KeySource(st, f) = IF able = {} \/ f = st.search THEN 0 ELSE Candidate(st, Min(able), f)
  BY DEF KeySource
<1> SUFFICES ASSUME able # {}, f # st.search
             PROVE  LET g == Candidate(st, Min(able), f) IN
                    /\ ReadBefore(st, g, f) /\ g \in Frames(st) /\ g # 0
                    /\ \E i \in 1..Len(st.joins) : Supports(st, i, f, g)
  BY <1>1
<1>2. able \subseteq Nat /\ able \subseteq 1..Len(st.joins)
  BY ShapeFacts
<1>3. Min(able) \in able
  <2> HIDE DEF able
  <2>1. \E x \in able : \A y \in able : x <= y
    BY <1>2, LeastNatural
  <2> QED BY <2>1 DEF Min
<1> DEFINE i == Min(able)
           g == Candidate(st, i, f)
<1>4. i \in 1..Len(st.joins) /\ ReadBefore(st, g, f)
  BY <1>2, <1>3
<1> HIDE DEF i, able
<1>5. g \in Frames(st) /\ g # 0
  BY <1>4, ReadOnce, ShapeFacts DEF Frames
<1>6. Supports(st, i, f, g)
  BY <1>5 DEF Supports, Candidate
<1> QED BY <1>4, <1>5, <1>6 DEF i

-----------------------------------------------------------------------------
(* What the narrowed reads join to.                                        *)

\* Frame f's read is narrowed by no more than its conjunct and its keys.
Between(st, fr, hd, f) ==
  /\ \A r \in fr[f] : r \in hd[f] /\ Passes(Pushed(st, f), r)
  /\ \A r \in hd[f] :
       /\ Passes(Pushed(st, f), r)
       /\ KeySource(st, f) = 0 \/ r.k \in KeysOf(fr[KeySource(st, f)])
       => r \in fr[f]

\* The restrictions of the first m frames by reads of later ones are met.
Pending(st, fr, t, m) ==
  \A f \in 1..m : KeySource(st, f) > m => t[f].k \in KeysOf(fr[KeySource(st, f)])
Passing(st, t, m) == \A f \in 1..m : Passes(Pushed(st, f), t[f])

\* After i joins, the two tables agree on what the later joins leave.
Agree(st, fr, hd, i) ==
  \A t \in Tuples(i + 1) :
    Pending(st, fr, t, i + 1) =>
      (t \in Stages(st, fr)[i] <=> t \in Stages(st, hd)[i] /\ Passing(st, t, i + 1))

LEMMA SourceFacts ==
  ASSUME NEW st, StatementShape(st)
  PROVE  /\ \A f \in Frames(st) : /\ KeySource(st, f) \in 0..Len(st.joins)+1
                                  /\ KeySource(st, f) # f
         /\ \A f, g \in Frames(st) : ~(KeySource(st, f) = g /\ KeySource(st, g) = f)
         /\ \A i \in 1..Len(st.joins) :
              /\ KeySource(st, i + 1) \in 1..i
                   => KeySource(st, i + 1) = st.joins[i].on /\ st.joins[i].how \in {"inner", "left"}
              /\ \A f \in 1..i : KeySource(st, f) = i + 1
                                   => f = st.joins[i].on /\ st.joins[i].how \in {"inner", "right"}
<1> DEFINE n == Len(st.joins)
<1>1. /\ n \in Nat /\ Frames(st) = 1..n + 1
      /\ \A h \in 1..n : st.joins[h].on \in 0..h /\ st.joins[h].on \in Nat
  BY ShapeFacts DEF Frames
<1>2. ASSUME NEW h \in 1..n, NEW f \in Nat, NEW g \in Nat, Supports(st, h, f, g)
      PROVE  \/ f = h + 1 /\ g = st.joins[h].on /\ g <= h /\ st.joins[h].how \in {"inner", "left"}
             \/ g = h + 1 /\ f = st.joins[h].on /\ f <= h /\ st.joins[h].how \in {"inner", "right"}
  <2>1. \/ f = h + 1 /\ g = st.joins[h].on /\ st.joins[h].how \in {"inner", "left"}
        \/ g = h + 1 /\ f = st.joins[h].on /\ st.joins[h].how \in {"inner", "right"}
    BY <1>2 DEF Supports
  <2>2. st.joins[h].on <= h
    BY <1>1
  <2> QED BY <2>1, <2>2
<1> HIDE DEF n
<1>3. ASSUME NEW f \in Frames(st)
      PROVE  \/ KeySource(st, f) = 0
             \/ /\ KeySource(st, f) \in Frames(st) /\ ReadBefore(st, KeySource(st, f), f)
                /\ \E h \in 1..n : Supports(st, h, f, KeySource(st, f))
  BY KeySourceIs DEF n
<1>4. ASSUME NEW f \in Frames(st) PROVE KeySource(st, f) \in 0..n+1 /\ KeySource(st, f) # f
  <2>1. CASE KeySource(st, f) = 0
    BY <1>1, <2>1
  <2>2. CASE KeySource(st, f) \in Frames(st) /\ \E h \in 1..n : Supports(st, h, f, KeySource(st, f))
    <3> DEFINE g == KeySource(st, f)
    <3>1. PICK h \in 1..n : Supports(st, h, f, g)
      BY <2>2
    <3>2. f \in Nat /\ g \in Nat /\ g \in 0..n+1
      BY <1>1, <2>2
    <3> HIDE DEF g
    <3>3. g # f
      BY <1>1, <1>2, <3>1, <3>2
    <3> QED BY <3>2, <3>3 DEF g
  <2> QED BY <1>3, <2>1, <2>2
<1>5. ASSUME NEW f \in Frames(st), NEW g \in Frames(st), KeySource(st, f) = g, KeySource(st, g) = f
      PROVE  FALSE
  <2>1. f # 0 /\ g # 0
    BY <1>1
  <2>2. ReadBefore(st, g, f) /\ ReadBefore(st, f, g)
    BY <1>3, <1>5, <2>1
  <2> QED BY <2>2, ReadOnce
<1>6. ASSUME NEW i \in 1..n, KeySource(st, i + 1) \in 1..i
      PROVE  KeySource(st, i + 1) = st.joins[i].on /\ st.joins[i].how \in {"inner", "left"}
  <2> DEFINE g == KeySource(st, i + 1)
  <2>1. i + 1 \in Frames(st) /\ g \in 1..i /\ i \in Nat /\ i + 1 \in Nat
    BY <1>1, <1>6
  <2>2. PICK h \in 1..n : Supports(st, h, i + 1, g)
    BY <1>3, <2>1
  <2> HIDE DEF g
  <2>3. g \in Nat /\ g <= i /\ h \in Nat
    BY <1>1, <2>1
  <2>4. \/ i + 1 = h + 1 /\ g = st.joins[h].on /\ st.joins[h].how \in {"inner", "left"}
        \/ g = h + 1 /\ i + 1 <= h
    BY <1>2, <2>1, <2>2, <2>3
  <2>5. h = i
    BY <2>1, <2>3, <2>4
  <2> QED BY <2>1, <2>3, <2>4, <2>5 DEF g
<1>7. ASSUME NEW i \in 1..n, NEW f \in 1..i, KeySource(st, f) = i + 1
      PROVE  f = st.joins[i].on /\ st.joins[i].how \in {"inner", "right"}
  <2>1. f \in Frames(st) /\ i \in Nat /\ i + 1 \in Nat /\ f \in Nat /\ f <= i
    BY <1>1
  <2>2. PICK h \in 1..n : Supports(st, h, f, i + 1)
    BY <1>3, <1>7, <2>1
  <2>3. h \in Nat
    BY <1>1
  <2>4. \/ f = h + 1 /\ i + 1 <= h
        \/ i + 1 = h + 1 /\ f = st.joins[h].on /\ st.joins[h].how \in {"inner", "right"}
    BY <1>2, <2>1, <2>2
  <2>5. h = i
    BY <2>1, <2>3, <2>4
  <2> QED BY <2>1, <2>4, <2>5
<1> QED BY <1>4, <1>5, <1>6, <1>7 DEF n

LEMMA PushedIs ==
  ASSUME NEW st, StatementShape(st)
  PROVE  /\ \A i \in 1..Len(st.joins) : \A f \in NullExtended(st, i) : Pushed(st, f) = "true"
         /\ \A f, r : Passes(st.where[f], r) <=> Passes(Pushed(st, f), r) /\ Passes(Residual(st, f), r)
         /\ \A r : Passes("true", r) = TRUE
<1>1. \A i \in 1..Len(st.joins) : \A f \in NullExtended(st, i) : f \in NullSupplying(st)
  BY ShapeFacts DEF NullSupplying
<1>2. \A r : Passes("true", r) = TRUE
  BY DEF Passes
<1> QED BY <1>1, <1>2 DEF Pushed, Residual

LEMMA KeysOfIs ==
  /\ \A rows, r : r \in rows /\ r.k # Null => r.k \in KeysOf(rows)
  /\ \A rows : Null \notin KeysOf(rows)
BY DEF KeysOf

\* The first frame.
LEMMA AgreeFirst ==
  ASSUME NEW st, StatementShape(st), NEW fr, Table(st, fr), NEW hd, Table(st, hd),
         Between(st, fr, hd, 1)
  PROVE  Agree(st, fr, hd, 0)
<1> SUFFICES ASSUME NEW t \in Tuples(1), Pending(st, fr, t, 1)
             PROVE  t \in Stages(st, fr)[0] <=> t \in Stages(st, hd)[0] /\ Passing(st, t, 1)
  BY DEF Agree
<1>1. Stages(st, fr)[0] = First(fr) /\ Stages(st, hd)[0] = First(hd)
  BY ShapeFacts, StagesAre DEF Turns
<1>2. t = <<t[1]>>
  BY DEF Tuples
<1>3. \A rowsOf : t \in First(rowsOf) <=> t[1] \in rowsOf[1]
  <2> SUFFICES ASSUME NEW rowsOf PROVE t \in First(rowsOf) <=> t[1] \in rowsOf[1]
    OBVIOUS
  <2>1. ASSUME t \in First(rowsOf) PROVE t[1] \in rowsOf[1]
    <3>1. PICK r \in rowsOf[1] : t = <<r>>
      BY <2>1 DEF First
    <3> QED BY <3>1
  <2>2. ASSUME t[1] \in rowsOf[1] PROVE t \in First(rowsOf)
    BY <1>2, <2>2 DEF First
  <2> QED BY <2>1, <2>2
<1>4. Passing(st, t, 1) <=> Passes(Pushed(st, 1), t[1])
  BY DEF Passing
<1>5. KeySource(st, 1) = 0 \/ t[1].k \in KeysOf(fr[KeySource(st, 1)])
  <2>1. 1 \in Frames(st) /\ Len(st.joins) \in Nat
    BY ShapeFacts DEF Frames
  <2>2. KeySource(st, 1) \in Nat /\ KeySource(st, 1) # 1
    BY <2>1, SourceFacts
  <2>3. KeySource(st, 1) = 0 \/ KeySource(st, 1) > 1
    BY <2>2
  <2> QED BY <2>3 DEF Pending
<1> QED BY <1>1, <1>3, <1>4, <1>5 DEF Between

\* One join.
LEMMA AgreeNext ==
  ASSUME NEW st, StatementShape(st), NEW fr, Table(st, fr), NEW hd, Table(st, hd),
         NEW i \in 1..Len(st.joins), Agree(st, fr, hd, i - 1), Between(st, fr, hd, i + 1)
  PROVE  Agree(st, fr, hd, i)
<1> DEFINE c == i + 1
           j == st.joins[i]
           S == Stages(st, fr)[i - 1]
           R == Stages(st, hd)[i - 1]
           ks(f) == KeySource(st, f)
<1>1. /\ i \in Nat /\ c \in Nat /\ c \in Frames(st) /\ 1..i \subseteq Frames(st)
      /\ i - 1 \in 0..Len(st.joins) /\ (i - 1) + 1 = i /\ i \in 0..Len(st.joins)
      /\ j.how \in Hows /\ j.on \in 0..i
  BY ShapeFacts DEF Frames
<1>2. fr[c] \in SUBSET Rows /\ hd[c] \in SUBSET Rows
  BY <1>1 DEF Table
<1>3. S \in SUBSET Tuples(i) /\ R \in SUBSET Tuples(i)
  BY <1>1, StagesFit
<1>4. ASSUME NEW t \in S, NEW f \in 1..i PROVE t[f] \in fr[f] \/ t[f] = NoRow
  <2> HIDE DEF c, j, ks
  <2>1. f \in 1..(i - 1) + 1
    BY <1>1
  <2> QED BY <1>1, <2>1, StagesFit
<1>5. /\ Stages(st, fr)[i] = Joined(st, i, S, fr[c]) /\ Stages(st, hd)[i] = Joined(st, i, R, hd[c])
  <2> HIDE DEF c, j, ks
  <2> QED BY ShapeFacts, StagesAre DEF Turns, c
<1>6. \A l, r : j.on # 0 /\ On(j, l, r) => r.k # Null /\ l[j.on].k = r.k
  BY DEF On
<1>7. /\ \A f \in 1..c : ks(f) \in 0..Len(st.joins)+1 /\ ks(f) # f
      /\ \A f \in 1..i : ks(f) = c => f = j.on /\ j.how \in {"inner", "right"}
      /\ ks(c) \in 1..i => ks(c) = j.on /\ j.how \in {"inner", "left"}
      /\ \A f \in 1..i : ~(ks(f) = c /\ ks(c) = f)
  <2>1. \A f \in 1..c : f \in Frames(st)
    BY <1>1
  <2> QED BY <1>1, <2>1, SourceFacts
<1>8. /\ j.how \in {"left", "full"} => Pushed(st, c) = "true"
      /\ j.how \in {"right", "full"} => \A f \in 1..i : Pushed(st, f) = "true"
  <2>1. \A f \in NullExtended(st, i) : Pushed(st, f) = "true"
    BY PushedIs
  <2>2. j.how \in {"left", "full"} => c \in NullExtended(st, i)
    BY <1>1 DEF NullExtended
  <2>3. j.how \in {"right", "full"} => 1..i \subseteq NullExtended(st, i)
    BY <1>1 DEF NullExtended
  <2> QED BY <2>1, <2>2, <2>3
<1>9. /\ \A r \in fr[c] : r \in hd[c] /\ Passes(Pushed(st, c), r)
      /\ \A r \in hd[c] : Passes(Pushed(st, c), r) /\ (ks(c) = 0 \/ r.k \in KeysOf(fr[ks(c)]))
                            => r \in fr[c]
  BY DEF Between
<1>10. \A t \in Tuples(i) : Pending(st, fr, t, i) => (t \in S <=> t \in R /\ Passing(st, t, i))
  BY <1>1 DEF Agree
<1>11. ASSUME NEW t \in Tuples(c), NEW l \in Tuples(i), \A f \in 1..i : l[f] = t[f]
       PROVE  Passing(st, t, c) <=> Passing(st, l, i) /\ Passes(Pushed(st, c), t[c])
  <2>1. \A f \in 1..c : f \in 1..i \/ f = c
    BY <1>1
  <2>2. c \in 1..c /\ \A f \in 1..i : f \in 1..c
    BY <1>1
  <2> QED BY <1>11, <2>1, <2>2 DEF Passing
<1>12. \A f \in 1..i : ks(f) > i => ks(f) = c \/ ks(f) > c
  <2>1. \A f \in 1..i : ks(f) \in Nat
    BY <1>1, <1>7
  <2> QED BY <1>1, <2>1
<1>13. ks(c) = 0 \/ ks(c) \in 1..i \/ ks(c) > c
  <2>1. ks(c) \in Nat /\ ks(c) # c
    BY <1>1, <1>7
  <2> QED BY <1>1, <2>1
<1> SUFFICES ASSUME NEW t \in Tuples(c), Pending(st, fr, t, c)
             PROVE  t \in Stages(st, fr)[i] <=> t \in Stages(st, hd)[i] /\ Passing(st, t, c)
  BY DEF Agree
<1> DEFINE l == Cut(t, i)
           r == t[c]
<1>14. l \in Tuples(i) /\ r \in Cells /\ \A f \in 1..i : l[f] = t[f]
  BY <1>1, CutIs
<1>15. /\ t \in Stages(st, fr)[i] <=> Comes(st, i, S, fr[c], l, r)
       /\ t \in Stages(st, hd)[i] <=> Comes(st, i, R, hd[c], l, r)
  <2> HIDE DEF S, R
  <2> QED BY <1>1, <1>2, <1>3, <1>5, JoinedIs
<1> HIDE DEF l, r, S, R, ks
<1>16. /\ \A f \in 1..i : ks(f) > c => l[f].k \in KeysOf(fr[ks(f)])
       /\ ks(c) > c => r.k \in KeysOf(fr[ks(c)])
  <2>1. \A f \in 1..i : f \in 1..c
    BY <1>1
  <2>2. c \in 1..c
    BY <1>1
  <2>3. \A f \in 1..c : ks(f) > c => t[f].k \in KeysOf(fr[ks(f)])
    BY DEF Pending, ks
  <2> HIDE DEF c
  <2> QED BY <1>14, <2>1, <2>2, <2>3 DEF r
<1> HIDE DEF c, j
\* A joined row of the first i frames meets what is pending of them when none
\* is restricted by frame c, or the row it is paired with was read.
<1>17. ASSUME NEW u \in Tuples(i), \A f \in 1..i : ks(f) > c => u[f].k \in KeysOf(fr[ks(f)]),
              \A f \in 1..i : ks(f) = c => u[f].k \in KeysOf(fr[c])
       PROVE  u \in S <=> u \in R /\ Passing(st, u, i)
  <2>1. Pending(st, fr, u, i)
    BY <1>12, <1>17 DEF Pending, ks
  <2> QED BY <1>10, <2>1
<1>18. ASSUME NEW u \in Tuples(i), NEW x \in fr[c], On(j, u, x), NEW f \in 1..i, ks(f) = c
       PROVE  u[f].k \in KeysOf(fr[c])
  <2>1. f = j.on /\ j.on # 0
    BY <1>1, <1>7, <1>18
  <2>2. x.k # Null /\ u[f].k = x.k
    BY <1>6, <1>18, <2>1
  <2> QED BY <2>2, KeysOfIs
\* A row of frame c that a row read is paired with was read.
<1>19. ASSUME NEW u \in S, NEW x \in hd[c], On(j, u, x), Passes(Pushed(st, c), x),
              ks(c) > c => x.k \in KeysOf(fr[ks(c)])
       PROVE  x \in fr[c]
  <2>1. CASE ks(c) \in 1..i
    <3>1. ks(c) = j.on /\ j.on # 0 /\ j.on \in 1..i
      BY <1>1, <1>7, <2>1
    <3>2. x.k # Null /\ u[j.on].k = x.k
      BY <1>6, <1>19, <3>1
    <3>3. u[j.on] \in fr[j.on]
      BY <1>4, <3>1, <3>2, RowFacts DEF S
    <3>4. x.k \in KeysOf(fr[ks(c)])
      BY <3>1, <3>2, <3>3, KeysOfIs
    <3> QED BY <1>9, <1>19, <3>4
  <2>2. CASE ks(c) = 0 \/ ks(c) > c
    BY <1>9, <1>19, <2>2
  <2> QED BY <1>13, <2>1, <2>2
<1>20. Paired(st, i, S, fr[c], l, r)
         <=> Paired(st, i, R, hd[c], l, r) /\ Passing(st, l, i) /\ Passes(Pushed(st, c), r)
  <2>1. ASSUME Paired(st, i, S, fr[c], l, r)
        PROVE  Paired(st, i, R, hd[c], l, r) /\ Passing(st, l, i) /\ Passes(Pushed(st, c), r)
    <3>1. l \in S /\ r \in fr[c] /\ On(j, l, r)
      BY <2>1 DEF Paired, j
    <3>2. \A f \in 1..i : ks(f) = c => l[f].k \in KeysOf(fr[c])
      BY <1>14, <1>18, <3>1
    <3>3. l \in R /\ Passing(st, l, i)
      BY <1>14, <1>16, <1>17, <3>1, <3>2
    <3> QED BY <1>9, <3>1, <3>3 DEF Paired, j
  <2>2. ASSUME Paired(st, i, R, hd[c], l, r), Passing(st, l, i), Passes(Pushed(st, c), r)
        PROVE  Paired(st, i, S, fr[c], l, r)
    <3>1. l \in R /\ r \in hd[c] /\ On(j, l, r)
      BY <2>2 DEF Paired, j
    <3>2. CASE ks(c) \in 1..i
      <4>1. \A f \in 1..i : ks(f) # c
        BY <1>7, <3>2
      <4>2. l \in S
        BY <1>14, <1>16, <1>17, <2>2, <3>1, <4>1
      <4>3. r \in fr[c]
        BY <1>16, <1>19, <2>2, <3>1, <4>2
      <4> QED BY <3>1, <4>2, <4>3 DEF Paired, j
    <3>3. CASE ks(c) = 0 \/ ks(c) > c
      <4>1. r \in fr[c]
        BY <1>9, <1>16, <2>2, <3>1, <3>3
      <4>2. \A f \in 1..i : ks(f) = c => l[f].k \in KeysOf(fr[c])
        BY <1>14, <1>18, <3>1, <4>1
      <4>3. l \in S
        BY <1>14, <1>16, <1>17, <2>2, <3>1, <4>2
      <4> QED BY <3>1, <4>1, <4>3 DEF Paired, j
    <3> QED BY <1>13, <3>2, <3>3
  <2> QED BY <2>1, <2>2
<1>21. LeftAlone(st, i, S, fr[c], l, r)
         <=> LeftAlone(st, i, R, hd[c], l, r) /\ Passing(st, l, i) /\ Passes(Pushed(st, c), r)
  <2> SUFFICES ASSUME r = NoRow, j.how \in {"left", "full"}
               PROVE  LeftAlone(st, i, S, fr[c], l, r)
                        <=> LeftAlone(st, i, R, hd[c], l, r) /\ Passing(st, l, i) /\ Passes(Pushed(st, c), r)
    BY DEF LeftAlone, j
  <2>1. Pushed(st, c) = "true" /\ \A x : Passes(Pushed(st, c), x) = TRUE
    BY <1>8, PushedIs
  <2>2. ~(ks(c) > c)
    BY <1>16, RowFacts, KeysOfIs
  <2>3. \A f \in 1..i : ks(f) # c
    BY <1>7
  <2>4. l \in S <=> l \in R /\ Passing(st, l, i)
    BY <1>14, <1>16, <1>17, <2>3
  <2>5. l \in S => ((\A x \in fr[c] : ~On(j, l, x)) <=> (\A x \in hd[c] : ~On(j, l, x)))
    BY <1>9, <1>19, <2>1, <2>2
  <2> QED BY <2>1, <2>4, <2>5 DEF LeftAlone, j
<1>22. RightAlone(st, i, S, fr[c], l, r)
         <=> RightAlone(st, i, R, hd[c], l, r) /\ Passing(st, l, i) /\ Passes(Pushed(st, c), r)
  <2> SUFFICES ASSUME l = Blank(i), j.how \in {"right", "full"}
               PROVE  RightAlone(st, i, S, fr[c], l, r)
                        <=> RightAlone(st, i, R, hd[c], l, r) /\ Passing(st, l, i) /\ Passes(Pushed(st, c), r)
    BY DEF RightAlone, j
  <2>1. \A u : Passing(st, u, i)
    BY <1>8, PushedIs DEF Passing
  <2>2. \A f \in 1..i : ~(ks(f) > c)
    <3>1. \A f \in 1..i : l[f].k = Null
      BY RowFacts DEF Blank
    <3> QED BY <1>16, <3>1, KeysOfIs
  <2>3. ~(ks(c) \in 1..i)
    BY <1>7
  <2>4. r \in fr[c] <=> r \in hd[c] /\ Passes(Pushed(st, c), r)
    BY <1>9, <1>13, <1>16, <2>3
  <2>5. ASSUME NEW u \in Tuples(i), r \in fr[c], On(j, u, r) PROVE u \in S <=> u \in R
    <3>1. \A f \in 1..i : ks(f) = c => u[f].k \in KeysOf(fr[c])
      BY <1>18, <2>5
    <3>2. \A f \in 1..i : ks(f) > c => u[f].k \in KeysOf(fr[ks(f)])
      BY <2>2
    <3>3. u \in S <=> u \in R /\ Passing(st, u, i)
      BY <1>17, <3>1, <3>2
    <3> QED BY <2>1, <3>3
  <2>6. r \in fr[c] => ((\A u \in S : ~On(j, u, r)) <=> (\A u \in R : ~On(j, u, r)))
    BY <1>3, <2>5 DEF S, R
  <2> QED BY <2>1, <2>4, <2>6 DEF RightAlone, j
<1>23. Passing(st, t, c) <=> Passing(st, l, i) /\ Passes(Pushed(st, c), r)
  BY <1>11, <1>14 DEF r
<1> QED BY <1>15, <1>20, <1>21, <1>22, <1>23 DEF Comes

LEMMA AgreeAlways ==
  ASSUME NEW st, StatementShape(st), NEW fr, Table(st, fr), NEW hd, Table(st, hd),
         \A f \in Frames(st) : Between(st, fr, hd, f)
  PROVE  \A i \in 0..Len(st.joins) : Agree(st, fr, hd, i)
<1> DEFINE n == Len(st.joins)
           T == {m \in Nat : m \in 0..n => Agree(st, fr, hd, m)}
<1>1. n \in Nat /\ Frames(st) = 1..n + 1
  BY ShapeFacts DEF Frames
<1>2. 0 \in T
  <2>1. 1 \in Frames(st)
    BY <1>1
  <2>2. Agree(st, fr, hd, 0)
    BY <2>1, AgreeFirst
  <2> QED BY <2>2
<1>3. ASSUME NEW m \in Nat, m \in T PROVE m + 1 \in T
  <2> SUFFICES ASSUME m + 1 \in 0..n PROVE Agree(st, fr, hd, m + 1)
    OBVIOUS
  <2>1. m + 1 \in 1..n /\ (m + 1) - 1 = m /\ m \in 0..n /\ (m + 1) + 1 \in Frames(st)
    BY <1>1
  <2>2. Agree(st, fr, hd, (m + 1) - 1)
    BY <1>3, <2>1
  <2> HIDE DEF T
  <2> QED BY <2>1, <2>2, AgreeNext
<1> HIDE DEF T
<1>4. Nat \subseteq T
  BY <1>2, <1>3, NatSetInduction
<1>5. \A i \in 0..n : i \in Nat
  BY <1>1
<1> QED BY <1>4, <1>5 DEF T

\* What a plan answers is what SQL answers.
LEMMA Transparent ==
  ASSUME NEW st, StatementShape(st), NEW fr, Table(st, fr), NEW hd, Table(st, hd),
         \A f \in Frames(st) : Between(st, fr, hd, f)
  PROVE  Evaluated(st, fr) = Answer(st, hd)
<1> DEFINE n == Len(st.joins)
           S == Stages(st, fr)[n]
           R == Stages(st, hd)[n]
<1>1. n \in Nat /\ n \in 0..n /\ Frames(st) = 1..n + 1
  BY ShapeFacts DEF Frames
<1>2. S \in SUBSET Tuples(n + 1) /\ R \in SUBSET Tuples(n + 1)
  BY <1>1, StagesFit
<1>3. Agree(st, fr, hd, n)
  BY <1>1, AgreeAlways
<1>4. ASSUME NEW t \in Tuples(n + 1) PROVE t \in S <=> t \in R /\ Passing(st, t, n + 1)
  <2>1. \A f \in Frames(st) : KeySource(st, f) \in 0..n + 1
    BY SourceFacts
  <2>2. Pending(st, fr, t, n + 1)
    BY <1>1, <2>1 DEF Pending
  <2> QED BY <1>3, <2>2 DEF Agree
<1>5. SqlStages(st, hd)[n] = R
  BY <1>1, SqlStagesAre
<1>6. \A t : (\A f \in Frames(st) : Passes(st.where[f], t[f]))
               <=> Passing(st, t, n + 1) /\ \A f \in Frames(st) : Passes(Residual(st, f), t[f])
  BY <1>1, PushedIs DEF Passing
<1>7. \A t : t \in Evaluated(st, fr) <=> t \in S /\ \A f \in Frames(st) : Passes(Residual(st, f), t[f])
  BY DEF Evaluated
<1>8. \A t : t \in Answer(st, hd) <=> t \in R /\ \A f \in Frames(st) : Passes(st.where[f], t[f])
  BY <1>5 DEF Answer
<1> HIDE DEF S, R, n
<1>9. \A t : t \in Evaluated(st, fr) <=> t \in Answer(st, hd)
  BY <1>2, <1>4, <1>6, <1>7, <1>8
<1> QED BY <1>9 DEF Evaluated, Answer

-----------------------------------------------------------------------------
(* The reads, one by one.                                                  *)

Phase ==
  /\ stmt \in Statements
  /\ pc \in {"scan", "done", "raised", "failed"}
  /\ index \in 0..Len(stmt.joins)+1
  /\ pc = "scan" => index < Len(stmt.joins) + 1
  /\ pc \in {"done", "raised"} => index = Len(stmt.joins) + 1

Finite(fr) == \A f \in Frames(stmt) : IsFiniteSet(fr[f])
Tables ==
  /\ frames \in [Frames(stmt) -> SUBSET Rows] /\ held \in [Frames(stmt) -> SUBSET Rows]
  /\ Finite(frames) /\ Finite(held)

\* Every frame read so far was narrowed by its conjunct and its keys alone.
Narrowing == \A i \in 1..index : Between(stmt, frames, held, OrderScans(stmt)[i])

\* The chain has evaluated what it read.
Ending ==
  /\ result = IF pc = "done" THEN Evaluated(stmt, frames) ELSE {}
  /\ pc = "raised" => Refused(stmt, frames)

IInv == Phase /\ Tables /\ Narrowing /\ Ending

LEMMA Shaped == Phase => StatementShape(stmt) /\ Len(stmt.joins) \in Nat
BY StatementsAssumption, ShapeFacts DEF Phase

LEMMA InitIInv == Init => IInv
<1> SUFFICES ASSUME Init PROVE IInv
  OBVIOUS
<1> USE DEF Init
<1>1. Phase
  BY StatementsAssumption, ShapeFacts DEF Phase
<1>2. Tables
  <2>1. \A f \in Frames(stmt) : frames[f] = {} /\ held[f] = {}
    OBVIOUS
  <2> QED BY <2>1, FS_EmptySet DEF Tables, Finite
<1> QED BY <1>1, <1>2 DEF IInv, Narrowing, Ending

LEMMA NarrowedIs ==
  ASSUME NEW rows, NEW f
  PROVE  /\ Narrowed(rows, f) \in SUBSET rows
         /\ \A r \in rows : \/ KeySource(stmt, f) = 0
                            \/ r.k \in KeysOf(frames[KeySource(stmt, f)])
              => r \in Narrowed(rows, f)
BY DEF Narrowed

LEMMA IInvScan == IInv /\ Scan => IInv'
<1> SUFFICES ASSUME IInv, Scan PROVE IInv'
  OBVIOUS
<1> DEFINE f == OrderScans(stmt)[index + 1]
           n == Len(stmt.joins)
           ks(g) == KeySource(stmt, g)
<1>1. /\ pc = "scan" /\ index' = index + 1 /\ UNCHANGED stmt
      /\ IF index + 1 < n + 1
         THEN UNCHANGED <<pc, result>>
         ELSE IF Refused(stmt, frames')
         THEN pc' = "raised" /\ UNCHANGED result
         ELSE pc' = "done" /\ result' = Evaluated(stmt, frames')
  BY DEF Scan
<1>2. /\ StatementShape(stmt) /\ n \in Nat /\ index \in Nat /\ index < n + 1 /\ Frames(stmt) = 1..n + 1
      /\ index + 1 \in Frames(stmt) /\ stmt \in Statements /\ 1..index \subseteq Frames(stmt)
  BY <1>1, Shaped DEF IInv, Phase, Frames
<1>3. f \in Frames(stmt)
  BY <1>2, OrderIs
<1>4. PICK rows \in Contents(stmt, f) :
        LET passing == {r \in rows : Passes(Pushed(stmt, f), r)} IN
        IF f = stmt.search
        THEN \E hits \in Hits(passing) :
               /\ frames' = [frames EXCEPT ![f] = hits]
               /\ held' = [held EXCEPT ![f] = hits]
        ELSE /\ frames' = [frames EXCEPT ![f] = Narrowed(passing, f)]
             /\ held' = [held EXCEPT ![f] = rows]
  BY DEF Scan
<1> HIDE DEF f
<1>5. rows \in SUBSET Rows /\ IsFiniteSet(rows)
  BY <1>2, <1>3, <1>4, ContentsAssumption DEF Frames
<1> DEFINE passing == {r \in rows : Passes(Pushed(stmt, f), r)}
\* What is read of f, and what it had.
<1>6. PICK got \in SUBSET passing, had \in SUBSET rows :
        /\ frames' = [frames EXCEPT ![f] = got] /\ held' = [held EXCEPT ![f] = had]
        /\ got \subseteq had
        /\ \A r \in had : Passes(Pushed(stmt, f), r)
                          /\ (ks(f) = 0 \/ r.k \in KeysOf(frames[ks(f)])) => r \in got
  <2>1. CASE f = stmt.search
    <3>1. PICK hits \in Hits(passing) : frames' = [frames EXCEPT ![f] = hits] /\ held' = [held EXCEPT ![f] = hits]
      BY <1>4, <2>1
    <3>2. hits \in SUBSET passing /\ hits \in SUBSET rows
      BY <3>1 DEF Hits
    <3> HIDE DEF passing, ks
    <3> QED BY <3>1, <3>2
  <2>2. CASE f # stmt.search
    <3>1. frames' = [frames EXCEPT ![f] = Narrowed(passing, f)] /\ held' = [held EXCEPT ![f] = rows]
      BY <1>4, <2>2
    <3>2. passing \in SUBSET rows /\ \A r \in rows : Passes(Pushed(stmt, f), r) => r \in passing
      OBVIOUS
    <3> HIDE DEF passing
    <3>3. /\ Narrowed(passing, f) \in SUBSET passing
          /\ \A r \in passing : ks(f) = 0 \/ r.k \in KeysOf(frames[ks(f)]) => r \in Narrowed(passing, f)
      BY NarrowedIs
    <3> QED BY <3>1, <3>2, <3>3
  <2> QED BY <2>1, <2>2
<1>7. /\ frames' \in [Frames(stmt) -> SUBSET Rows] /\ held' \in [Frames(stmt) -> SUBSET Rows]
      /\ frames'[f] = got /\ held'[f] = had
      /\ \A g \in Frames(stmt) : g # f => frames'[g] = frames[g] /\ held'[g] = held[g]
      /\ \A r \in got : Passes(Pushed(stmt, f), r)
      /\ IsFiniteSet(got) /\ IsFiniteSet(had)
  <2>1. got \in SUBSET rows /\ \A r \in got : Passes(Pushed(stmt, f), r)
    OBVIOUS
  <2>2. got \in SUBSET Rows /\ had \in SUBSET Rows /\ IsFiniteSet(got) /\ IsFiniteSet(had)
    BY <1>5, <2>1, FS_Subset
  <2>3. frames \in [Frames(stmt) -> SUBSET Rows] /\ held \in [Frames(stmt) -> SUBSET Rows]
    BY DEF IInv, Tables
  <2> HIDE DEF passing
  <2> QED BY <1>3, <1>6, <2>1, <2>2, <2>3
<1>8. Phase'
  <2>1. pc' \in {"scan", "done", "raised", "failed"} /\ index' \in 0..n+1
        /\ (pc' = "scan" => index' < n + 1) /\ (pc' \in {"done", "raised"} => index' = n + 1)
    BY <1>1, <1>2
  <2> QED BY <1>1, <1>2, <2>1 DEF Phase
<1>9. Tables'
  <2>1. \A g \in Frames(stmt) : IsFiniteSet(frames'[g]) /\ IsFiniteSet(held'[g])
    BY <1>7 DEF IInv, Tables, Finite
  <2> QED BY <1>1, <1>7, <2>1 DEF Tables, Finite
<1>10. Narrowing'
  <2> SUFFICES ASSUME NEW i \in 1..index + 1
               PROVE  Between(stmt, frames', held', OrderScans(stmt)[i])
    BY <1>1 DEF Narrowing
  <2> DEFINE g == OrderScans(stmt)[i]
  <2>1. i \in Frames(stmt) /\ g \in Frames(stmt)
    BY <1>2, OrderIs
  <2>2. ks(g) = 0 \/ (ks(g) \in Frames(stmt) /\ ks(g) # f)
    <3> SUFFICES ASSUME ks(g) # 0 PROVE ks(g) \in Frames(stmt) /\ ks(g) # f
      OBVIOUS
    <3>1. ReadBefore(stmt, ks(g), g) /\ ks(g) \in Frames(stmt)
      BY <1>2, <2>1, KeySourceIs
    <3>2. PICK k \in Frames(stmt), m \in Frames(stmt) :
            k < m /\ OrderScans(stmt)[k] = ks(g) /\ OrderScans(stmt)[m] = g
      BY <3>1 DEF ReadBefore
    <3>3. m = i
      BY <1>2, <2>1, <3>2, OrderIs
    <3>4. k # index + 1
      BY <1>2, <3>2, <3>3
    <3> QED BY <1>2, <3>1, <3>2, <3>4, OrderIs DEF f
  <2>3. CASE i = index + 1
    <3>1. g = f
      BY <2>3 DEF f
    <3> HIDE DEF g, ks
    <3>2. ks(f) # 0 => frames'[ks(f)] = frames[ks(f)]
      BY <1>7, <2>2, <3>1
    <3>3. Between(stmt, frames', held', f)
      BY <1>6, <1>7, <3>2 DEF Between, ks
    <3> QED BY <3>1, <3>3 DEF g
  <2>4. CASE i # index + 1
    <3>1. i \in 1..index
      BY <1>2, <2>4
    <3>2. Between(stmt, frames, held, g)
      BY <3>1 DEF IInv, Narrowing
    <3>3. g # f
      BY <1>2, <2>1, <2>4, OrderIs DEF f
    <3> HIDE DEF g, ks
    <3>4. frames'[g] = frames[g] /\ held'[g] = held[g] /\ (ks(g) # 0 => frames'[ks(g)] = frames[ks(g)])
      BY <1>7, <2>1, <2>2, <3>3
    <3>5. Between(stmt, frames', held', g)
      BY <3>2, <3>4 DEF Between, ks
    <3> QED BY <3>5 DEF g
  <2> QED BY <2>3, <2>4
<1>11. Ending'
  <2>1. result = {}
    BY <1>1 DEF IInv, Ending
  <2> QED BY <1>1, <2>1 DEF Ending
<1> QED BY <1>8, <1>9, <1>10, <1>11 DEF IInv

LEMMA IInvNext == IInv /\ [Next]_vars => IInv'
<1> SUFFICES ASSUME IInv, [Next]_vars PROVE IInv'
  OBVIOUS
<1>1. CASE Scan
  BY <1>1, IInvScan
<1>2. CASE RpcFails
  <2>1. /\ pc = "scan" /\ pc' = "failed" /\ UNCHANGED <<stmt, index, frames, result, held>>
    BY <1>2 DEF RpcFails
  <2>2. Phase'
    BY <2>1 DEF IInv, Phase
  <2>3. Tables' /\ Narrowing'
    BY <2>1 DEF IInv, Tables, Finite, Narrowing
  <2>4. Ending'
    BY <2>1 DEF IInv, Ending
  <2> QED BY <2>2, <2>3, <2>4 DEF IInv
<1>3. CASE UNCHANGED vars
  BY <1>3 DEF vars, IInv, Phase, Tables, Finite, Narrowing, Ending
<1> QED BY <1>1, <1>2, <1>3 DEF Next

THEOREM IInvAlways == Spec => []IInv
<1>1. Init => IInv
  BY InitIInv
<1>2. IInv /\ [Next]_vars => IInv'
  BY IInvNext
<1> QED BY <1>1, <1>2, PTL DEF Spec

\* When the last read is in, every frame's was narrowed like that.
LEMMA AllNarrowed ==
  ASSUME IInv, pc \in {"done", "raised"}
  PROVE  /\ StatementShape(stmt) /\ Table(stmt, frames) /\ Table(stmt, held)
         /\ \A f \in Frames(stmt) : Between(stmt, frames, held, f)
<1>1. StatementShape(stmt) /\ index = Len(stmt.joins) + 1
  BY Shaped DEF IInv, Phase
<1>2. Table(stmt, frames) /\ Table(stmt, held)
  BY DEF IInv, Tables, Table
<1>3. \A f \in Frames(stmt) : Between(stmt, frames, held, f)
  BY <1>1, OrderIs DEF IInv, Narrowing, Frames
<1> QED BY <1>1, <1>2, <1>3

\* The state is well typed: the joined rows have one row, read or invented,
\* for every frame of FROM.
THEOREM TypeCorrect == Spec => []TypeOK
<1>1. IInv => TypeOK
  <2> SUFFICES ASSUME IInv PROVE TypeOK
    OBVIOUS
  <2>1. ASSUME NEW t \in result PROVE t \in [Frames(stmt) -> Rows \cup {NoRow}]
    <3>1. pc = "done" /\ t \in Evaluated(stmt, frames)
      BY <2>1 DEF IInv, Ending
    <3>2. StatementShape(stmt) /\ Table(stmt, frames) /\ Len(stmt.joins) \in 0..Len(stmt.joins)
      BY <3>1, AllNarrowed, ShapeFacts
    <3>3. t \in Stages(stmt, frames)[Len(stmt.joins)]
      BY <3>1 DEF Evaluated
    <3>4. t \in Tuples(Len(stmt.joins) + 1)
      BY <3>2, <3>3, StagesFit
    <3> QED BY <3>4 DEF Tuples, Cells, Frames
  <2> QED BY <2>1, Shaped DEF TypeOK, IInv, Phase, Tables
<1> QED BY <1>1, IInvAlways, PTL

\* Pushing WHERE conjuncts and join keys into the reads changes no joined
\* row, whatever the statement, what writers do between the reads, and the
\* bounds: the answer is SQL's over what each collection held when it was read.
THEOREM PlansAreTransparent == Spec => []PlanIsTransparent
<1>1. IInv => PlanIsTransparent
  <2> SUFFICES ASSUME IInv, pc = "done" PROVE result = Answer(stmt, held)
    BY DEF PlanIsTransparent
  <2>1. result = Evaluated(stmt, frames)
    BY DEF IInv, Ending
  <2>2. Evaluated(stmt, frames) = Answer(stmt, held)
    BY AllNarrowed, Transparent
  <2> QED BY <2>1, <2>2
<1> QED BY <1>1, IInvAlways, PTL

-----------------------------------------------------------------------------
(* The size of what is joined.  Every joined row of the narrowed reads has *)
(* one of its own among those of the collections that it is a part of.     *)

LEMMA StagesFinite ==
  ASSUME NEW st, StatementShape(st), NEW hd, Table(st, hd), \A f \in Frames(st) : IsFiniteSet(hd[f])
  PROVE  \A i \in 0..Len(st.joins) : IsFiniteSet(Stages(st, hd)[i])
<1> DEFINE n == Len(st.joins)
           s == Stages(st, hd)
           T == {m \in Nat : m \in 0..n => IsFiniteSet(s[m])}
<1>1. n \in Nat /\ Frames(st) = 1..n + 1 /\ 1 \in Frames(st)
  BY ShapeFacts DEF Frames
<1>2. s[0] = First(hd) /\ \A m \in 1..n : s[m] = Joined(st, m, s[m - 1], hd[m + 1])
  BY <1>1, StagesAre DEF Turns
<1>3. 0 \in T
  <2> DEFINE g == [t \in s[0] |-> t[1]]
  <2>1. g \in Injection(s[0], hd[1])
    <3>1. \A t \in s[0] : t[1] \in hd[1] /\ t = <<t[1]>>
      BY <1>2 DEF First
    <3>2. g \in [s[0] -> hd[1]] /\ \A t, u \in s[0] : g[t] = g[u] => t = u
      BY <3>1
    <3> HIDE DEF g
    <3> QED BY <3>2 DEF Injection, IsInjective
  <2> HIDE DEF g, s
  <2>2. IsFiniteSet(s[0])
    BY <1>1, <2>1, FS_Injection
  <2> QED BY <2>2
<1>4. ASSUME NEW m \in Nat, m \in T PROVE m + 1 \in T
  <2> SUFFICES ASSUME m + 1 \in 0..n PROVE IsFiniteSet(s[m + 1])
    OBVIOUS
  <2> DEFINE i == m + 1
             L == s[m] \cup {Blank(i)}
             R == hd[i + 1] \cup {NoRow}
             g == [t \in s[i] |-> <<Cut(t, i), t[i + 1]>>]
  <2>1. i \in 1..n /\ i - 1 = m /\ m \in 0..n /\ i \in Nat /\ i + 1 \in Frames(st)
    BY <1>1
  <2>2. IsFiniteSet(s[m]) /\ IsFiniteSet(hd[i + 1])
    BY <1>4, <2>1
  <2>3. IsFiniteSet(L \X R)
    <3>1. IsFiniteSet(L) /\ IsFiniteSet(R)
      BY <2>2, FS_AddElement
    <3> HIDE DEF L, R
    <3> QED BY <3>1, FS_Product
  <2>4. s[i] = Joined(st, i, s[m], hd[i + 1])
    BY <1>2, <2>1
  <2>5. s[m] \in SUBSET Tuples(i) /\ hd[i + 1] \in SUBSET Rows
    <3>1. s[m] \in SUBSET Tuples(m + 1)
      BY <2>1, StagesFit
    <3> QED BY <2>1, <3>1 DEF Table
  <2> HIDE DEF i, s
  <2>6. \A t \in s[i] : t \in Tuples(i + 1) /\ Cut(t, i) \in L /\ t[i + 1] \in R
    <3>1. \A t \in s[i] : t \in Tuples(i + 1) /\ Comes(st, i, s[m], hd[i + 1], Cut(t, i), t[i + 1])
      BY <2>1, <2>4, <2>5, JoinedIs
    <3> QED BY <3>1 DEF Comes, Paired, LeftAlone, RightAlone
  <2>7. g \in Injection(s[i], L \X R)
    <3>1. \A t, u \in s[i] : Cut(t, i) = Cut(u, i) /\ t[i + 1] = u[i + 1] => t = u
      BY <2>1, <2>6, SameTuple
    <3>2. g \in [s[i] -> L \X R]
      <4> HIDE DEF L, R
      <4> QED BY <2>6
    <3>3. \A t, u \in s[i] : g[t] = g[u] => t = u
      BY <3>1
    <3> HIDE DEF g
    <3> QED BY <3>2, <3>3 DEF Injection, IsInjective
  <2> HIDE DEF g, L, R
  <2>8. IsFiniteSet(s[i])
    BY <2>3, <2>7, FS_Injection
  <2> QED BY <2>8 DEF i
<1> HIDE DEF T
<1>5. Nat \subseteq T
  BY <1>3, <1>4, NatSetInduction
<1>6. \A i \in 0..n : i \in Nat
  BY <1>1
<1> QED BY <1>5, <1>6 DEF T

\* phi finds every joined row of S one of its own in R that it is a part of.
Shadows(phi, S, R, m) ==
  /\ phi \in Injection(S, R)
  /\ \A t \in S : \A f \in 1..m : t[f] = NoRow \/ t[f] = phi[t][f]

LEMMA ShadowFirst ==
  ASSUME NEW st, StatementShape(st), NEW fr, NEW hd, fr[1] \subseteq hd[1]
  PROVE  \E phi : Shadows(phi, Stages(st, fr)[0], Stages(st, hd)[0], 1)
<1> DEFINE S == Stages(st, fr)[0]
           R == Stages(st, hd)[0]
           phi == [t \in S |-> t]
<1>1. S \subseteq R
  <2>1. S = First(fr) /\ R = First(hd)
    BY ShapeFacts, StagesAre DEF Turns
  <2> QED BY <2>1 DEF First
<1>2. phi \in Injection(S, R)
  <2> HIDE DEF S, R
  <2>1. phi \in [S -> R] /\ \A t, u \in S : phi[t] = phi[u] => t = u
    BY <1>1
  <2> HIDE DEF phi
  <2> QED BY <2>1 DEF Injection, IsInjective
<1>3. \A t \in S : phi[t] = t
  OBVIOUS
<1> HIDE DEF S, R, phi
<1>4. Shadows(phi, S, R, 1)
  BY <1>2, <1>3 DEF Shadows
<1> QED BY <1>4 DEF S, R

LEMMA ShadowNext ==
  ASSUME NEW st, StatementShape(st), ~FullOverNulls(st),
         NEW fr, Table(st, fr), NEW hd, Table(st, hd), \A f \in Frames(st) : fr[f] \subseteq hd[f],
         NEW i \in 1..Len(st.joins),
         \E phi : Shadows(phi, Stages(st, fr)[i - 1], Stages(st, hd)[i - 1], i)
  PROVE  \E phi : Shadows(phi, Stages(st, fr)[i], Stages(st, hd)[i], i + 1)
<1> DEFINE c == i + 1
           j == st.joins[i]
           S == Stages(st, fr)[i - 1]
           R == Stages(st, hd)[i - 1]
           S2 == Stages(st, fr)[i]
           R2 == Stages(st, hd)[i]
<1>1. /\ i \in Nat /\ c \in Frames(st) /\ i - 1 \in 0..Len(st.joins) /\ (i - 1) + 1 = i
      /\ i \in DOMAIN st.joins /\ j.how \in Hows /\ j.on \in 0..i /\ 1..i \subseteq Frames(st)
  BY ShapeFacts DEF Frames
<1>2. fr[c] \in SUBSET Rows /\ hd[c] \in SUBSET Rows /\ fr[c] \subseteq hd[c]
  BY <1>1 DEF Table
<1>3. S \in SUBSET Tuples(i) /\ R \in SUBSET Tuples(i)
  BY <1>1, StagesFit
<1>4. Blank(i) \notin S /\ Blank(i) \notin R
  <2> HIDE DEF c, j
  <2> QED BY <1>1, StagesFit
<1>5. ASSUME j.how = "full", NEW l \in S, j.on # 0 PROVE l[j.on] # NoRow
  <2>1. \A h \in 1..i-1 : j.on \notin NullExtended(st, h)
    BY <1>1, <1>5 DEF FullOverNulls
  <2>2. j.on \in 1..(i - 1) + 1
    BY <1>1, <1>5
  <2>3. fr[j.on] \subseteq Rows
    BY <1>1, <2>2 DEF Table
  <2> HIDE DEF c, j
  <2>4. l[j.on] \in fr[j.on]
    BY <1>1, <1>5, <2>1, <2>2, StagesFit
  <2> QED BY <2>3, <2>4, RowFacts
<1>6. /\ S2 = Joined(st, i, S, fr[c]) /\ R2 = Joined(st, i, R, hd[c])
  <2> HIDE DEF c, j
  <2> QED BY <1>1, ShapeFacts, StagesAre DEF Turns, c
<1> HIDE DEF S, R, S2, R2
<1>7. /\ S2 \in SUBSET Tuples(c) /\ R2 \in SUBSET Tuples(c)
      /\ \A t \in Tuples(c) : /\ t \in S2 <=> Comes(st, i, S, fr[c], Cut(t, i), t[c])
                              /\ t \in R2 <=> Comes(st, i, R, hd[c], Cut(t, i), t[c])
  BY <1>1, <1>2, <1>3, <1>6, JoinedIs
<1>8. PICK phi : Shadows(phi, S, R, i)
  BY DEF S, R
<1>9. /\ \A l \in S : phi[l] \in R /\ \A f \in 1..i : l[f] = NoRow \/ l[f] = phi[l][f]
      /\ \A l, m \in S : phi[l] = phi[m] => l = m
  BY <1>8 DEF Shadows, Injection, IsInjective
\* ON holds of a row and the one it is a part of alike, where it can.
<1>10. ASSUME NEW l \in S, NEW r
       PROVE  /\ On(j, l, r) => On(j, phi[l], r)
              /\ j.how = "full" /\ On(j, phi[l], r) => On(j, l, r)
  <2>1. CASE j.on = 0
    BY <2>1 DEF On
  <2>2. CASE j.on # 0
    <3>1. l[j.on] = NoRow \/ l[j.on] = phi[l][j.on]
      BY <1>1, <1>9, <2>2
    <3>2. On(j, l, r) => l[j.on] # NoRow
      BY <2>2, RowFacts DEF On
    <3>3. j.how = "full" => l[j.on] # NoRow
      BY <1>5, <2>2
    <3> QED BY <2>2, <3>1, <3>2, <3>3 DEF On
  <2> QED BY <2>1, <2>2
<1> DEFINE Sent(t, a) ==
             IF Cut(t, i) \in S
             THEN Cut(a, i) = phi[Cut(t, i)] /\ (t[c] = NoRow \/ a[c] = t[c])
             ELSE a[c] = t[c]
           phi2 == [t \in S2 |-> CHOOSE a \in R2 : Sent(t, a)]
<1>11. \A l \in Tuples(i), r \in Cells : Comes(st, i, R, hd[c], l, r)
                                           => \E a \in R2 : Cut(a, i) = l /\ a[c] = r
  <2> SUFFICES ASSUME NEW l \in Tuples(i), NEW r \in Cells, Comes(st, i, R, hd[c], l, r)
               PROVE  \E a \in R2 : Cut(a, i) = l /\ a[c] = r
    OBVIOUS
  <2>1. Append(l, r) \in Tuples(c) /\ Cut(Append(l, r), i) = l /\ Append(l, r)[c] = r
    BY <1>1, AppendIs
  <2> QED BY <1>7, <2>1
<1> HIDE DEF c, j
<1>12. ASSUME NEW t \in S2 PROVE \E a \in R2 : Sent(t, a)
  <2> DEFINE l == Cut(t, i)
             r == t[c]
  <2>1. Comes(st, i, S, fr[c], l, r)
    BY <1>7
  <2> HIDE DEF l, r
  <2>2. CASE Paired(st, i, S, fr[c], l, r)
    <3>1. l \in S /\ r \in hd[c] /\ On(j, phi[l], r) /\ phi[l] \in R
      BY <1>2, <1>9, <1>10, <2>2 DEF Paired, j
    <3>2. Comes(st, i, R, hd[c], phi[l], r) /\ phi[l] \in Tuples(i) /\ r \in Cells
      BY <1>2, <1>3, <3>1, RowFacts DEF Comes, Paired, j
    <3> QED BY <1>11, <3>1, <3>2 DEF l, r
  <2>3. CASE LeftAlone(st, i, S, fr[c], l, r)
    <3>1. l \in S /\ r = NoRow /\ phi[l] \in R /\ phi[l] \in Tuples(i) /\ j.how \in {"left", "full"}
      BY <1>3, <1>9, <2>3 DEF LeftAlone, j
    <3>2. \E x \in Cells : Comes(st, i, R, hd[c], phi[l], x)
      <4>1. CASE \E x \in hd[c] : On(j, phi[l], x)
        BY <1>2, <3>1, <4>1, RowFacts DEF Comes, Paired, j
      <4>2. CASE \A x \in hd[c] : ~On(j, phi[l], x)
        BY <3>1, <4>2, RowFacts DEF Comes, LeftAlone, j
      <4> QED BY <4>1, <4>2
    <3>3. PICK a \in R2 : Cut(a, i) = phi[l]
      BY <1>11, <3>1, <3>2
    <3> QED BY <3>1, <3>3 DEF l, r
  <2>4. CASE RightAlone(st, i, S, fr[c], l, r)
    <3>1. l = Blank(i) /\ l \notin S /\ r \in hd[c] /\ r \in Cells /\ j.how \in {"right", "full"}
      BY <1>2, <1>4, <2>4, RowFacts DEF RightAlone, j
    <3>2. \E x \in Tuples(i) : Comes(st, i, R, hd[c], x, r)
      <4>1. CASE \E x \in R : On(j, x, r)
        BY <1>3, <3>1, <4>1 DEF Comes, Paired, j
      <4>2. CASE \A x \in R : ~On(j, x, r)
        <5>1. Blank(i) \in Tuples(i)
          BY RowFacts DEF Blank, Tuples
        <5> QED BY <3>1, <4>2, <5>1 DEF Comes, RightAlone, j
      <4> QED BY <4>1, <4>2
    <3>3. PICK a \in R2 : a[c] = r
      BY <1>11, <3>1, <3>2
    <3> QED BY <3>1, <3>3 DEF l, r
  <2> QED BY <2>1, <2>2, <2>3, <2>4 DEF Comes
\* Where a joined row of S2 has its left part and its right part from.
<1>13. ASSUME NEW t \in S2
       PROVE  /\ t \in Tuples(c)
              /\ Cut(t, i) \in S => \/ t[c] \in fr[c] /\ On(j, Cut(t, i), t[c])
                                    \/ /\ t[c] = NoRow /\ j.how \in {"left", "full"}
                                       /\ \A x \in fr[c] : ~On(j, Cut(t, i), x)
              /\ Cut(t, i) \notin S => /\ Cut(t, i) = Blank(i) /\ t[c] \in fr[c]
                                       /\ j.how \in {"right", "full"}
                                       /\ \A x \in S : ~On(j, x, t[c])
  BY <1>4, <1>7 DEF Comes, Paired, LeftAlone, RightAlone, j
<1>14. ASSUME NEW t \in S2, NEW u \in S2, NEW a \in R2, Sent(t, a), Sent(u, a),
              Cut(t, i) \in S, Cut(u, i) \notin S
       PROVE  FALSE
  <2>1. u[c] \in fr[c] /\ u[c] # NoRow /\ a[c] = u[c] /\ ~On(j, Cut(t, i), u[c])
    BY <1>2, <1>13, <1>14, RowFacts
  <2>2. t[c] = NoRow /\ j.how = "full" /\ \A x \in fr[c] : ~On(j, Cut(t, i), x)
    <3>1. t[c] = NoRow \/ t[c] = u[c]
      BY <1>14, <2>1
    <3>2. ~(t[c] \in fr[c] /\ On(j, Cut(t, i), t[c]))
      BY <1>2, <2>1, <3>1, RowFacts
    <3>3. /\ t[c] = NoRow /\ j.how \in {"left", "full"} /\ j.how \in {"right", "full"}
          /\ \A x \in fr[c] : ~On(j, Cut(t, i), x)
      BY <1>13, <1>14, <3>2
    <3> QED BY <3>3
  <2>3. Cut(a, i) = phi[Cut(t, i)] /\ Cut(a, i) \in R /\ Cut(a, i) # Blank(i)
    BY <1>4, <1>9, <1>14
  <2>4. a \in Tuples(c) /\ Comes(st, i, R, hd[c], Cut(a, i), a[c])
    BY <1>7
  <2>5. On(j, Cut(a, i), a[c])
    BY <2>1, <2>3, <2>4 DEF Comes, Paired, LeftAlone, RightAlone, j
  <2> QED BY <1>10, <1>14, <2>1, <2>2, <2>3, <2>5
<1>15. ASSUME NEW t \in S2, NEW u \in S2, NEW a \in R2, Sent(t, a), Sent(u, a)
       PROVE  t = u
  <2>1. CASE Cut(t, i) \in S /\ Cut(u, i) \in S
    <3>1. Cut(t, i) = Cut(u, i)
      BY <1>9, <1>15, <2>1
    <3>2. t[c] = u[c]
      BY <1>2, <1>13, <1>15, <2>1, <3>1, RowFacts
    <3> QED BY <1>1, <1>13, <3>1, <3>2, SameTuple DEF c
  <2>2. CASE Cut(t, i) \notin S /\ Cut(u, i) \notin S
    <3>1. Cut(t, i) = Cut(u, i) /\ t[c] = u[c]
      BY <1>13, <1>15, <2>2
    <3> QED BY <1>1, <1>13, <3>1, SameTuple DEF c
  <2> QED BY <1>14, <1>15, <2>1, <2>2
<1>16. ASSUME NEW t \in S2, NEW a \in R2, Sent(t, a), NEW f \in 1..c
       PROVE  t[f] = NoRow \/ t[f] = a[f]
  <2>1. CASE f = c
    BY <1>16, <2>1
  <2>2. CASE f # c
    <3>1. f \in 1..i
      BY <1>1, <2>2 DEF c
    <3>2. Cut(t, i)[f] = t[f] /\ Cut(a, i)[f] = a[f]
      BY <3>1 DEF Cut
    <3>3. CASE Cut(t, i) \in S
      BY <1>9, <1>16, <3>1, <3>2, <3>3
    <3>4. CASE Cut(t, i) \notin S
      BY <1>13, <3>1, <3>2, <3>4 DEF Blank
    <3> QED BY <3>3, <3>4
  <2> QED BY <2>1, <2>2
<1> HIDE DEF Sent
<1>17. \A t \in S2 : phi2[t] \in R2 /\ Sent(t, phi2[t])
  BY <1>12
<1>18. phi2 \in [S2 -> R2]
  BY <1>12
<1> HIDE DEF phi2
<1>19. Shadows(phi2, S2, R2, c)
  BY <1>15, <1>16, <1>17, <1>18 DEF Shadows, Injection, IsInjective
<1> QED BY <1>19 DEF S2, R2, c

LEMMA ShadowAlways ==
  ASSUME NEW st, StatementShape(st), ~FullOverNulls(st),
         NEW fr, Table(st, fr), NEW hd, Table(st, hd), \A f \in Frames(st) : fr[f] \subseteq hd[f]
  PROVE  \A i \in 0..Len(st.joins) :
           \E phi : Shadows(phi, Stages(st, fr)[i], Stages(st, hd)[i], i + 1)
<1> DEFINE n == Len(st.joins)
           P(m) == \E phi : Shadows(phi, Stages(st, fr)[m], Stages(st, hd)[m], m + 1)
           T == {m \in Nat : m \in 0..n => P(m)}
<1>1. n \in Nat /\ 1 \in Frames(st)
  BY ShapeFacts DEF Frames
<1>2. 0 \in T
  BY <1>1, ShadowFirst
<1>3. ASSUME NEW m \in Nat, m \in T PROVE m + 1 \in T
  <2> SUFFICES ASSUME m + 1 \in 0..n PROVE P(m + 1)
    OBVIOUS
  <2>1. m + 1 \in 1..n /\ (m + 1) - 1 = m /\ m \in 0..n
    BY <1>1
  <2>2. P(m)
    BY <1>3, <2>1
  <2> QED BY <2>1, <2>2, ShadowNext
<1> HIDE DEF T
<1>4. Nat \subseteq T
  BY <1>2, <1>3, NatSetInduction
<1>5. \A i \in 0..n : i \in Nat
  BY <1>1
<1> QED BY <1>4, <1>5 DEF T

\* A statement is refused for its size only when a join SQL describes has a
\* side that is too large: but where a FULL join follows an outer one on the
\* same frame, planning never makes a join larger.
THEOREM RefusalsAreHonest == Spec => []RefusedOnlyIfLarge
<1>1. IInv => RefusedOnlyIfLarge
  <2> SUFFICES ASSUME IInv, pc = "raised", ~FullOverNulls(stmt)
               PROVE  \E i \in DOMAIN stmt.joins :
                        /\ stmt.joins[i].on = 0
                        /\ \/ Cardinality(SqlStages(stmt, held)[i - 1]) > MaxSide
                           \/ Cardinality(held[i + 1]) > MaxSide
    BY DEF RefusedOnlyIfLarge
  <2>1. /\ StatementShape(stmt) /\ Table(stmt, frames) /\ Table(stmt, held)
        /\ \A f \in Frames(stmt) : Between(stmt, frames, held, f)
    BY AllNarrowed
  <2>2. \A f \in Frames(stmt) : frames[f] \subseteq held[f] /\ IsFiniteSet(held[f])
    BY <2>1 DEF Between, IInv, Tables, Finite
  <2>3. PICK i \in DOMAIN stmt.joins :
          /\ stmt.joins[i].on = 0
          /\ TooLarge(Stages(stmt, frames)[i - 1], frames[i + 1])
    BY DEF IInv, Ending, Refused
  <2>4. i - 1 \in 0..Len(stmt.joins) /\ i + 1 \in Frames(stmt)
    BY <2>1, ShapeFacts DEF Frames
  <2> DEFINE S == Stages(stmt, frames)[i - 1]
             R == Stages(stmt, held)[i - 1]
             m == (i - 1) + 1
  <2>5. SqlStages(stmt, held)[i - 1] = R
    BY <2>1, <2>4, SqlStagesAre
  <2>6. IsFiniteSet(R) /\ \E phi : Shadows(phi, S, R, m)
    BY <2>1, <2>2, <2>4, StagesFinite, ShadowAlways
  <2> HIDE DEF S, R, m
  <2>7. Cardinality(S) <= Cardinality(R) /\ Cardinality(S) \in Nat /\ Cardinality(R) \in Nat
    <3>1. PICK phi : phi \in Injection(S, R)
      BY <2>6 DEF Shadows
    <3> QED BY <2>6, <3>1, FS_Injection, FS_CardinalityType
  <2>8. /\ Cardinality(frames[i + 1]) <= Cardinality(held[i + 1])
        /\ Cardinality(frames[i + 1]) \in Nat /\ Cardinality(held[i + 1]) \in Nat
    <3>1. frames[i + 1] \in SUBSET held[i + 1] /\ IsFiniteSet(held[i + 1])
      BY <2>2, <2>4
    <3> QED BY <3>1, FS_Subset, FS_CardinalityType
  <2>9. Cardinality(R) > MaxSide \/ Cardinality(held[i + 1]) > MaxSide
    <3>1. Cardinality(S) > MaxSide \/ Cardinality(frames[i + 1]) > MaxSide
      BY <2>3 DEF TooLarge, S
    <3> QED BY <2>7, <2>8, <3>1, BoundsAssumption
  <2> QED BY <2>3, <2>5, <2>9
<1> QED BY <1>1, IInvAlways, PTL
=============================================================================
