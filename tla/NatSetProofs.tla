----------------------------- MODULE NatSetProofs -----------------------------
(***************************************************************************)
(* Induction over the naturals stated about a set instead of a predicate,  *)
(* so that a proof can cite it without instantiating an operator, and what *)
(* KeyOrder makes of a set of keys.                                        *)
(***************************************************************************)
EXTENDS KeyOrder, Integers, Sequences, FiniteSetTheorems, WellFoundedInduction, TLAPS

NatLess == {p \in Nat \X Nat : p[1] < p[2]}

\* The library's well-foundedness of < on Nat, for the relation above.
LEMMA NatLessWF == IsWellFoundedOn(NatLess, Nat)
  BY NatLessThanWellFounded DEF OpToRel, NatLess

\* Every non-empty set of naturals has a least element.
LEMMA LeastNatural ==
  ASSUME NEW T, T \subseteq Nat, T # {}
  PROVE  \E x \in T : \A y \in T : x <= y
<1>1. PICK x \in T : \A y \in T : ~(<<y, x>> \in NatLess)
  BY NatLessWF, WFMin
<1>2. \A y \in T : ~(y < x) /\ y \in Nat /\ x \in Nat
  BY <1>1 DEF NatLess
<1>3. \A y \in T : x <= y
  BY <1>2
<1> QED BY <1>3

\* A set that holds 0 and the successor of each of its naturals holds them all.
LEMMA NatSetInduction ==
  ASSUME NEW T, 0 \in T, \A n \in Nat : n \in T => n+1 \in T
  PROVE  Nat \subseteq T
<1> DEFINE B == {n \in Nat : n \notin T}
<1> SUFFICES ASSUME B # {} PROVE FALSE
  OBVIOUS
<1>1. PICK x \in B : \A y \in B : x <= y
  <2> B \subseteq Nat
    OBVIOUS
  <2> HIDE DEF B
  <2> QED BY LeastNatural
<1>2. x # 0 /\ x - 1 \in Nat /\ x - 1 \notin B
  BY <1>1
<1>3. (x - 1) + 1 \in T
  BY <1>2
<1> QED BY <1>3

\* A finite set of naturals in key order is an increasing sequence of exactly
\* its members, as long as the set is large.
LEMMA InKeyOrderFacts ==
  ASSUME NEW S, S \subseteq Nat, IsFiniteSet(S)
  PROVE  /\ InKeyOrder(S) \in Seq(S) /\ Len(InKeyOrder(S)) = Cardinality(S)
         /\ \A x \in S : \E k \in 1..Cardinality(S) : InKeyOrder(S)[k] = x
         /\ \A k, m \in 1..Cardinality(S) : k < m => InKeyOrder(S)[k] < InKeyOrder(S)[m]
<1> DEFINE upTo(x) == {y \in S : y <= x}
           n == Cardinality(S)
           rank == [x \in S |-> Cardinality(upTo(x))]
<1>1. n \in Nat /\ IsFiniteSet(1..n) /\ Cardinality(1..n) = n
  BY FS_CardinalityType, FS_Interval
<1>2. \A x \in S : /\ upTo(x) \in SUBSET S /\ x \in upTo(x) /\ IsFiniteSet(upTo(x))
                   /\ Cardinality(upTo(x)) <= n /\ Cardinality(upTo(x)) \in Nat
  <2>1. ASSUME NEW x \in S PROVE upTo(x) \in SUBSET S /\ x \in upTo(x)
    OBVIOUS
  <2> HIDE DEF upTo
  <2> QED BY <2>1, FS_Subset, FS_CardinalityType
<1>3. \A x \in S : Cardinality(upTo(x)) # 0
  <2> HIDE DEF upTo
  <2> QED BY <1>2, FS_EmptySet
<1>4. rank \in [S -> 1..n]
  <2>1. \A x \in S : Cardinality(upTo(x)) \in 1..n
    <3> HIDE DEF upTo, n
    <3> QED BY <1>1, <1>2, <1>3
  <2> QED BY <2>1
<1>5. \A x, y \in S : x < y => rank[x] < rank[y]
  <2> SUFFICES ASSUME NEW x \in S, NEW y \in S, x < y
               PROVE  Cardinality(upTo(x)) < Cardinality(upTo(y))
    OBVIOUS
  <2>1. upTo(x) \in SUBSET upTo(y) /\ y \in upTo(y) /\ y \notin upTo(x)
    <3>1. \A z \in S : z <= x => z <= y
      BY ONLY S \subseteq Nat, x \in S, y \in S, x < y
    <3>2. y <= y /\ ~(y <= x)
      BY ONLY S \subseteq Nat, x \in S, y \in S, x < y
    <3> QED BY <3>1, <3>2
  <2> HIDE DEF upTo
  <2>2. Cardinality(upTo(x)) <= Cardinality(upTo(y)) /\ upTo(x) # upTo(y)
    BY <1>2, <2>1, FS_Subset
  <2>3. Cardinality(upTo(x)) # Cardinality(upTo(y))
    BY <1>2, <2>1, <2>2, FS_Subset
  <2> QED BY <1>2, <2>2, <2>3
<1>6. rank \in Injection(S, 1..n)
  <2>1. \A x, y \in S : rank[x] = rank[y] => x = y
    <3>1. ASSUME NEW x \in S, NEW y \in S, rank[x] = rank[y] PROVE x = y
      <4>1. rank[x] \in Nat /\ ~(rank[x] < rank[y]) /\ ~(rank[y] < rank[x])
        BY <1>4, <3>1
      <4> HIDE DEF rank
      <4>2. x \in Nat /\ y \in Nat /\ ~(x < y) /\ ~(y < x)
        BY <1>5, <4>1
      <4> QED BY <4>2
    <3> QED BY <3>1
  <2> HIDE DEF rank, n
  <2> QED BY <1>4, <2>1 DEF Injection, IsInjective
<1>7. rank \in Surjection(S, 1..n)
  <2> HIDE DEF rank
  <2> QED BY <1>1, <1>6, FS_Injection
<1>8. \A k \in 1..n : \E x \in S : Cardinality(upTo(x)) = k
  <2>1. \A k \in 1..n : \E x \in S : rank[x] = k
    <3> HIDE DEF rank, n
    <3> QED BY <1>7 DEF Surjection
  <2> QED BY <2>1
<1>9. InKeyOrder(S) = [k \in 1..n |-> CHOOSE x \in S : Cardinality(upTo(x)) = k]
  BY DEF InKeyOrder
<1>10. \A x \in S : rank[x] = Cardinality(upTo(x))
  OBVIOUS
<1> HIDE DEF upTo, rank, n
<1> DEFINE pick(k) == CHOOSE x \in S : Cardinality(upTo(x)) = k
<1>11. \A k \in 1..n : pick(k) \in S /\ rank[pick(k)] = k
  <2>1. \A k \in 1..n : pick(k) \in S /\ Cardinality(upTo(pick(k))) = k
    BY <1>8
  <2> QED BY <1>10, <2>1
<1> HIDE DEF pick
<1>12. InKeyOrder(S) \in [1..n -> S] /\ \A k \in 1..n : InKeyOrder(S)[k] = pick(k)
  BY <1>9, <1>11 DEF pick
<1>13. ASSUME NEW x \in S PROVE rank[x] \in 1..n /\ pick(rank[x]) = x
  <2>1. rank[x] \in 1..n
    BY <1>4
  <2>2. pick(rank[x]) \in S /\ rank[pick(rank[x])] = rank[x]
    BY <1>11, <2>1
  <2> QED BY <1>6, <2>1, <2>2 DEF Injection, IsInjective
<1>14. ASSUME NEW k \in 1..n, NEW m \in 1..n, k < m PROVE pick(k) < pick(m)
  <2>1. pick(k) \in Nat /\ pick(m) \in Nat /\ ~(pick(m) < pick(k)) /\ pick(m) # pick(k)
    <3>1. rank[pick(k)] = k /\ rank[pick(m)] = m /\ pick(k) \in S /\ pick(m) \in S
      BY <1>11
    <3>2. ~(m < k) /\ m # k
      BY <1>1, <1>14
    <3> QED BY <1>5, <3>1, <3>2
  <2> QED BY <2>1
<1> QED BY <1>1, <1>12, <1>13, <1>14 DEF n
=============================================================================
