------------------------------ MODULE KeyOrder ------------------------------
(***************************************************************************)
(* Sets of numbers in order: Milvus answers a query in the order of        *)
(* primary keys, and the frames of a join have an order of their own.      *)
(***************************************************************************)
EXTENDS Integers, FiniteSets

\* A set of keys in order: the k-th has k keys of the set up to it.
InKeyOrder(S) ==
  [k \in 1..Cardinality(S) |-> CHOOSE x \in S : Cardinality({y \in S : y <= x}) = k]
=============================================================================
