------------------------------ MODULE ReadProofs ------------------------------
(***************************************************************************)
(* Proofs about the reads of one collection.                               *)
(*                                                                         *)
(* PagedRead, for every set of integer keys, every ceiling Limit >= 1 and  *)
(* both kinds of server.  The inductive invariant is IInv: what is at or   *)
(* behind the primary-key cursor has been gathered (BehindCursor), and     *)
(* what has been gathered is in key order and ends at the cursor           *)
(* (PagesInOrder).                                                         *)
(*                                                                         *)
(* SelectDispatch, for every statement of the shape it declares, rows of   *)
(* any number, every ceiling and every level.  Its properties are about    *)
(* one step, so the proof is about the operators: each read path carries   *)
(* through the clauses of the statements that take it.                     *)
(***************************************************************************)
EXTENDS PagedRead, SelectDispatch, NatSetProofs, SequenceTheorems, TLAPS

\* Gathering a page adds exactly its rows.
LEMMA ExtendRange ==
  ASSUME NEW S, NEW s \in Seq(S), NEW t \in Seq(S)
  PROVE  /\ s \o t \in Seq(S)
         /\ Range(s \o t) = Range(s) \cup Range(t)
<1>1. s \o t \in Seq(S) /\ Len(s \o t) = Len(s) + Len(t)
  OBVIOUS
<1>2. \A i \in 1..Len(s) : (s \o t)[i] = s[i]
  OBVIOUS
<1>3. \A i \in 1..Len(t) : (s \o t)[Len(s) + i] = t[i]
  OBVIOUS
<1>4. ASSUME NEW x \in Range(s \o t) PROVE x \in Range(s) \cup Range(t)
  <2>1. PICK i \in 1..Len(s \o t) : x = (s \o t)[i]
    BY <1>1 DEF Range
  <2>2. CASE i <= Len(s)
    BY <1>1, <1>2, <2>1, <2>2 DEF Range
  <2>3. CASE i > Len(s)
    <3>1. i - Len(s) \in 1..Len(t) /\ i = Len(s) + (i - Len(s))
      BY <1>1, <2>1, <2>3
    <3>2. x = t[i - Len(s)]
      BY <1>3, <2>1, <3>1
    <3> QED BY <3>1, <3>2 DEF Range
  <2> QED BY <1>1, <2>1, <2>2, <2>3
<1>5. ASSUME NEW x \in Range(s) PROVE x \in Range(s \o t)
  BY <1>1, <1>2 DEF Range
<1>6. ASSUME NEW x \in Range(t) PROVE x \in Range(s \o t)
  <2>1. PICK i \in 1..Len(t) : x = t[i]
    BY DEF Range
  <2>2. Len(s) + i \in 1..Len(s \o t) /\ x = (s \o t)[Len(s) + i]
    BY <1>1, <1>3, <2>1
  <2> QED BY <1>1, <2>2 DEF Range
<1> QED BY <1>1, <1>4, <1>5, <1>6

\* Two increasing sequences, the second starting past the end of the first.
LEMMA ExtendIncreasing ==
  ASSUME NEW s \in Seq(Int), NEW t \in Seq(Int), Increasing(s), Increasing(t),
         \A i \in 1..Len(s), j \in 1..Len(t) : s[i] < t[j]
  PROVE  Increasing(s \o t)
<1> DEFINE u == s \o t
<1>1. Len(u) = Len(s) + Len(t)
  OBVIOUS
<1>2. \A i \in 1..Len(s) : u[i] = s[i]
  OBVIOUS
<1>3. \A i \in 1..Len(u) : i > Len(s) => i - Len(s) \in 1..Len(t) /\ u[i] = t[i - Len(s)]
  OBVIOUS
<1> SUFFICES ASSUME NEW i \in 1..Len(u), NEW j \in 1..Len(u), i < j
             PROVE  u[i] < u[j]
  BY DEF Increasing
<1>4. CASE j <= Len(s)
  BY <1>1, <1>2, <1>4 DEF Increasing
<1>5. CASE i <= Len(s) /\ j > Len(s)
  BY <1>1, <1>2, <1>3, <1>5
<1>6. CASE i > Len(s)
  <2>1. /\ i - Len(s) \in 1..Len(t) /\ u[i] = t[i - Len(s)]
        /\ j - Len(s) \in 1..Len(t) /\ u[j] = t[j - Len(s)]
    BY <1>3, <1>6
  <2>2. i - Len(s) < j - Len(s)
    BY <1>1
  <2> QED BY <2>1, <2>2 DEF Increasing
<1> QED BY <1>1, <1>4, <1>5, <1>6

\* A sequence of keys is a sequence of integers.
LEMMA KeySeq ==
  ASSUME NEW s \in Seq(Keys)
  PROVE  s \in Seq(Int) /\ \A i \in 1..Len(s) : s[i] \in Keys /\ s[i] \in Int
<1>1. ASSUME NEW i \in 1..Len(s) PROVE s[i] \in Keys /\ s[i] \in Int
  <2>1. s[i] \in Keys
    OBVIOUS
  <2> QED BY <2>1, KeysAssumption
<1>2. s \in [1..Len(s) -> Int] /\ Len(s) \in Nat
  BY <1>1
<1> QED BY <1>1, <1>2

\* The shape of what the server sends.
LEMMA AnswerShape ==
  ASSUME NEW S \in SUBSET Keys, NEW s \in QueryAnswers(S)
  PROVE  /\ s \in Seq(Keys) /\ Range(s) \subseteq S /\ Distinct(s)
         /\ Len(s) \in 0..Limit
         /\ Len(s) # Limit => Range(s) = S
<1>1. PICK m \in 0..Limit : s \in [1..m -> S]
  BY LimitAssumption DEF QueryAnswers, SeqOf
<1>2. s \in Seq(S) /\ Len(s) = m
  BY <1>1, LimitAssumption
<1>3. Range(s) \subseteq S
  BY <1>1, <1>2 DEF Range
<1>4. s \in Seq(Keys)
  BY <1>1, <1>2
<1> QED BY <1>1, <1>2, <1>3, <1>4 DEF QueryAnswers

\* A page that passes the order check is strictly increasing: the check of
\* consecutive pairs is enough because the keys are integers.
LEMMA CheckedPageIncreases ==
  ASSUME NEW s \in Seq(Int), ~OutOfOrder(s)
  PROVE  Increasing(s)
<1>1. \A i \in 1..Len(s)-1 : s[i] < s[i+1]
  <2> TAKE i \in 1..Len(s)-1
  <2>1. i \in 1..Len(s) /\ i+1 \in 1..Len(s)
    OBVIOUS
  <2>2. s[i] \in Int /\ s[i+1] \in Int
    BY <2>1
  <2> QED BY <2>1, <2>2 DEF OutOfOrder
<1> DEFINE T == {n \in Nat : \A i \in 1..Len(s) : i < n /\ n <= Len(s) => s[i] < s[n]}
<1>2. 0 \in T
  OBVIOUS
<1>3. ASSUME NEW n \in Nat, n \in T PROVE n+1 \in T
  <2> SUFFICES ASSUME NEW i \in 1..Len(s), i < n+1, n+1 <= Len(s)
               PROVE  s[i] < s[n+1]
    OBVIOUS
  <2>1. s[n] < s[n+1] /\ s[n] \in Int /\ s[n+1] \in Int /\ s[i] \in Int
    BY <1>1
  <2>2. CASE i = n
    BY <2>1, <2>2
  <2>3. CASE i < n
    BY <1>3, <2>1, <2>3
  <2> QED BY <2>2, <2>3
<1>4. Nat \subseteq T
  <2> HIDE DEF T
  <2> QED BY <1>2, <1>3, NatSetInduction
<1> QED BY <1>4 DEF Increasing

-----------------------------------------------------------------------------
\* The four ways a state of the read can change that the proofs distinguish.

LEMMA InitIInv == Init => IInv
<1> SUFFICES ASSUME Init PROVE IInv
  OBVIOUS
<1>1. Range(<< >>) = {} /\ << >> \in Seq(Keys)
  BY DEF Range
<1> QED BY <1>1, ServerAssumption
        DEF Init, IInv, TypeOK, PagesInOrder, BehindCursor, NothingLost, Ended

LEMMA BeginIInv == IInv /\ Begin => IInv'
<1> SUFFICES ASSUME IInv, Begin PROVE IInv'
  OBVIOUS
<1>1. Range(<< >>) = {} /\ << >> \in Seq(Keys)
  BY DEF Range
<1> QED BY <1>1 DEF Begin, IInv, TypeOK, PagesInOrder, BehindCursor, NothingLost,
                   Ended, InFlight

LEMMA WriteIInv == IInv /\ Write => IInv'
<1> SUFFICES ASSUME IInv, Write PROVE IInv'
  OBVIOUS
<1> QED BY DEF Write, client, IInv, TypeOK, PagesInOrder, BehindCursor,
               NothingLost, Ended, InFlight

LEMMA FirstQueryIInv == IInv /\ FirstQuery => IInv'
<1> SUFFICES ASSUME IInv, FirstQuery PROVE IInv'
  OBVIOUS
<1>1. PICK raw \in QueryAnswers(matching) :
        IF AtCeiling(raw) THEN pc' = "describe" /\ UNCHANGED result
                          ELSE pc' = "returned" /\ result' = raw
  BY DEF FirstQuery
<1>2. /\ raw \in Seq(Keys) /\ Range(raw) \subseteq matching /\ Distinct(raw)
      /\ Len(raw) \in 0..Limit
      /\ Len(raw) # Limit => Range(raw) = matching
  BY AnswerShape DEF IInv, TypeOK
<1>3. UNCHANGED <<ordered, matching, after, accumulated, stable, seen>> /\ pc = "first"
  BY DEF FirstQuery
<1>4. CASE AtCeiling(raw)
  BY <1>1, <1>3, <1>4 DEF IInv, TypeOK, PagesInOrder, BehindCursor, NothingLost,
                         Ended, InFlight
<1>5. CASE ~AtCeiling(raw)
  <2>1. Range(raw) = matching
    BY <1>2, <1>5, LimitAssumption DEF AtCeiling
  <2>2. pc' = "returned" /\ result' = raw
    BY <1>1, <1>5
  <2> QED BY <1>2, <1>3, <2>1, <2>2
          DEF IInv, TypeOK, PagesInOrder, BehindCursor, NothingLost, Ended, InFlight
<1> QED BY <1>4, <1>5

LEMMA DescribeIInv == IInv /\ Describe => IInv'
<1> SUFFICES ASSUME IInv, Describe PROVE IInv'
  OBVIOUS
<1>1. Range(<< >>) = {} /\ << >> \in Seq(Keys)
  BY DEF Range
<1>2. Increasing(<< >>)
  BY DEF Increasing
<1> QED BY <1>1, <1>2
        DEF Describe, AfterDescribe, IInv, TypeOK, PagesInOrder, BehindCursor,
            NothingLost, Ended, InFlight

LEMMA RpcFailsIInv == IInv /\ RpcFails => IInv'
BY DEF RpcFails, IInv, TypeOK, PagesInOrder, BehindCursor, NothingLost, Ended, InFlight

\* The page case: `rows` passed the order check and is added to what was gathered.
LEMMA GoodPage ==
  ASSUME IInv, pc = "page",
         NEW rows \in PageAnswers(PastCursor(matching, after)), ~OutOfOrder(rows)
  PROVE  /\ rows \in Seq(Keys)
         /\ Extended(rows) \in Seq(Keys)
         /\ Increasing(Extended(rows))
         /\ Range(Extended(rows)) = Range(accumulated) \cup Range(rows)
         /\ Range(rows) \subseteq matching
         /\ Len(Extended(rows)) = Len(accumulated) + Len(rows)
         /\ Len(rows) > 0 => Extended(rows)[Len(Extended(rows))] = rows[Len(rows)]
         /\ Len(rows) < Limit => Range(rows) = PastCursor(matching, after)
         /\ ordered => \A k \in PastCursor(matching, after) \ Range(rows) :
                         \A p \in Range(rows) : p < k
<1> DEFINE S == PastCursor(matching, after)
<1>1. S \in SUBSET Keys /\ S \subseteq matching
  BY DEF IInv, TypeOK, PastCursor
<1>2. rows \in QueryAnswers(S)
  BY DEF PageAnswers
<1>3. /\ rows \in Seq(Keys) /\ Range(rows) \subseteq S
      /\ Len(rows) \in 0..Limit
      /\ Len(rows) # Limit => Range(rows) = S
  <2> HIDE DEF S
  <2> QED BY <1>1, <1>2, AnswerShape
<1>4. accumulated \in Seq(Keys) /\ Increasing(accumulated)
  BY DEF IInv, TypeOK, PagesInOrder
<1>5. rows \in Seq(Int) /\ accumulated \in Seq(Int)
  BY <1>3, <1>4, KeySeq
<1>6. Increasing(rows)
  BY <1>5, CheckedPageIncreases
<1>7. \A i \in 1..Len(accumulated), j \in 1..Len(rows) : accumulated[i] < rows[j]
  <2> SUFFICES ASSUME NEW i \in 1..Len(accumulated), NEW j \in 1..Len(rows)
               PROVE  accumulated[i] < rows[j]
    OBVIOUS
  <2>1. accumulated # << >> /\ Len(accumulated) \in 1..Len(accumulated)
    BY <1>4
  <2>2. after = accumulated[Len(accumulated)]
    BY <2>1 DEF IInv, PagesInOrder
  <2>3. after \in Keys /\ after # NoKey /\ accumulated[i] \in Int /\ after \in Int
    BY <1>4, <2>1, <2>2, NoKeyAssumption, KeySeq
  <2>4. accumulated[i] <= after
    BY <1>4, <2>1, <2>2, <2>3 DEF Increasing
  <2>5. rows[j] \in S
    BY <1>3 DEF Range
  <2>6. after < rows[j] /\ rows[j] \in Int
    BY <1>1, <2>3, <2>5, KeysAssumption DEF PastCursor
  <2> QED BY <2>3, <2>4, <2>6
<1>8. Increasing(Extended(rows))
  BY <1>4, <1>5, <1>6, <1>7, ExtendIncreasing DEF Extended
<1>9. /\ Extended(rows) \in Seq(Keys)
      /\ Range(Extended(rows)) = Range(accumulated) \cup Range(rows)
  BY <1>3, <1>4, ExtendRange DEF Extended
<1>10. /\ Len(Extended(rows)) = Len(accumulated) + Len(rows)
       /\ Len(rows) > 0 => Extended(rows)[Len(Extended(rows))] = rows[Len(rows)]
  BY <1>3, <1>4 DEF Extended
<1>11. ordered => \A k \in S \ Range(rows) : \A p \in Range(rows) : p < k
  BY DEF PageAnswers
<1>12. Len(rows) < Limit => Range(rows) = S
  BY <1>3, LimitAssumption
<1> QED BY <1>1, <1>3, <1>8, <1>9, <1>10, <1>11, <1>12

LEMMA IncreasingDistinct ==
  ASSUME NEW s \in Seq(Int), Increasing(s)
  PROVE  Distinct(s)
<1> SUFFICES ASSUME NEW i \in 1..Len(s), NEW j \in 1..Len(s), s[i] = s[j]
             PROVE  i = j
  BY DEF Distinct
<1>1. s[i] \in Int /\ s[j] \in Int
  OBVIOUS
<1>2. ~(i < j) /\ ~(j < i)
  BY <1>1 DEF Increasing
<1> QED BY <1>2

LEMMA PageIInv == IInv /\ Page => IInv'
<1> SUFFICES ASSUME IInv, Page PROVE IInv'
  OBVIOUS
<1>0. pc = "page" /\ UNCHANGED <<ordered, matching, stable, seen>>
  BY DEF Page
<1>1. PICK rows \in PageAnswers(PastCursor(matching, after)) :
        \/ /\ OutOfOrder(rows)
           /\ pc' = "unordered"
           /\ UNCHANGED <<after, accumulated, result>>
        \/ /\ ~OutOfOrder(rows)
           /\ accumulated' = Extended(rows)
           /\ IF AtCeiling(rows)
              THEN /\ after' = NextCursor(rows)
                   /\ UNCHANGED <<pc, result>>
              ELSE /\ pc' = "returned"
                   /\ result' = accumulated'
                   /\ UNCHANGED after
  BY DEF Page
<1>2. CASE OutOfOrder(rows)
  BY <1>0, <1>1, <1>2 DEF IInv, TypeOK, PagesInOrder, BehindCursor, NothingLost,
                         Ended, InFlight
<1>3. CASE ~OutOfOrder(rows)
  <2>1. accumulated' = Extended(rows)
    BY <1>1, <1>3
  <2>2. /\ rows \in Seq(Keys)
        /\ accumulated' \in Seq(Keys)
        /\ Increasing(accumulated')
        /\ Range(accumulated') = Range(accumulated) \cup Range(rows)
        /\ Range(rows) \subseteq matching
        /\ Len(accumulated') = Len(accumulated) + Len(rows)
        /\ Len(rows) > 0 => accumulated'[Len(accumulated')] = rows[Len(rows)]
        /\ Len(rows) < Limit => Range(rows) = PastCursor(matching, after)
        /\ ordered => \A k \in PastCursor(matching, after) \ Range(rows) :
                        \A p \in Range(rows) : p < k
    BY <1>0, <1>3, <2>1, GoodPage
  <2>3. Range(accumulated') \subseteq seen
    BY <1>0, <2>2 DEF IInv, BehindCursor
  <2>4. stable \subseteq matching /\ matching \subseteq seen /\ stable \subseteq Keys
    BY <1>0 DEF IInv, BehindCursor, TypeOK
  <2>5. ordered => \A k \in stable : after # NoKey /\ k <= after => k \in Range(accumulated)
    BY <1>0 DEF IInv, BehindCursor
  <2>6. CASE AtCeiling(rows)
    <3>1. Len(rows) > 0 /\ Len(rows) \in 1..Len(rows)
      BY <2>2, <2>6, LimitAssumption DEF AtCeiling
    <3>2. after' = rows[Len(rows)] /\ pc' = "page" /\ UNCHANGED result
      BY <1>0, <1>1, <1>3, <2>6 DEF NextCursor
    <3>3. after' \in Keys /\ after' \in Range(rows)
      BY <2>2, <3>1, <3>2 DEF Range
    <3>4. accumulated' # << >> /\ after' = accumulated'[Len(accumulated')]
      BY <2>2, <3>1, <3>2
    <3>5. ASSUME ordered, NEW k \in stable, k <= after'
          PROVE  k \in Range(accumulated')
      <4>1. k \in Int /\ after' \in Int /\ (after # NoKey => after \in Int)
        BY <2>4, <3>3, KeysAssumption DEF IInv, TypeOK
      <4>2. CASE after # NoKey /\ k <= after
        BY <2>2, <2>5, <3>5, <4>2
      <4>3. CASE ~(after # NoKey /\ k <= after)
        <5>1. k \in PastCursor(matching, after)
          BY <2>4, <4>1, <4>3 DEF PastCursor
        <5>2. k \in Range(rows)
          BY <2>2, <3>3, <3>5, <4>1, <5>1
        <5> QED BY <2>2, <5>2
      <4> QED BY <4>2, <4>3
    <3>6. TypeOK'
      BY <1>0, <2>2, <3>2, <3>3 DEF IInv, TypeOK, InFlight
    <3>7. PagesInOrder'
      BY <2>2, <3>4 DEF PagesInOrder
    <3>8. BehindCursor'
      BY <1>0, <2>3, <2>4, <3>2, <3>5 DEF BehindCursor
    <3>9. NothingLost'
      BY <3>2 DEF NothingLost
    <3> QED BY <3>6, <3>7, <3>8, <3>9 DEF IInv
  <2>7. CASE ~AtCeiling(rows)
    <3>1. pc' = "returned" /\ result' = accumulated' /\ UNCHANGED after
      BY <1>1, <1>3, <2>7
    <3>2. Range(rows) = PastCursor(matching, after)
      BY <2>2, <2>7, LimitAssumption DEF AtCeiling
    <3>3. ASSUME ordered, NEW k \in stable PROVE k \in Range(accumulated')
      <4>1. k \in Int /\ (after # NoKey => after \in Int)
        BY <2>4, KeysAssumption DEF IInv, TypeOK
      <4>2. CASE after # NoKey /\ k <= after
        BY <2>2, <2>5, <3>3, <4>2
      <4>3. CASE ~(after # NoKey /\ k <= after)
        BY <2>2, <2>4, <3>2, <4>1, <4>3 DEF PastCursor
      <4> QED BY <4>2, <4>3
    <3>4. Distinct(accumulated')
      BY <2>2, KeySeq, IncreasingDistinct
    <3>5. TypeOK'
      BY <1>0, <2>2, <3>1 DEF IInv, TypeOK, Ended
    <3>6. PagesInOrder' /\ BehindCursor'
      BY <1>0, <2>3, <2>4, <3>1 DEF PagesInOrder, BehindCursor
    <3>7. NothingLost'
      BY <1>0, <2>3, <3>1, <3>3, <3>4 DEF NothingLost
    <3> QED BY <3>5, <3>6, <3>7 DEF IInv
  <2> QED BY <2>6, <2>7
<1> QED BY <1>2, <1>3

LEMMA StutterIInv == IInv /\ UNCHANGED vars => IInv'
BY DEF vars, IInv, TypeOK, PagesInOrder, BehindCursor, NothingLost

LEMMA NextIInv == IInv /\ [Next]_vars => IInv'
BY BeginIInv, WriteIInv, FirstQueryIInv, DescribeIInv, PageIInv, RpcFailsIInv, StutterIInv
   DEF Next, ClientStep

THEOREM SpecIInv == Spec => []IInv
BY InitIInv, NextIInv, PTL DEF Spec

\* Every variable of the read keeps its type.
THEOREM TypeCorrect == Spec => []TypeOK
<1>1. IInv => TypeOK
  BY DEF IInv
<1> QED BY <1>1, SpecIInv, PTL

\* While pages are gathered they stay in strict primary-key order and end at
\* the cursor: a concurrent insert or delete can never repeat a row.
THEOREM PagesStayInOrder == Spec => []PagesInOrder
<1>1. IInv => PagesInOrder
  BY DEF IInv
<1> QED BY <1>1, SpecIInv, PTL

\* On a server that pages in key order, a read that returns holds every row
\* that matched throughout it; on any server it repeats and invents none.
THEOREM NoRowLost == Spec => []NothingLost
<1>1. IInv => NothingLost
  BY DEF IInv
<1> QED BY <1>1, SpecIInv, PTL

-----------------------------------------------------------------------------
\* Each step of the chain is a step of CompleteRead or invisible to its caller.
LEMMA StepKeepsPromise ==
  IInv /\ IInv' /\ [Next]_vars => [Promise!CNext]_(Promise!cvars)
<1> SUFFICES ASSUME IInv, IInv', [Next]_vars
             PROVE  [Promise!CNext]_(Promise!cvars)
  OBVIOUS
<1> USE DEF Phase, InFlight, Ended
<1>1. CASE Begin
  <2>1. Promise!CBegin
    BY <1>1 DEF Begin, Promise!CBegin
  <2> QED BY <2>1 DEF Promise!CNext
<1>2. CASE FirstQuery
  <2>1. CASE pc' = "describe"
    BY <1>2, <2>1 DEF FirstQuery, Promise!cvars
  <2>2. CASE pc' # "describe"
    <3>1. /\ pc = "first" /\ pc' = "returned"
          /\ UNCHANGED <<ordered, matching, stable, seen>>
      BY <1>2, <2>2 DEF FirstQuery
    <3>2. NothingLost'
      BY DEF IInv
    <3>3. Promise!CReturn
      BY <3>1, <3>2 DEF Promise!CReturn, Promise!Complete, Promise!Distinct,
                        NothingLost, Distinct, Range, Promise!Range
    <3> QED BY <3>3 DEF Promise!CNext
  <2> QED BY <2>1, <2>2
<1>3. CASE Describe
  BY <1>3 DEF Describe, AfterDescribe, Promise!cvars
<1>4. CASE Page
  <2>0. pc = "page" /\ UNCHANGED <<ordered, matching, stable, seen>>
    BY <1>4 DEF Page
  <2>1. \/ pc' = "unordered" /\ UNCHANGED result
        \/ pc' = "page" /\ UNCHANGED result
        \/ pc' = "returned"
    BY <1>4 DEF Page
  <2>2. CASE pc' = "unordered" /\ UNCHANGED result
    BY <2>0, <2>2 DEF Promise!CRaise, Promise!CNext
  <2>3. CASE pc' = "page" /\ UNCHANGED result
    BY <2>0, <2>3 DEF Promise!cvars
  <2>4. CASE pc' = "returned"
    <3>1. NothingLost'
      BY DEF IInv
    <3>2. Promise!CReturn
      BY <2>0, <2>4, <3>1 DEF Promise!CReturn, Promise!Complete, Promise!Distinct,
                              NothingLost, Distinct, Range, Promise!Range
    <3> QED BY <3>2 DEF Promise!CNext
  <2> QED BY <2>1, <2>2, <2>3, <2>4
<1>5. CASE RpcFails
  BY <1>5 DEF RpcFails, Promise!CRaise, Promise!CNext
<1>6. CASE Write
  <2>1. Promise!CWrite
    BY <1>6 DEF Write, client, Promise!CWrite
  <2> QED BY <2>1 DEF Promise!CNext
<1>7. CASE UNCHANGED vars
  BY <1>7 DEF vars, Promise!cvars
<1> QED BY <1>1, <1>2, <1>3, <1>4, <1>5, <1>6, <1>7 DEF Next, ClientStep

\* The chain of Calls implements the one-step read of CompleteRead, whatever
\* the ceiling, the rows and the writers.
THEOREM ImplementsCompleteRead == Spec => KeepsPromise
<1>1. Init => Promise!CInit
  BY ServerAssumption DEF Init, Promise!CInit, Phase, InFlight
<1> QED BY <1>1, StepKeepsPromise, SpecIInv, PTL DEF Spec, KeepsPromise, Promise!CSpec

-----------------------------------------------------------------------------
(* SelectDispatch, which shares nothing with PagedRead but the modules.    *)

\* The values of an item: a price, a count, or NULL.
Number == Nat \cup {-1}

\* Rows kept by position are rows of the sequence.
LEMMA KeptRows ==
  ASSUME NEW S, NEW s \in Seq(S), NEW P \in SUBSET (1..Len(s))
  PROVE  RowsAt(s, P) \in Seq(S)
<1>1. P \subseteq Nat /\ IsFiniteSet(P) /\ Len(s) \in Nat
  <2>1. Len(s) \in Nat
    OBVIOUS
  <2>2. IsFiniteSet(1..Len(s))
    BY <2>1, FS_Interval
  <2>3. IsFiniteSet(P)
    BY <2>2, FS_Subset
  <2> QED BY <2>1, <2>3
<1> DEFINE kept == InKeyOrder(P)
<1>2. kept \in Seq(P)
  BY <1>1, InKeyOrderFacts
<1>3. RowsAt(s, P) = [k \in 1..Len(kept) |-> s[kept[k]]]
  BY Zenon DEF RowsAt
<1> HIDE DEF kept
<1>4. Len(kept) \in Nat /\ \A k \in 1..Len(kept) : kept[k] \in 1..Len(s)
  <2>1. Len(kept) \in Nat /\ \A k \in 1..Len(kept) : kept[k] \in P
    BY <1>2
  <2> QED BY <2>1
<1>5. \A k \in 1..Len(kept) : s[kept[k]] \in S
  BY <1>4
<1> QED BY <1>3, <1>4, <1>5

LEMMA FilteredRows ==
  ASSUME NEW S, NEW s \in Seq(S), NEW where \in BOOLEAN
  PROVE  Filtered(s, where) \in Seq(S)
<1> DEFINE P == {i \in DOMAIN s : s[i] # None}
<1>1. P \in SUBSET (1..Len(s))
  OBVIOUS
<1>2. Filtered(s, where) = IF where THEN RowsAt(s, P) ELSE s
  BY DEF Filtered
<1> HIDE DEF P
<1>3. RowsAt(s, P) \in Seq(S)
  BY <1>1, KeptRows
<1> QED BY <1>2, <1>3

LEMMA DedupedRows ==
  ASSUME NEW S, NEW s \in Seq(S)
  PROVE  Deduped(s) \in Seq(S)
<1> DEFINE P == {i \in DOMAIN s : \A j \in DOMAIN s : s[j] = s[i] => i <= j}
<1>1. P \in SUBSET (1..Len(s))
  OBVIOUS
<1>2. Deduped(s) = RowsAt(s, P)
  BY DEF Deduped
<1> HIDE DEF P
<1> QED BY <1>1, <1>2, KeptRows

LEMMA FirstRows ==
  ASSUME NEW S, NEW s \in Seq(S), NEW n \in Number
  PROVE  First(s, n) \in Seq(S)
BY DEF First, None, Number

LEMMA AfterRows ==
  ASSUME NEW S, NEW s \in Seq(S), NEW n \in Number
  PROVE  After(s, n) \in Seq(S)
BY DEF After, None, Number

\* LIMIT n of LIMIT n is LIMIT n.
LEMMA FirstTwice ==
  ASSUME NEW S, NEW s \in Seq(S), NEW n \in Number
  PROVE  First(First(s, n), n) = First(s, n)
<1>1. CASE n = None
  BY <1>1 DEF First
<1>2. CASE n # None
  <2> DEFINE m == IF n < Len(s) THEN n ELSE Len(s)
             t == SubSeq(s, 1, m)
  <2>1. n \in Nat /\ Len(s) \in Nat
    BY <1>2 DEF Number, None
  <2>2. m \in Nat /\ m <= Len(s) /\ m <= n
    BY <2>1
  <2>3. \A i \in 1..m : s[i] \in S
    BY <2>1, <2>2
  <2>4. First(s, n) = t
    BY <1>2 DEF First
  <2> HIDE DEF m
  <2>5. t \in Seq(S) /\ Len(t) = m
    BY <2>2, <2>3, SubSeqProperties
  <2> HIDE DEF t
  <2>6. SubSeq(t, 1, IF n < Len(t) THEN n ELSE Len(t)) = t
    <3>1. (IF n < Len(t) THEN n ELSE Len(t)) = Len(t)
      BY <2>1, <2>2, <2>5
    <3> QED BY <2>5, <3>1, SubSeqFull
  <2>7. First(t, n) = t
    BY <1>2, <2>6 DEF First
  <2> QED BY <2>4, <2>7
<1> QED BY <1>1, <1>2

\* LIMIT leaves the single row of an aggregate.
LEMMA FirstOfOne ==
  ASSUME NEW x, NEW n \in Number, n # 0
  PROVE  First(<<x>>, n) = <<x>>
<1>1. CASE n = None
  BY <1>1 DEF First
<1>2. CASE n # None
  <2>1. <<x>> \in Seq({x}) /\ Len(<<x>>) = 1
    OBVIOUS
  <2>2. (IF n < Len(<<x>>) THEN n ELSE Len(<<x>>)) = Len(<<x>>)
    BY <1>2, <2>1 DEF Number, None
  <2>3. SubSeq(<<x>>, 1, Len(<<x>>)) = <<x>>
    BY <2>1, SubSeqFull
  <2> QED BY <1>2, <2>2, <2>3 DEF First
<1> QED BY <1>1, <1>2

\* Rows in the order they are in are in one of their orders.
LEMMA OwnOrder ==
  ASSUME NEW S, NEW s \in Seq(S)
  PROVE  s \in Orders(s)
<1> DEFINE self == [i \in DOMAIN s |-> i]
<1>1. self \in {q \in [DOMAIN s -> DOMAIN s] : IsInjective(q)}
  BY DEF IsInjective
<1>2. s = [i \in DOMAIN s |-> s[self[i]]]
  OBVIOUS
<1> QED BY <1>1, <1>2, Zenon DEF Orders

LEMMA OrderRows ==
  ASSUME NEW S, NEW s \in Seq(S), NEW o \in Orders(s)
  PROVE  o \in Seq(S)
<1>1. PICK p \in [DOMAIN s -> DOMAIN s] : o = [i \in DOMAIN s |-> s[p[i]]]
  BY DEF Orders
<1>2. DOMAIN s = 1..Len(s) /\ Len(s) \in Nat
  OBVIOUS
<1>3. \A i \in 1..Len(s) : s[p[i]] \in S
  BY <1>2
<1> QED BY <1>1, <1>2, <1>3

LEMMA OrderedRows ==
  ASSUME NEW S, NEW s \in Seq(S), NEW order \in {"none", "asc", "desc", "ann", "hybrid"},
         NEW o \in Ordered(s, order)
  PROVE  o \in Seq(S)
<1>1. o \in Orders(s) \/ o = s
  <2>1. CASE order \in {"none", "hybrid"}
    BY <2>1 DEF Ordered
  <2>2. CASE order = "ann"
    BY <2>2 DEF Ordered
  <2>3. CASE order \in {"asc", "desc"}
    BY <2>3 DEF Ordered
  <2> QED BY <2>1, <2>2, <2>3
<1> QED BY <1>1, OrderRows

\* The largest of some rows is one of them.
LEMMA LargestRow ==
  ASSUME NEW s \in Seq(Number), s # << >>
  PROVE  \E m \in DOMAIN s : \A i \in DOMAIN s : s[i] <= s[m]
<1> DEFINE T == {n \in Nat : 1 <= n /\ n <= Len(s) =>
                               \E m \in 1..n : \A i \in 1..n : s[i] <= s[m]}
<1>1. 0 \in T
  OBVIOUS
<1>2. ASSUME NEW n \in Nat, n \in T PROVE n+1 \in T
  <2> SUFFICES ASSUME n+1 <= Len(s)
               PROVE  \E m \in 1..n+1 : \A i \in 1..n+1 : s[i] <= s[m]
    OBVIOUS
  <2>0. \A i \in 1..n+1 : s[i] \in Int
    BY DEF Number
  <2>1. CASE n = 0
    <3>1. \A i \in 1..n+1 : i = 1 /\ s[i] <= s[1]
      BY <2>0, <2>1
    <3> QED BY <2>1, <3>1
  <2>2. CASE n # 0
    <3>1. PICK m \in 1..n : \A i \in 1..n : s[i] <= s[m]
      BY <1>2, <2>2
    <3>2. CASE s[n+1] <= s[m]
      <4>1. \A i \in 1..n+1 : s[i] <= s[m]
        <5> TAKE i \in 1..n+1
        <5>1. i \in 1..n \/ i = n+1
          OBVIOUS
        <5> QED BY <3>1, <3>2, <5>1
      <4> QED BY <4>1
    <3>3. CASE ~(s[n+1] <= s[m])
      <4>1. \A i \in 1..n+1 : s[i] <= s[n+1]
        <5> TAKE i \in 1..n+1
        <5>1. i \in 1..n \/ i = n+1
          OBVIOUS
        <5>2. s[n+1] \in Int /\ s[m] \in Int /\ s[i] \in Int
          BY <2>0
        <5>3. CASE i \in 1..n
          <6>1. s[i] <= s[m]
            BY <3>1, <5>3
          <6> QED BY <3>3, <5>2, <6>1
        <5> QED BY <5>1, <5>2, <5>3
      <4> QED BY <4>1
    <3> QED BY <3>2, <3>3
  <2> QED BY <2>1, <2>2
<1>3. Nat \subseteq T
  <2> HIDE DEF T
  <2> QED BY <1>1, <1>2, NatSetInduction
<1>4. Len(s) \in Nat /\ 1 <= Len(s) /\ DOMAIN s = 1..Len(s)
  OBVIOUS
<1>5. Len(s) \in T
  <2> HIDE DEF T
  <2> QED BY <1>3, <1>4
<1> QED BY <1>4, <1>5

LEMMA AggregateRow ==
  ASSUME NEW s \in Seq(Number), NEW item \in {"count", "max"}
  PROVE  Aggregate(s, item) \in Number
<1> DEFINE known == Range(s) \ {None}
           max == CHOOSE m \in known : \A x \in known : x <= m
<1>1. CASE item = "count"
  BY <1>1 DEF Aggregate, Number
<1>2. CASE item = "max" /\ known = {}
  BY <1>2 DEF Aggregate, Number, None
<1>3. CASE item = "max" /\ known # {}
  <2>1. Aggregate(s, item) = max
    BY <1>3 DEF Aggregate
  <2>2. Range(s) = {s[i] : i \in DOMAIN s}
    BY DEF Range
  <2>3. DOMAIN s # {} /\ s # << >>
    BY <1>3, <2>2
  <2>4. PICK i \in DOMAIN s : \A j \in DOMAIN s : s[j] <= s[i]
    BY <2>3, LargestRow
  <2>5. PICK j \in DOMAIN s : s[j] # None
    BY <1>3, <2>2
  <2>6. s[i] # None
    <3>1. s[j] \in Number /\ s[i] \in Number /\ s[j] <= s[i]
      BY <2>4
    <3> QED BY <2>5, <3>1 DEF Number, None
  <2>7. s[i] \in known /\ \A x \in known : x <= s[i]
    BY <2>2, <2>4, <2>6
  <2>8. max \in known
    <3> HIDE DEF known
    <3> QED BY <2>7
  <2>9. known \subseteq Number
    BY <2>2
  <2> QED BY <2>1, <2>8, <2>9
<1> QED BY <1>1, <1>2, <1>3

LEMMA SelectFields ==
  ASSUME NEW q \in Selects
  PROVE  /\ q.item \in {"price", "count", "max"} /\ q.where \in BOOLEAN
         /\ q.order \in {"none", "asc", "desc", "ann", "hybrid"}
         /\ q.limit \in Number /\ q.limit # 0 /\ q.offset \in Number
         /\ q.distinct \in BOOLEAN
BY DEF Selects, None, Number

\* What the clauses leave of some rows are rows.
LEMMA ClausesRows ==
  ASSUME NEW q \in Selects, NEW s \in Seq(Number)
  PROVE  Clauses(q, s) \in Seq(Number)
<1> DEFINE out == IF q.item = "price" THEN s ELSE <<Aggregate(s, q.item)>>
           unique == IF q.distinct THEN Deduped(out) ELSE out
           rest == After(unique, q.offset)
<1>1. out \in Seq(Number)
  <2>1. CASE q.item = "price"
    BY <2>1
  <2>2. CASE q.item # "price"
    <3>1. Aggregate(s, q.item) \in Number
      BY <2>2, SelectFields, AggregateRow
    <3> QED BY <2>2, <3>1
  <2> QED BY <2>1, <2>2
<1>2. Clauses(q, s) = First(rest, q.limit)
  BY DEF Clauses
<1> HIDE DEF out
<1>3. unique \in Seq(Number)
  BY <1>1, DedupedRows
<1> HIDE DEF unique
<1>4. rest \in Seq(Number)
  BY <1>3, SelectFields, AfterRows
<1> HIDE DEF rest
<1> QED BY <1>2, <1>4, SelectFields, FirstRows

\* The relational engine applies the clauses in SQL's order.
LEMMA EngineAppliesClauses ==
  ASSUME NEW q \in Selects, NEW s
  PROVE  Evaluated(q, s) = Clauses(q, s)
<1> DEFINE out == IF q.item = "price" THEN s ELSE <<Aggregate(s, q.item)>>
           unique == IF q.distinct THEN Deduped(out) ELSE out
           sliced == IF q.offset > 0 THEN After(unique, q.offset) ELSE unique
<1>1. Evaluated(q, s) = First(sliced, q.limit)
  BY DEF Evaluated
<1>2. Clauses(q, s) = First(After(unique, q.offset), q.limit)
  BY DEF Clauses
<1> HIDE DEF unique
<1>3. sliced = After(unique, q.offset)
  <2>1. q.offset \in Number
    BY SelectFields
  <2>2. CASE q.offset \in {None, 0}
    <3>1. ~(q.offset > 0)
      BY <2>2 DEF None
    <3>2. After(unique, q.offset) = unique
      BY <2>2 DEF After
    <3> QED BY <3>1, <3>2
  <2>3. CASE q.offset \notin {None, 0}
    <3>1. q.offset > 0
      BY <2>1, <2>3 DEF None, Number
    <3> QED BY <3>1
  <2> QED BY <2>2, <2>3
<1> HIDE DEF sliced
<1> QED BY <1>1, <1>2, <1>3

\* What the relational engine answers are rows.
LEMMA RelationalRows ==
  ASSUME NEW q \in Selects, NEW s \in Seq(Number), NEW r \in RelationalAnswers(q, s)
  PROVE  r \in Seq(Number)
<1> DEFINE F == Filtered(s, q.where)
           read == IF q.order = "ann" THEN First(F, q.limit) ELSE F
<1>1. F \in Seq(Number)
  BY SelectFields, FilteredRows
<1>2. r \in {Evaluated(q, o) : o \in Ordered(read, q.order)}
  BY DEF RelationalAnswers
<1> HIDE DEF F
<1>3. read \in Seq(Number)
  BY <1>1, SelectFields, FirstRows
<1> HIDE DEF read
<1>4. PICK o \in Ordered(read, q.order) : r = Evaluated(q, o)
  BY <1>2
<1>5. o \in Seq(Number)
  BY <1>3, SelectFields, OrderedRows
<1> QED BY <1>4, <1>5, EngineAppliesClauses, ClausesRows

\* The relational engine answers a SELECT it carries through as SQL does.
LEMMA RelationalIsSQL ==
  ASSUME NEW q \in Selects, CarriedByEngine(q), NEW s \in Seq(Number),
         NEW r \in RelationalAnswers(q, s)
  PROVE  r \in Answers(q, s)
<1> DEFINE F == Filtered(s, q.where)
           read == IF q.order = "ann" THEN First(F, q.limit) ELSE F
<1>1. F \in Seq(Number)
  BY SelectFields, FilteredRows
<1>2. r \in {Evaluated(q, o) : o \in Ordered(read, q.order)}
  BY DEF RelationalAnswers
<1>3. Answers(q, s) = {Clauses(q, o) : o \in Ordered(F, q.order)}
  BY DEF Answers
<1> HIDE DEF F
<1>4. PICK o \in Ordered(read, q.order) : r = Evaluated(q, o)
  BY <1>2
<1>5. r = Clauses(q, o)
  BY <1>4, EngineAppliesClauses
<1>6. CASE q.order # "ann"
  BY <1>3, <1>4, <1>5, <1>6
<1>7. CASE q.order = "ann"
  <2>1. o = First(F, q.limit) /\ F \in Ordered(F, q.order)
    BY <1>4, <1>7 DEF Ordered
  <2>2. q.item = "price" /\ ~q.distinct /\ q.offset \in {None, 0}
    BY <1>7, SelectFields DEF CarriedByEngine, Legal
  <2>3. \A x : Clauses(q, x) = First(x, q.limit)
    <3> TAKE x
    <3>1. Clauses(q, x) = First(After(x, q.offset), q.limit)
      BY <2>2 DEF Clauses
    <3>2. After(x, q.offset) = x
      BY <2>2 DEF After
    <3> QED BY <3>1, <3>2
  <2>4. r = First(First(F, q.limit), q.limit)
    BY <1>5, <2>1, <2>3
  <2>5. r = Clauses(q, F)
    BY <1>1, <2>3, <2>4, SelectFields, FirstTwice
  <2> QED BY <1>3, <2>1, <2>5
<1> QED BY <1>6, <1>7

LEMMA Paths ==
  ASSUME NEW q \in Selects, NEW nested \in BOOLEAN
  PROVE  /\ q.order = "hybrid" => Path(q, nested) = "hybrid"
         /\ q.order # "hybrid" /\ NeedsRelationalEngine(q, nested)
              => Path(q, nested) = "relational"
         /\ q.order # "hybrid" /\ ~NeedsRelationalEngine(q, nested)
              => Path(q, nested) = IF q.item # "price" THEN "aggregate"
                                          ELSE IF q.order = "ann" THEN "search" ELSE "query"
<1> DEFINE hybrid == q.order = "hybrid"
           engine == NeedsRelationalEngine(q, nested)
           alone == IF q.item # "price" THEN "aggregate"
                    ELSE IF q.order = "ann" THEN "search" ELSE "query"
<1>1. Path(q, nested) = CASE hybrid -> "hybrid"
                                 [] ~hybrid /\ engine -> "relational"
                                 [] ~hybrid /\ ~engine -> alone
  BY DEF Path
<1> HIDE DEF hybrid, engine, alone
<1>2. /\ hybrid => Path(q, nested) = "hybrid"
      /\ ~hybrid /\ engine => Path(q, nested) = "relational"
      /\ ~hybrid /\ ~engine => Path(q, nested) = alone
  BY ONLY <1>1
<1> QED BY <1>2 DEF hybrid, engine, alone

LEMMA AnswersOfPaths ==
  ASSUME NEW q, NEW s
  PROVE  /\ PathAnswers("hybrid", q, s) = HybridAnswers(q, s)
         /\ PathAnswers("relational", q, s) = RelationalAnswers(q, s)
         /\ PathAnswers("aggregate", q, s) = AggregateAnswers(q, s)
         /\ PathAnswers("search", q, s) = SearchAnswers(q, s)
         /\ PathAnswers("query", q, s) = PlainAnswers(q, s)
BY DEF PathAnswers

\* HYBRID SEARCH with a LIMIT answers as SQL does.
LEMMA HybridIsSQL ==
  ASSUME NEW q \in Selects, CarriedAlone(q), q.order = "hybrid",
         NEW s, NEW r \in HybridAnswers(q, s)
  PROVE  r \in Answers(q, s)
<1> DEFINE F == Filtered(s, q.where)
<1>1. q.item = "price" /\ ~q.distinct /\ q.offset = None /\ q.limit # None
  BY SelectFields DEF CarriedAlone, CarriedByEngine, Legal,
                      NeedsRelationalEngine
<1>2. \A o : Clauses(q, o) = First(o, q.limit)
  BY <1>1 DEF Clauses, After
<1>3. Ordered(F, q.order) = Orders(F)
  BY DEF Ordered
<1>4. PICK o \in Orders(F) : r = First(o, q.limit)
  BY <1>1 DEF HybridAnswers, RowLimit
<1> QED BY <1>2, <1>3, <1>4 DEF Answers

\* So does a vector search with a LIMIT.
LEMMA SearchIsSQL ==
  ASSUME NEW q \in Selects, CarriedAlone(q), q.order = "ann",
         ~NeedsRelationalEngine(q, FALSE),
         NEW s, NEW r \in SearchAnswers(q, s)
  PROVE  r \in Answers(q, s)
<1> DEFINE F == Filtered(s, q.where)
<1>1. q.item = "price" /\ ~q.distinct /\ q.offset = None /\ q.limit # None
  BY SelectFields DEF CarriedAlone, CarriedByEngine, Legal,
                      NeedsRelationalEngine
<1>2. Clauses(q, F) = First(F, q.limit)
  BY <1>1 DEF Clauses, After
<1>3. F \in Ordered(F, q.order)
  BY DEF Ordered
<1>4. r = First(F, q.limit)
  BY <1>1 DEF SearchAnswers, RowLimit
<1> QED BY <1>2, <1>3, <1>4 DEF Answers

\* So does an aggregate, whatever LIMIT says of its one row.
LEMMA AggregateIsSQL ==
  ASSUME NEW q \in Selects, CarriedAlone(q), q.item # "price",
         ~NeedsRelationalEngine(q, FALSE),
         NEW s \in Seq(Number), NEW r \in AggregateAnswers(q, s)
  PROVE  r \in Answers(q, s)
<1> DEFINE F == Filtered(s, q.where)
<1>1. q.order = "none" /\ ~q.distinct /\ q.offset = None
  BY DEF CarriedAlone, CarriedByEngine, Legal,
         NeedsRelationalEngine
<1>2. Clauses(q, F) = First(<<Aggregate(F, q.item)>>, q.limit)
  BY <1>1 DEF Clauses, After
<1>3. Clauses(q, F) = <<Aggregate(F, q.item)>>
  BY <1>2, SelectFields, FirstOfOne
<1>4. Ordered(F, q.order) = Orders(F)
  BY <1>1 DEF Ordered
<1>5. F \in Orders(F)
  <2>1. F \in Seq(Number)
    BY SelectFields, FilteredRows
  <2> QED BY <2>1, OwnOrder
<1>6. r = <<Aggregate(F, q.item)>>
  BY DEF AggregateAnswers
<1> QED BY <1>3, <1>4, <1>5, <1>6 DEF Answers

\* So does a paged read, and one that is ordered in the client under a LIMIT.
LEMMA QueryIsSQL ==
  ASSUME NEW q \in Selects, CarriedAlone(q), q.item = "price",
         q.order \in {"none", "asc", "desc"}, ~NeedsRelationalEngine(q, FALSE),
         NEW s, NEW r \in PlainAnswers(q, s)
  PROVE  r \in Answers(q, s)
<1> DEFINE F == Filtered(s, q.where)
<1>1. ~q.distinct /\ q.offset = None
  BY DEF NeedsRelationalEngine
<1>2. \A o : Clauses(q, o) = First(o, q.limit)
  BY <1>1 DEF Clauses, After
<1>3. PICK o \in Ordered(F, q.order) : r = First(o, q.limit)
  <2>1. CASE q.order = "none"
    <3>1. Ordered(F, q.order) = Orders(F)
      BY <2>1 DEF Ordered
    <3> QED BY <2>1, <3>1 DEF PlainAnswers
  <2>2. CASE q.order # "none"
    <3>1. RowLimit(q) = q.limit
      BY <1>1, <2>2 DEF CarriedAlone, RowLimit
    <3> QED BY <2>2, <3>1 DEF PlainAnswers
  <2> QED BY <2>1, <2>2
<1> QED BY <1>2, <1>3 DEF Answers

\* A SELECT of one collection: each path carries through what it is given.
LEMMA AloneIsSQL ==
  ASSUME NEW q \in Selects, CarriedAlone(q), NEW s \in Seq(Number),
         NEW r \in PathAnswers(Path(q, FALSE), q, s)
  PROVE  r \in Answers(q, s)
<1>1. CASE q.order = "hybrid"
  BY <1>1, Paths, AnswersOfPaths, HybridIsSQL
<1>2. CASE q.order # "hybrid" /\ NeedsRelationalEngine(q, FALSE)
  <2>1. r \in RelationalAnswers(q, s)
    BY <1>2, Paths, AnswersOfPaths
  <2> QED BY <2>1, RelationalIsSQL DEF CarriedAlone
<1>3. CASE q.order # "hybrid" /\ ~NeedsRelationalEngine(q, FALSE)
  <2>1. CASE q.item # "price"
    BY <1>3, <2>1, Paths, AnswersOfPaths, AggregateIsSQL
  <2>2. CASE q.item = "price" /\ q.order = "ann"
    BY <1>3, <2>2, Paths, AnswersOfPaths, SearchIsSQL
  <2>3. CASE q.item = "price" /\ q.order # "ann"
    <3>1. q.order \in {"none", "asc", "desc"}
      BY <1>3, <2>3, SelectFields
    <3> QED BY <1>3, <2>3, <3>1, Paths, AnswersOfPaths, QueryIsSQL
  <2> QED BY <2>1, <2>2, <2>3
<1> QED BY <1>1, <1>2, <1>3

\* What a path answers are rows.
LEMMA PathRows ==
  ASSUME NEW q \in Selects, NEW s \in Seq(Number),
         NEW r \in PathAnswers(Path(q, FALSE), q, s)
  PROVE  r \in Seq(Number)
<1> DEFINE F == Filtered(s, q.where)
<1>1. F \in Seq(Number)
  BY SelectFields, FilteredRows
<1>2. RowLimit(q) \in Number /\ q.limit \in Number
  BY SelectFields, BoundsAssumption DEF RowLimit, Number
<1>3. \A o \in Orders(F) : o \in Seq(Number)
  <2> HIDE DEF F
  <2> QED BY <1>1, OrderRows
<1>4. \A o \in Ordered(F, q.order) : o \in Seq(Number)
  <2> HIDE DEF F
  <2> QED BY <1>1, SelectFields, OrderedRows
<1>5. CASE q.order = "hybrid"
  <2>1. r \in HybridAnswers(q, s)
    BY <1>5, Paths, AnswersOfPaths
  <2>2. PICK o \in Orders(F) : r = First(o, RowLimit(q))
    BY <2>1 DEF HybridAnswers
  <2> QED BY <1>2, <1>3, <2>2, FirstRows
<1>6. CASE q.order # "hybrid" /\ NeedsRelationalEngine(q, FALSE)
  <2>1. r \in RelationalAnswers(q, s)
    BY <1>6, Paths, AnswersOfPaths
  <2> QED BY <2>1, RelationalRows
<1>7. CASE q.order # "hybrid" /\ ~NeedsRelationalEngine(q, FALSE)
  <2>1. CASE q.item # "price"
    <3>1. r \in AggregateAnswers(q, s)
      BY <1>7, <2>1, Paths, AnswersOfPaths
    <3>2. r = <<Aggregate(F, q.item)>>
      BY <3>1 DEF AggregateAnswers
    <3>3. Aggregate(F, q.item) \in Number
      <4> HIDE DEF F
      <4> QED BY <1>1, <2>1, SelectFields, AggregateRow
    <3> QED BY <3>2, <3>3
  <2>2. CASE q.item = "price" /\ q.order = "ann"
    <3>1. r \in SearchAnswers(q, s)
      BY <1>7, <2>2, Paths, AnswersOfPaths
    <3>2. r = First(F, RowLimit(q))
      BY <3>1 DEF SearchAnswers
    <3> HIDE DEF F
    <3> QED BY <1>1, <1>2, <3>2, FirstRows
  <2>3. CASE q.item = "price" /\ q.order # "ann"
    <3>1. r \in PlainAnswers(q, s)
      BY <1>7, <2>3, Paths, AnswersOfPaths
    <3>2. CASE q.order = "none"
      <4>1. PICK o \in Orders(F) : r = First(o, q.limit)
        BY <3>1, <3>2 DEF PlainAnswers
      <4> QED BY <1>2, <1>3, <4>1, FirstRows
    <3>3. CASE q.order # "none"
      <4>1. PICK o \in Ordered(F, q.order) : r = First(o, RowLimit(q))
        BY <3>1, <3>3 DEF PlainAnswers
      <4> QED BY <1>2, <1>4, <4>1, FirstRows
    <3> QED BY <3>2, <3>3
  <2> QED BY <2>1, <2>2, <2>3
<1> QED BY <1>5, <1>6, <1>7

\* The three shapes a statement can have.
LEMMA StatementCases ==
  ASSUME NEW st, NEW s
  PROVE  /\ ~st.nested => CodeAnswers(st, s)
                            = PathAnswers(Path(st.outer, FALSE), st.outer, s)
         /\ ~st.nested => (Carried(st) <=> CarriedAlone(st.outer))
         /\ Flattens(st) =>
              CodeAnswers(st, s)
                = PathAnswers(Path(st.outer, FALSE), st.outer,
                                     Filtered(s, st.inner.where))
         /\ Flattens(st) =>
              (Carried(st) <=> /\ CarriedAlone(st.outer)
                                      /\ st.inner.item = "price"
                                      /\ st.inner.offset \in {None, 0})
         /\ st.nested /\ ~Flattens(st) =>
              CodeAnswers(st, s)
                = UNION {RelationalAnswers(Unranked(st.outer), o) :
                           o \in RelationalAnswers(st.inner, s)}
         /\ st.nested /\ ~Flattens(st) =>
              (Carried(st) <=>
                 /\ \A q \in {st.inner, st.outer} : CarriedByEngine(q) /\ q.order # "hybrid"
                 /\ st.outer.order # "ann")
<1>1. Flattens(st) => st.nested
  BY DEF Flattens
<1>2. CASE ~st.nested
  BY <1>1, <1>2, Zenon DEF CodeAnswers, Carried
<1>3. CASE Flattens(st)
  BY <1>1, <1>3, Zenon DEF CodeAnswers, Carried
<1>4. CASE st.nested /\ ~Flattens(st)
  BY <1>1, <1>4, Zenon DEF CodeAnswers, Carried
<1> QED BY <1>1, <1>2, <1>3, <1>4

LEMMA UnrankedSelect ==
  ASSUME NEW q \in Selects
  PROVE  Unranked(q) \in Selects
BY DEF Unranked, Selects

\* What a statement answers are rows.
LEMMA CodeRows ==
  ASSUME NEW st, StatementShape(st),
         NEW s \in Seq(Number), NEW r \in CodeAnswers(st, s)
  PROVE  r \in Seq(Number)
<1>1. /\ st.outer \in Selects /\ st.inner \in Selects
      /\ st.nested \in BOOLEAN /\ st.inner.where \in BOOLEAN
  BY SelectFields DEF StatementShape
<1>2. CASE ~st.nested
  <2>1. r \in PathAnswers(Path(st.outer, FALSE), st.outer, s)
    BY <1>2, StatementCases
  <2> QED BY <1>1, <2>1, PathRows
<1>3. CASE Flattens(st)
  <2> DEFINE t == Filtered(s, st.inner.where)
  <2>1. r \in PathAnswers(Path(st.outer, FALSE), st.outer, t)
    BY <1>3, StatementCases
  <2>2. t \in Seq(Number)
    BY <1>1, FilteredRows
  <2> HIDE DEF t
  <2> QED BY <1>1, <2>1, <2>2, PathRows
<1>4. CASE st.nested /\ ~Flattens(st)
  <2>1. CodeAnswers(st, s) = UNION {RelationalAnswers(Unranked(st.outer), o) :
                                             o \in RelationalAnswers(st.inner, s)}
    BY <1>4, StatementCases
  <2>2. PICK o \in RelationalAnswers(st.inner, s) :
          r \in RelationalAnswers(Unranked(st.outer), o)
    BY <2>1
  <2>3. o \in Seq(Number)
    BY <1>1, <2>2, RelationalRows
  <2>4. Unranked(st.outer) \in Selects
    BY <1>1, UnrankedSelect
  <2> QED BY <2>2, <2>3, <2>4, RelationalRows
<1> QED BY <1>2, <1>3, <1>4

\* A subquery that is flattened means its WHERE.
LEMMA FlattenedMeaning ==
  ASSUME NEW st, StatementShape(st), Flattens(st),
         st.inner.item = "price", st.inner.offset \in {None, 0},
         NEW s \in Seq(Number)
  PROVE  Filtered(s, st.inner.where) \in Answers(st.inner, s)
<1> DEFINE F == Filtered(s, st.inner.where)
           q == st.inner
<1>1. q.order = "none" /\ q.limit = None /\ ~q.distinct
  BY DEF Flattens
<1>2. Clauses(q, F) = F
  BY <1>1 DEF Clauses, First, After
<1>3. F \in Seq(Number)
  <2>1. st.inner \in Selects
    BY DEF StatementShape
  <2> QED BY <2>1, SelectFields, FilteredRows
<1>4. F \in Ordered(F, q.order)
  <2>1. F \in Orders(F)
    <3> HIDE DEF F
    <3> QED BY <1>3, OwnOrder
  <2> QED BY <1>1, <2>1 DEF Ordered
<1> QED BY <1>2, <1>4 DEF Answers

\* A statement whose clauses are carried through answers as SQL does.
LEMMA CodeIsSQL ==
  ASSUME NEW st, StatementShape(st), Carried(st),
         NEW s \in Seq(Number), NEW r \in CodeAnswers(st, s)
  PROVE  r \in Meaning(st, s)
<1>1. /\ st.outer \in Selects /\ st.inner \in Selects
      /\ st.nested \in BOOLEAN /\ st.inner.where \in BOOLEAN
  BY SelectFields DEF StatementShape
<1>2. CASE ~st.nested
  <2>1. /\ r \in PathAnswers(Path(st.outer, FALSE), st.outer, s)
        /\ CarriedAlone(st.outer)
    BY <1>2, StatementCases
  <2>2. r \in Answers(st.outer, s)
    BY <1>1, <2>1, AloneIsSQL
  <2> QED BY <1>2, <2>2 DEF Meaning
<1>3. CASE Flattens(st)
  <2> DEFINE t == Filtered(s, st.inner.where)
  <2>1. /\ r \in PathAnswers(Path(st.outer, FALSE), st.outer, t)
        /\ CarriedAlone(st.outer)
        /\ st.inner.item = "price" /\ st.inner.offset \in {None, 0}
    BY <1>3, StatementCases
  <2>2. t \in Answers(st.inner, s)
    BY <1>3, <2>1, FlattenedMeaning
  <2>3. t \in Seq(Number)
    BY <1>1, FilteredRows
  <2> HIDE DEF t
  <2>4. r \in Answers(st.outer, t)
    BY <1>1, <2>1, <2>3, AloneIsSQL
  <2>5. st.nested
    BY <1>3 DEF Flattens
  <2> QED BY <2>2, <2>4, <2>5 DEF Meaning
<1>4. CASE st.nested /\ ~Flattens(st)
  <2>1. CodeAnswers(st, s) = UNION {RelationalAnswers(Unranked(st.outer), o) :
                                             o \in RelationalAnswers(st.inner, s)}
    BY <1>4, StatementCases
  <2>2. /\ CarriedByEngine(st.inner) /\ CarriedByEngine(st.outer)
        /\ st.outer.order # "ann"
    BY <1>4, StatementCases
  <2>3. PICK o \in RelationalAnswers(st.inner, s) :
          r \in RelationalAnswers(Unranked(st.outer), o)
    BY <2>1
  <2>4. Unranked(st.outer) = st.outer
    BY <2>2 DEF Unranked
  <2>5. o \in Answers(st.inner, s) /\ o \in Seq(Number)
    BY <1>1, <2>2, <2>3, RelationalIsSQL, RelationalRows
  <2>6. r \in Answers(st.outer, o)
    BY <1>1, <2>2, <2>3, <2>4, <2>5, RelationalIsSQL
  <2> QED BY <1>4, <2>5, <2>6 DEF Meaning
<1> QED BY <1>2, <1>3, <1>4

\* The paths that put a statement's level into the RPC.
LEMMA CarriedLevel ==
  ASSUME NEW st, StatementShape(st), CarriesLevel(st)
  PROVE  ClauseLevel(st) = st.level
<1>1. st.outer \in Selects /\ st.nested \in BOOLEAN
  BY DEF StatementShape
<1> DEFINE nested == st.nested /\ ~Flattens(st)
<1>2. nested \in BOOLEAN /\ st.outer.order # "hybrid"
  BY <1>1 DEF CarriesLevel
<1>3. CASE NeedsRelationalEngine(st.outer, nested)
  <2>1. Path(st.outer, nested) = "relational"
    BY <1>1, <1>2, <1>3, Paths
  <2> QED BY <2>1 DEF ClauseLevel
<1>4. CASE ~NeedsRelationalEngine(st.outer, nested)
  <2>1. st.outer.order = "ann" /\ st.outer.item = "price"
    BY <1>4 DEF CarriesLevel, NeedsRelationalEngine
  <2>2. Path(st.outer, nested) = "search"
    BY <1>1, <1>2, <1>4, <2>1, Paths
  <2> QED BY <2>2 DEF ClauseLevel
<1> QED BY <1>3, <1>4

-----------------------------------------------------------------------------
\* A statement is one step: the properties are inductive as they stand.
SelectIInv == SelectTypeOK /\ AnswersAreSQL /\ LevelHonoured

LEMMA NumberRows ==
  ASSUME NEW s \in Seq(Prices \cup {None})
  PROVE  s \in Seq(Number)
<1>1. Prices \cup {None} \subseteq Number
  BY PricesAssumption DEF Number, None
<1> QED BY <1>1, SeqMonotonic

LEMMA SelectInitIInv == SelectInit => SelectIInv
<1> SUFFICES ASSUME SelectInit PROVE SelectIInv
  OBVIOUS
<1>1. table \in Seq(Prices \cup {None})
  <2>1. PICK m \in 0..MaxRows : table \in [1..m -> Prices \cup {None}]
    BY BoundsAssumption DEF SelectInit, SeqOf
  <2>2. m \in Nat
    BY <2>1, BoundsAssumption
  <2> QED BY <2>1, <2>2
<1>2. StatementShape(stmt) /\ connection \in Levels
  BY StatementsAssumption, LevelsAssumption DEF SelectInit
<1>3. phase = "ready" /\ used = Unset /\ answer = << >>
  BY DEF SelectInit
<1>4. SelectTypeOK
  BY <1>1, <1>2, <1>3 DEF SelectTypeOK, Levels
<1> QED BY <1>3, <1>4 DEF SelectIInv, AnswersAreSQL, LevelHonoured

LEMMA ExecuteIInv == SelectIInv /\ Execute => SelectIInv'
<1> SUFFICES ASSUME SelectIInv, Execute PROVE SelectIInv'
  OBVIOUS
<1>1. /\ table \in Seq(Number) /\ StatementShape(stmt) /\ connection \in Levels
      /\ answer \in Seq(Number) /\ stmt.level \in Levels
  BY NumberRows DEF SelectIInv, SelectTypeOK, StatementShape, Number, None
<1>2. UNCHANGED <<table, connection, stmt>>
  BY DEF Execute
<1>3. used' = SentLevel(ClauseLevel(stmt), connection)
  BY DEF Execute
<1>4. \/ phase' = "raised" /\ answer' = answer
      \/ phase' = "done" /\ answer' \in CodeAnswers(stmt, table)
  BY DEF Execute
<1>5. phase' \in {"done", "raised"} /\ answer' \in Seq(Number)
  BY <1>1, <1>4, CodeRows
<1>6. ClauseLevel(stmt) \in {stmt.level, Unset}
  BY DEF ClauseLevel
<1>7. SelectTypeOK'
  <2>1. used' \in Levels
    BY <1>1, <1>3, <1>6 DEF SentLevel, Levels
  <2>2. table' \in Seq(Prices \cup {None}) /\ connection' \in Levels
        /\ StatementShape(stmt)'
    BY <1>2 DEF SelectIInv, SelectTypeOK, StatementShape
  <2> QED BY <1>5, <2>1, <2>2 DEF SelectTypeOK, Number, None
<1>8. AnswersAreSQL'
  <2> SUFFICES ASSUME phase' = "done", Carried(stmt')
               PROVE  answer' \in Meaning(stmt', table')
    BY DEF AnswersAreSQL
  <2>1. answer' \in CodeAnswers(stmt, table)
    BY <1>4
  <2>2. stmt' = stmt /\ table' = table
    BY <1>2
  <2>3. Carried(stmt)
    BY <2>2
  <2>4. answer' \in Meaning(stmt, table)
    BY <1>1, <2>1, <2>3, CodeIsSQL
  <2> QED BY <2>2, <2>4
<1>9. LevelHonoured'
  <2> SUFFICES ASSUME (stmt.level # Unset => CarriesLevel(stmt))
               PROVE  used' = IF stmt.level # Unset THEN stmt.level ELSE connection
    BY <1>2 DEF LevelHonoured
  <2>1. ClauseLevel(stmt) = stmt.level
    <3>1. CASE stmt.level # Unset
      BY <1>1, <3>1, CarriedLevel
    <3>2. CASE stmt.level = Unset
      BY <1>6, <3>2
    <3> QED BY <3>1, <3>2
  <2> QED BY <1>3, <2>1 DEF SentLevel
<1> QED BY <1>7, <1>8, <1>9 DEF SelectIInv

LEMMA SelectNextIInv == SelectIInv /\ [SelectNext]_selectVars => SelectIInv'
<1> SUFFICES ASSUME SelectIInv, [SelectNext]_selectVars PROVE SelectIInv'
  OBVIOUS
<1>1. CASE Execute
  BY <1>1, ExecuteIInv
<1>2. CASE ReadFails
  BY <1>2 DEF ReadFails, SelectIInv, SelectTypeOK, StatementShape,
              AnswersAreSQL, LevelHonoured
<1>3. CASE UNCHANGED selectVars
  <2>1. UNCHANGED <<table, connection, stmt, phase, used, answer>>
    BY <1>3 DEF selectVars
  <2> QED BY <2>1 DEF SelectIInv, SelectTypeOK, StatementShape,
                      AnswersAreSQL, LevelHonoured
<1> QED BY <1>1, <1>2, <1>3 DEF SelectNext

\* The inductive invariant of SelectDispatch.
THEOREM SelectSpecIInv == SelectSpec => []SelectIInv
BY SelectInitIInv, SelectNextIInv, PTL DEF SelectSpec

\* Every variable of the dispatch keeps its type; whatever path is taken, an
\* answer is rows of numbers and NULLs.
THEOREM SelectTypeCorrect == SelectSpec => []SelectTypeOK
<1>1. SelectIInv => SelectTypeOK
  BY DEF SelectIInv
<1> QED BY <1>1, SelectSpecIInv, PTL

\* Whatever path a statement takes and whatever order the server sends rows in,
\* a statement whose clauses are carried through answers as SQL does.
THEOREM SelectsAnswerAsSQL == SelectSpec => []AnswersAreSQL
<1>1. SelectIInv => AnswersAreSQL
  BY DEF SelectIInv
<1> QED BY <1>1, SelectSpecIInv, PTL

\* A read is sent with its own CONSISTENCY LEVEL, else the connection's.
THEOREM LevelsHonoured == SelectSpec => []LevelHonoured
<1>1. SelectIInv => LevelHonoured
  BY DEF SelectIInv
<1> QED BY <1>1, SelectSpecIInv, PTL
==============================================================================
