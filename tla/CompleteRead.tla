---------------------------- MODULE CompleteRead ----------------------------
(***************************************************************************)
(* What a read with no row ceiling promises its caller, whatever RPCs it   *)
(* takes (README.md, "Reads page past Milvus's 16384-row per-call          *)
(* ceiling"): the rows it returns are distinct, each of them matched at    *)
(* some moment of the read, and every row that matched from the start to   *)
(* the end of the read is among them.  Rows written during the read may or *)
(* may not appear: no snapshot spans the RPCs.  A read may also fail, and  *)
(* then it returns nothing.  A server that cannot page in primary-key      *)
(* order is promised less: no repeated and no invented row.                *)
(***************************************************************************)
EXTENDS Integers, Sequences, SequencesExt

CONSTANT Keys          \* primary keys, totally ordered

VARIABLES
  ordered,             \* the server pages in primary-key order (full Milvus)
  matching,            \* keys of the rows the server now serves for the filter
  stable,              \* keys that have matched since the read began
  seen,                \* keys that have matched at some moment since then
  phase,               \* "idle", "reading", "returned" or "raised"
  result               \* the keys of the rows handed back, in order

cvars == <<ordered, matching, stable, seen, phase, result>>

\* The duplicate-free sequences over a set of keys that miss none of `must`.
Distinct(s) == \A i, j \in 1..Len(s) : s[i] = s[j] => i = j

Complete(s, must, may) ==
  /\ Distinct(s)
  /\ must \subseteq Range(s)
  /\ Range(s) \subseteq may

CInit ==
  /\ ordered \in BOOLEAN
  /\ matching \in SUBSET Keys
  /\ stable = {} /\ seen = {}
  /\ phase = "idle"
  /\ result = << >>

\* Another client inserts, deletes or changes the row of key k.
CWrite ==
  /\ \E k \in Keys :
       /\ matching' \in {matching \cup {k}, matching \ {k}}
       /\ stable' = stable \ {k}
  /\ seen' = seen \cup matching'
  /\ UNCHANGED <<ordered, phase, result>>

CBegin ==
  /\ phase # "reading"
  /\ phase' = "reading"
  /\ stable' = matching
  /\ seen' = matching
  /\ result' = << >>
  /\ UNCHANGED <<ordered, matching>>

CReturn ==
  /\ phase = "reading"
  /\ phase' = "returned"
  /\ Complete(result', IF ordered THEN stable ELSE {}, seen)
  /\ UNCHANGED <<ordered, matching, stable, seen>>

CRaise ==
  /\ phase = "reading"
  /\ phase' = "raised"
  /\ UNCHANGED <<ordered, matching, stable, seen, result>>

CNext == CWrite \/ CBegin \/ CReturn \/ CRaise

CSpec == CInit /\ [][CNext]_cvars
=============================================================================
