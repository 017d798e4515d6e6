------------------------ MODULE IngestActivityProofs ------------------------
(***************************************************************************)
(* Proofs about IngestActivity, for any workflows and keys and any number  *)
(* of attempts.  The inductive invariant is IInv: as long as no attempt of *)
(* a key was given up while it could still insert, only the current        *)
(* attempt of the one running workflow of that key can (Awaited, Alone),   *)
(* so an INSERT under way finds the key without a row (NoRowYet).          *)
(***************************************************************************)
EXTENDS IngestActivity, FiniteSetTheorems, TLAPS

-----------------------------------------------------------------------------
(* Types.                                                                  *)

\* g is f but for the entry of attempt n of w, which is x.
Differs(f, g, w, n, x) ==
  \A v \in Workflows, m \in Attempts : g[v][m] = IF v = w /\ m = n THEN x ELSE f[v][m]

\* Writing one entry of `at' or of `found'.
LEMMA Put ==
  ASSUME NEW S, NEW f \in [Workflows -> [Attempts -> S]],
         NEW w \in Workflows, NEW n \in Attempts, NEW x \in S
  PROVE  /\ [f EXCEPT ![w][n] = x] \in [Workflows -> [Attempts -> S]]
         /\ Differs(f, [f EXCEPT ![w][n] = x], w, n, x)
  BY DEF Differs

\* An attempt moves to another place; an attempt finds its row.
LEMMA Moved ==
  ASSUME TypeOK, NEW w \in Workflows, NEW n \in Attempts, NEW p \in Places, Move(w, n, p)
  PROVE  at' \in [Workflows -> [Attempts -> Places]] /\ Differs(at, at', w, n, p)
<1>1. at \in [Workflows -> [Attempts -> Places]] /\ at' = [at EXCEPT ![w][n] = p]
  BY DEF TypeOK, Move
<1> QED BY <1>1, Put

LEMMA FoundIt ==
  ASSUME TypeOK, NEW w \in Workflows, NEW n \in Attempts, NEW i \in Ids,
         found' = [found EXCEPT ![w][n] = i]
  PROVE  found' \in [Workflows -> [Attempts -> Ids \cup {None}]] /\ Differs(found, found', w, n, i)
<1>1. found \in [Workflows -> [Attempts -> Ids \cup {None}]] /\ i \in Ids \cup {None}
  BY DEF TypeOK
<1> QED BY <1>1, Put

\* A retry stays within the attempts allowed.
LEMMA RetryTypes ==
  ASSUME TypeOK, NEW w \in Workflows, NEW places \in [Workflows -> [Attempts -> Places]],
         Retry(w, places)
  PROVE  /\ phase' \in [Workflows -> {"new", "running", "completed", "failed"}]
         /\ attempt' \in [Workflows -> Attempts]
         /\ at' \in [Workflows -> [Attempts -> Places]]
         /\ outlived' \in SUBSET Keys
<1>1. outlived' \in SUBSET Keys
  BY DEF TypeOK, Retry
<1>2. CASE attempt[w] < MaxAttempts
  <2>1. attempt[w] + 1 \in Attempts
    BY <1>2, AttemptsAssumption DEF TypeOK, Attempts
  <2>2. [places EXCEPT ![w][attempt[w] + 1] = "lookup"] \in [Workflows -> [Attempts -> Places]]
    BY <2>1, Put DEF Places
  <2>3. /\ at' = [places EXCEPT ![w][attempt[w] + 1] = "lookup"]
        /\ attempt' = [attempt EXCEPT ![w] = attempt[w] + 1]
        /\ phase' = phase
    BY <1>2 DEF Retry, AttemptsLeft
  <2>4. attempt' \in [Workflows -> Attempts]
    BY <2>1, <2>3 DEF TypeOK
  <2>5. at' \in [Workflows -> [Attempts -> Places]]
    BY <2>2, <2>3
  <2> QED BY <1>1, <2>3, <2>4, <2>5 DEF TypeOK
<1>3. CASE ~(attempt[w] < MaxAttempts)
  BY <1>1, <1>3 DEF TypeOK, Retry, AttemptsLeft
<1> QED BY <1>2, <1>3

\* Every step keeps the types.
LEMMA TypeStep ==
  ASSUME TypeOK, [Next]_vars
  PROVE  TypeOK'
<1>1. ASSUME NEW w \in Workflows, StartWorkflow(w) PROVE TypeOK'
  BY <1>1, AttemptsAssumption DEF TypeOK, StartWorkflow, Move, Attempts, Places
<1>2. ASSUME NEW w \in Workflows, TimesOut(w) PROVE TypeOK'
  BY <1>2, RetryTypes DEF TypeOK, TimesOut
<1>3. ASSUME NEW w \in Workflows, NEW n \in Attempts, LookedUp(w, n) PROVE TypeOK'
  <2>1. ASSUME NEW i \in Lookup(key[w]), found' = [found EXCEPT ![w][n] = i], Move(w, n, "return"),
               UNCHANGED flight
        PROVE  TypeOK'
    <3>1. i \in Ids /\ "return" \in Places
      BY DEF Lookup, RowsOf, Places
    <3>2. at' \in [Workflows -> [Attempts -> Places]]
      BY <2>1, <3>1, Moved
    <3>3. found' \in [Workflows -> [Attempts -> Ids \cup {None}]]
      BY <2>1, <3>1, FoundIt
    <3> QED BY <1>3, <2>1, <3>2, <3>3 DEF TypeOK, LookedUp
  <2>2. CASE flight' = flight \cup {<<w, n>>} /\ Move(w, n, "insert") /\ UNCHANGED found
    <3>1. at' \in [Workflows -> [Attempts -> Places]]
      BY <2>2, Moved DEF Places
    <3> QED BY <1>3, <2>2, <3>1 DEF TypeOK, LookedUp
  <2> QED BY <1>3, <2>1, <2>2 DEF LookedUp
<1>4. ASSUME NEW w \in Workflows, NEW n \in Attempts, Inserted(w, n) PROVE TypeOK'
  <2>1. PICK i \in Ids :
          /\ rows' = [rows EXCEPT ![i] = key[w]]
          /\ IF at[w][n] # "insert" THEN UNCHANGED <<at, found>>
             ELSE \/ found' = [found EXCEPT ![w][n] = i] /\ Move(w, n, "return")
                  \/ Move(w, n, "raise") /\ UNCHANGED found
    BY <1>4 DEF Inserted
  <2>2. rows' \in [Ids -> Keys \cup {None}]
    BY <2>1 DEF TypeOK
  <2>3. at' \in [Workflows -> [Attempts -> Places]]
    <3>1. UNCHANGED at \/ \E p \in Places : Move(w, n, p)
      BY <2>1 DEF Places
    <3> QED BY <3>1, Moved DEF TypeOK
  <2>4. found' \in [Workflows -> [Attempts -> Ids \cup {None}]]
    <3>1. UNCHANGED found \/ found' = [found EXCEPT ![w][n] = i]
      BY <2>1
    <3> QED BY <3>1, FoundIt DEF TypeOK
  <2> QED BY <1>4, <2>2, <2>3, <2>4 DEF TypeOK, Inserted
<1>5. ASSUME NEW w \in Workflows, NEW n \in Attempts, RpcFails(w, n) PROVE TypeOK'
  <2>1. at' \in [Workflows -> [Attempts -> Places]]
    <3>1. Move(w, n, "raise")
      BY <1>5 DEF RpcFails
    <3> QED BY <3>1, Moved DEF TypeOK, Places
  <2> QED BY <1>5, <2>1 DEF TypeOK, RpcFails
<1>6. ASSUME NEW w \in Workflows, NEW n \in Attempts, Report(w, n) PROVE TypeOK'
  <2> DEFINE ended == [at EXCEPT ![w][n] = "idle"]
  <2>1. ended \in [Workflows -> [Attempts -> Places]]
    BY Put DEF TypeOK, Places
  <2>2. CASE ~Current(w, n)
    BY <1>6, <2>1, <2>2 DEF TypeOK, Report
  <2>3. CASE Current(w, n) /\ at[w][n] = "return"
    <3>1. /\ at' = ended
          /\ phase' = [phase EXCEPT ![w] = "completed"]
          /\ result' = [result EXCEPT ![w] = found[w][n]]
          /\ UNCHANGED <<attempt, outlived>>
      BY <1>6, <2>3 DEF Report
    <3>2. found[w][n] \in Ids \cup {None}
      BY DEF TypeOK
    <3>3. result' \in [Workflows -> Ids \cup {None}]
      BY <3>1, <3>2 DEF TypeOK
    <3> QED BY <1>6, <2>1, <3>1, <3>3 DEF TypeOK, Report
  <2>4. CASE Current(w, n) /\ at[w][n] # "return"
    <3>1. Retry(w, ended) /\ UNCHANGED result
      BY <1>6, <2>4 DEF Report
    <3> QED BY <1>6, <2>1, <3>1, RetryTypes DEF TypeOK, Report
  <2> QED BY <2>2, <2>3, <2>4
<1>7. ASSUME NEW w \in Workflows, NEW n \in Attempts, InsertLost(w, n) PROVE TypeOK'
  BY <1>7 DEF TypeOK, InsertLost
<1>8. CASE WorkerCrashes
  BY <1>8 DEF TypeOK, WorkerCrashes, Places
<1>9. CASE UNCHANGED vars
  BY <1>9 DEF TypeOK, vars
<1> QED BY <1>1, <1>2, <1>3, <1>4, <1>5, <1>6, <1>7, <1>8, <1>9 DEF Next

\* Attempts, row ids and phases stay what they are, whatever fails.
THEOREM TypeCorrect == Spec => []TypeOK
<1>1. Init => TypeOK
  BY AttemptsAssumption DEF Init, TypeOK, Attempts, Places
<1> QED BY <1>1, TypeStep, PTL DEF Spec

-----------------------------------------------------------------------------
(* The inductive invariant.                                                *)

\* What an attempt is about to return is a row of its key.
ReturnsOwnRow ==
  \A w \in Workflows, n \in Attempts : at[w][n] = "return" => found[w][n] \in RowsOf(key[w])

\* One execution per key at a time.
Alone ==
  \A w, v \in Workflows :
    phase[w] = "running" /\ phase[v] = "running" /\ key[w] = key[v] => w = v

\* An attempt that has not begun has left nothing anywhere.
Fresh ==
  \A w \in Workflows, n \in Attempts :
    phase[w] = "new" \/ n > attempt[w] => at[w][n] = "idle" /\ <<w, n>> \notin flight

\* Before its INSERT, and once it has a row to return, nothing of an attempt is
\* under way.
Told ==
  \A w \in Workflows, n \in Attempts :
    at[w][n] \in {"lookup", "return"} => <<w, n>> \notin flight

\* While no attempt of a key has been outlived, only the current one can insert.
Awaited ==
  \A w \in Workflows, n \in Attempts :
    Lingers(w, n) /\ key[w] \notin outlived => Current(w, n)

SingleRow ==
  \A k \in Keys \ outlived : \A i, j \in RowsOf(k) : i = j

\* ... and the INSERT it has under way is its key's first.
NoRowYet ==
  \A w \in Workflows, n \in Attempts :
    <<w, n>> \in flight /\ key[w] \notin outlived => RowsOf(key[w]) = {}

IInv ==
  /\ TypeOK
  /\ ReturnsOwnRow
  /\ ResultIsOwnRow
  /\ Alone
  /\ Fresh
  /\ Told
  /\ Awaited
  /\ SingleRow
  /\ NoRowYet

\* The invariant holds before any workflow starts.
LEMMA InitInv == Init => IInv
<1> SUFFICES ASSUME Init PROVE IInv
  OBVIOUS
<1>1. TypeOK
  BY AttemptsAssumption DEF Init, TypeOK, Attempts, Places
<1>2. \A k \in Keys : RowsOf(k) = {}
  BY NoneAssumption DEF Init, RowsOf
<1>3. \A w \in Workflows, n \in Attempts :
        at[w][n] = "idle" /\ <<w, n>> \notin flight /\ phase[w] = "new"
  BY DEF Init
<1>4. ReturnsOwnRow /\ ResultIsOwnRow /\ Alone
  <2>1. ReturnsOwnRow
    BY <1>3 DEF ReturnsOwnRow
  <2>2. \A w \in Workflows : phase[w] # "completed" /\ phase[w] # "running"
    BY DEF Init
  <2>3. ResultIsOwnRow
    BY <2>2 DEF ResultIsOwnRow
  <2>4. Alone
    BY <2>2 DEF Alone
  <2> QED BY <2>1, <2>3, <2>4
<1>5. Fresh /\ Told /\ Awaited /\ NoRowYet
  BY <1>3 DEF Fresh, Told, Awaited, Lingers, NoRowYet
<1>6. SingleRow
  BY <1>2 DEF SingleRow
<1> QED BY <1>1, <1>4, <1>5, <1>6 DEF IInv

\* What a retry does, entry by entry.
LEMMA RetryDoes ==
  ASSUME TypeOK, NEW w \in Workflows, NEW places \in [Workflows -> [Attempts -> Places]],
         Retry(w, places)
  PROVE  \/ /\ attempt[w] + 1 \in Attempts
            /\ phase' = phase
            /\ attempt' = [attempt EXCEPT ![w] = attempt[w] + 1]
            /\ Differs(places, at', w, attempt[w] + 1, "lookup")
         \/ /\ phase' = [phase EXCEPT ![w] = "failed"]
            /\ at' = places
            /\ attempt' = attempt
<1>1. CASE attempt[w] < MaxAttempts
  <2>1. attempt[w] + 1 \in Attempts
    BY <1>1, AttemptsAssumption DEF TypeOK, Attempts
  <2>2. /\ at' = [places EXCEPT ![w][attempt[w] + 1] = "lookup"]
        /\ attempt' = [attempt EXCEPT ![w] = attempt[w] + 1]
        /\ phase' = phase
    BY <1>1 DEF Retry, AttemptsLeft
  <2>3. Differs(places, at', w, attempt[w] + 1, "lookup")
    <3>1. "lookup" \in Places
      BY DEF Places
    <3>2. Differs(places, [places EXCEPT ![w][attempt[w] + 1] = "lookup"], w, attempt[w] + 1, "lookup")
      BY <2>1, <3>1, Put
    <3> QED BY <2>2, <3>2
  <2> QED BY <2>1, <2>2, <2>3
<1>2. CASE ~(attempt[w] < MaxAttempts)
  BY <1>2 DEF Retry, AttemptsLeft
<1> QED BY <1>1, <1>2

\* StartWorkflow: an execution begins only where none of its key runs.
LEMMA StartStep ==
  ASSUME IInv, TypeOK', NEW w \in Workflows, StartWorkflow(w)
  PROVE  IInv'
<1> USE DEF IInv
<1>1. /\ phase[w] = "new"
      /\ \A v \in Workflows : phase[v] = "running" => key[v] # key[w]
      /\ phase' = [phase EXCEPT ![w] = "running"]
      /\ attempt' = [attempt EXCEPT ![w] = 1]
      /\ UNCHANGED <<rows, key, found, flight, result, outlived>>
  BY DEF StartWorkflow
<1>2. 1 \in Attempts /\ Differs(at, at', w, 1, "lookup")
  <2>1. 1 \in Attempts /\ "lookup" \in Places
    BY AttemptsAssumption DEF Attempts, Places
  <2>2. Move(w, 1, "lookup")
    BY DEF StartWorkflow
  <2> QED BY <2>1, <2>2, Moved
<1>3. \A v \in Workflows : /\ phase'[v] = IF v = w THEN "running" ELSE phase[v]
                          /\ attempt'[v] = IF v = w THEN 1 ELSE attempt[v]
  BY <1>1 DEF TypeOK
<1>4. \A k \in Keys : RowsOf(k)' = RowsOf(k)
  BY <1>1 DEF RowsOf
<1>5. \A v \in Workflows : key[v] \in Keys
  BY DEF TypeOK
<1>6. ReturnsOwnRow' /\ ResultIsOwnRow'
  BY <1>1, <1>2, <1>3, <1>4, <1>5 DEF ReturnsOwnRow, ResultIsOwnRow, Differs
<1>7. Alone'
  BY <1>1, <1>3 DEF Alone
<1>8. \A n \in Attempts : n > 1 => n # 1
  BY DEF Attempts
<1>9. Fresh'
  BY <1>1, <1>2, <1>3, <1>8 DEF Fresh, Differs
<1>10. Told'
  BY <1>1, <1>2 DEF Told, Fresh, Differs
<1>11. Awaited'
  BY <1>1, <1>2, <1>3 DEF Awaited, Lingers, Current, Fresh, Differs
<1>12. SingleRow' /\ NoRowYet'
  BY <1>1, <1>4, <1>5 DEF SingleRow, NoRowYet
<1> QED BY <1>6, <1>7, <1>9, <1>10, <1>11, <1>12

\* LookedUp: the answer is the key's row, or that it has none yet.
LEMMA LookupStep ==
  ASSUME IInv, TypeOK', NEW w \in Workflows, NEW n \in Attempts, LookedUp(w, n)
  PROVE  IInv'
<1> USE DEF IInv
<1>1. at[w][n] = "lookup" /\ UNCHANGED <<rows, key, phase, attempt, result, outlived>>
  BY DEF LookedUp
<1>2. \A k \in Keys : RowsOf(k)' = RowsOf(k)
  BY <1>1 DEF RowsOf
<1>3. \A v \in Workflows : key[v] \in Keys
  BY DEF TypeOK
<1>4. ResultIsOwnRow' /\ Alone' /\ SingleRow'
  BY <1>1, <1>2, <1>3 DEF ResultIsOwnRow, Alone, SingleRow
<1>5. Current(w, n) \/ key[w] \in outlived
  BY <1>1 DEF Awaited, Lingers
<1>6. ~(n > attempt[w]) /\ phase[w] # "new"
  BY <1>1 DEF Fresh
<1>7. ASSUME NEW i \in RowsOf(key[w]), found' = [found EXCEPT ![w][n] = i],
             Move(w, n, "return"), UNCHANGED flight
      PROVE  IInv'
  <2>1. i \in Ids /\ "return" \in Places
    BY DEF RowsOf, Places
  <2>2. Differs(at, at', w, n, "return") /\ Differs(found, found', w, n, i)
    BY <1>7, <2>1, Moved, FoundIt
  <2>3. ReturnsOwnRow'
    BY <1>1, <1>2, <1>3, <2>2 DEF ReturnsOwnRow, Differs
  <2>4. Fresh'
    BY <1>1, <1>6, <1>7, <2>2 DEF Fresh, Differs
  <2>5. Told'
    BY <1>1, <1>7, <2>2 DEF Told, Differs
  <2>6. Awaited' /\ NoRowYet'
    BY <1>1, <1>2, <1>3, <1>7, <2>2 DEF Awaited, NoRowYet, Lingers, Current, Differs
  <2> QED BY <1>4, <2>3, <2>4, <2>5, <2>6
<1>8. ASSUME RowsOf(key[w]) = {}, flight' = flight \cup {<<w, n>>},
             Move(w, n, "insert"), UNCHANGED found
      PROVE  IInv'
  <2>1. Differs(at, at', w, n, "insert")
    BY <1>8, Moved DEF Places
  <2>2. \A v \in Workflows, m \in Attempts :
          <<v, m>> \in flight' <=> <<v, m>> \in flight \/ (v = w /\ m = n)
    BY <1>8
  <2>3. ReturnsOwnRow'
    BY <1>1, <1>2, <1>3, <1>8, <2>1 DEF ReturnsOwnRow, Differs
  <2>4. Fresh'
    BY <1>1, <1>6, <2>1, <2>2 DEF Fresh, Differs
  <2>5. Told'
    BY <2>1, <2>2 DEF Told, Differs
  <2>6. Awaited'
    BY <1>1, <1>5, <2>1, <2>2 DEF Awaited, Lingers, Current, Differs
  <2>7. NoRowYet'
    BY <1>1, <1>2, <1>3, <1>8, <2>2 DEF NoRowYet
  <2> QED BY <1>4, <2>3, <2>4, <2>5, <2>6, <2>7
<1> QED BY <1>7, <1>8 DEF LookedUp, Lookup

\* Inserted: the row is its key's first, unless the key was outlived.
LEMMA InsertStep ==
  ASSUME IInv, TypeOK', NEW w \in Workflows, NEW n \in Attempts, Inserted(w, n)
  PROVE  IInv'
<1> USE DEF IInv
<1>1. /\ <<w, n>> \in flight
      /\ flight' = flight \ {<<w, n>>}
      /\ UNCHANGED <<key, phase, attempt, result, outlived>>
  BY DEF Inserted
<1>2. PICK i \in Ids :
        /\ rows[i] = None
        /\ rows' = [rows EXCEPT ![i] = key[w]]
        /\ IF at[w][n] # "insert" THEN UNCHANGED <<at, found>>
           ELSE \/ found' = [found EXCEPT ![w][n] = i] /\ Move(w, n, "return")
                \/ Move(w, n, "raise") /\ UNCHANGED found
  BY DEF Inserted
<1>3. \A v \in Workflows : key[v] \in Keys
  BY DEF TypeOK
<1>4. \A j \in Ids : rows'[j] = IF j = i THEN key[w] ELSE rows[j]
  BY <1>2 DEF TypeOK
\* The collection gains row i, of w's key, and no other.
<1>5. \A k \in Keys : RowsOf(k)' = IF k = key[w] THEN RowsOf(k) \cup {i} ELSE RowsOf(k)
  BY <1>2, <1>3, <1>4, NoneAssumption DEF RowsOf
<1>6. \A v \in Workflows, m \in Attempts :
        <<v, m>> \in flight' <=> <<v, m>> \in flight /\ ~(v = w /\ m = n)
  BY <1>1
<1>7. \/ UNCHANGED <<at, found>> /\ at[w][n] # "insert"
      \/ at[w][n] = "insert" /\ Differs(at, at', w, n, "return") /\ Differs(found, found', w, n, i)
      \/ at[w][n] = "insert" /\ Differs(at, at', w, n, "raise") /\ UNCHANGED found
  <2>1. "return" \in Places /\ "raise" \in Places
    BY DEF Places
  <2> QED BY <1>2, <2>1, Moved, FoundIt
<1>8. ReturnsOwnRow'
  BY <1>1, <1>3, <1>5, <1>7 DEF ReturnsOwnRow, Differs
<1>9. ResultIsOwnRow' /\ Alone'
  BY <1>1, <1>3, <1>5 DEF ResultIsOwnRow, Alone
<1>10. Fresh'
  BY <1>1, <1>6, <1>7 DEF Fresh, Differs
<1>11. Told'
  BY <1>1, <1>6, <1>7 DEF Told, Differs
<1>12. Awaited'
  BY <1>1, <1>6, <1>7 DEF Awaited, Lingers, Current, Differs
<1>13. SingleRow'
  <2>1. key[w] \notin outlived => RowsOf(key[w]) = {}
    BY <1>1 DEF NoRowYet
  <2> QED BY <1>1, <1>5, <2>1 DEF SingleRow
<1>14. NoRowYet'
  <2> SUFFICES ASSUME NEW v \in Workflows, NEW m \in Attempts,
                      <<v, m>> \in flight, ~(v = w /\ m = n), key[v] \notin outlived
               PROVE  RowsOf(key[v])' = {}
    BY <1>1, <1>6 DEF NoRowYet
  <2>1. Current(v, m)
    BY DEF Awaited, Lingers
  <2>2. key[v] # key[w]
    <3> SUFFICES ASSUME key[v] = key[w] PROVE FALSE
      OBVIOUS
    <3>1. Current(w, n)
      BY <1>1 DEF Awaited, Lingers
    <3>2. v = w
      BY <2>1, <3>1 DEF Alone, Current
    <3> QED BY <2>1, <3>1, <3>2 DEF Current
  <2> QED BY <1>1, <1>3, <1>5, <2>2 DEF NoRowYet
<1> QED BY <1>8, <1>9, <1>10, <1>11, <1>12, <1>13, <1>14

\* RpcFails: the attempt raises, and its INSERT may stay under way.
LEMMA FailStep ==
  ASSUME IInv, TypeOK', NEW w \in Workflows, NEW n \in Attempts, RpcFails(w, n)
  PROVE  IInv'
<1> USE DEF IInv
<1>1. /\ at[w][n] \in {"lookup", "insert"}
      /\ flight' \in {flight, flight \ {<<w, n>>}}
      /\ UNCHANGED <<rows, key, phase, attempt, found, result, outlived>>
  BY DEF RpcFails
<1>2. Differs(at, at', w, n, "raise")
  BY Moved DEF RpcFails, Places
<1>3. \A v \in Workflows, m \in Attempts : <<v, m>> \in flight' => <<v, m>> \in flight
  BY <1>1
<1>4. \A k \in Keys : RowsOf(k)' = RowsOf(k)
  BY <1>1 DEF RowsOf
<1>5. \A v \in Workflows : key[v] \in Keys
  BY DEF TypeOK
<1>6. ReturnsOwnRow'
  BY <1>1, <1>2, <1>4, <1>5 DEF ReturnsOwnRow, Differs
<1>7. ResultIsOwnRow' /\ Alone' /\ SingleRow'
  BY <1>1, <1>4, <1>5 DEF ResultIsOwnRow, Alone, SingleRow
<1>8. Fresh' /\ Told'
  BY <1>1, <1>2, <1>3 DEF Fresh, Told, Differs
<1>9. Awaited'
  BY <1>1, <1>2, <1>3 DEF Awaited, Lingers, Current, Differs
<1>10. NoRowYet'
  BY <1>1, <1>3, <1>4, <1>5 DEF NoRowYet
<1> QED BY <1>6, <1>7, <1>8, <1>9, <1>10

\* InsertLost: one INSERT less is under way.
LEMMA LostStep ==
  ASSUME IInv, TypeOK', NEW w \in Workflows, NEW n \in Attempts, InsertLost(w, n)
  PROVE  IInv'
<1> USE DEF IInv
<1>1. /\ flight' = flight \ {<<w, n>>}
      /\ UNCHANGED <<rows, key, phase, attempt, at, found, result, outlived>>
  BY DEF InsertLost
<1>2. \A k \in Keys : RowsOf(k)' = RowsOf(k)
  BY <1>1 DEF RowsOf
<1>3. \A v \in Workflows : key[v] \in Keys
  BY DEF TypeOK
<1>4. ReturnsOwnRow' /\ ResultIsOwnRow' /\ Alone' /\ SingleRow'
  BY <1>1, <1>2, <1>3 DEF ReturnsOwnRow, ResultIsOwnRow, Alone, SingleRow
<1>5. Fresh' /\ Told' /\ Awaited'
  BY <1>1 DEF Fresh, Told, Awaited, Lingers, Current
<1>6. NoRowYet'
  BY <1>1, <1>2, <1>3 DEF NoRowYet
<1> QED BY <1>4, <1>5, <1>6

\* After a retry of w, from places that attempts have at most left, the invariant
\* holds again: either w's current attempt cannot insert any more, or its key is
\* outlived.
LEMMA RetryStep ==
  ASSUME IInv, TypeOK', NEW w \in Workflows, phase[w] = "running",
         NEW places \in [Workflows -> [Attempts -> Places]],
         Retry(w, places),
         UNCHANGED <<rows, key, found, flight, result>>,
         \A v \in Workflows, m \in Attempts : places[v][m] \in {at[v][m], "idle"}
  PROVE  IInv'
<1> USE DEF IInv
<1>1. outlived \subseteq outlived'
  BY DEF Retry
<1>2. \/ key[w] \in outlived'
      \/ /\ places[w][attempt[w]] \notin {"lookup", "insert"}
         /\ <<w, attempt[w]>> \notin flight
  <2>1. attempt[w] \in Attempts
    BY DEF TypeOK
  <2>2. Lingers(w, attempt[w]) => key[w] \in outlived'
    BY DEF Retry
  <2> QED BY <2>1, <2>2 DEF Lingers
<1>3. \A k \in Keys : RowsOf(k)' = RowsOf(k)
  BY DEF RowsOf
<1>4. \A v \in Workflows : key[v] \in Keys /\ attempt[v] \in Nat
  BY DEF TypeOK, Attempts
<1>5. SingleRow' /\ NoRowYet'
  <2>1. SingleRow /\ NoRowYet /\ key' = key /\ flight' = flight
    OBVIOUS
  <2>2. SingleRow'
    BY <1>1, <1>3, <2>1 DEF SingleRow
  <2>3. NoRowYet'
    BY <1>1, <1>3, <1>4, <2>1 DEF NoRowYet
  <2> QED BY <2>2, <2>3
<1>6. CASE /\ attempt[w] + 1 \in Attempts
           /\ phase' = phase
           /\ attempt' = [attempt EXCEPT ![w] = attempt[w] + 1]
           /\ Differs(places, at', w, attempt[w] + 1, "lookup")
  <2> DEFINE next == attempt[w] + 1
  <2>1. at[w][next] = "idle" /\ <<w, next>> \notin flight
    BY <1>4, <1>6 DEF Fresh
  <2>2. \A v \in Workflows, m \in Attempts :
          \/ v = w /\ m = next /\ at'[v][m] = "lookup"
          \/ ~(v = w /\ m = next) /\ at'[v][m] \in {at[v][m], "idle"}
    BY <1>6 DEF Differs
  <2>3. \A v \in Workflows : attempt'[v] = IF v = w THEN next ELSE attempt[v]
    BY <1>6 DEF TypeOK
  <2>4. ReturnsOwnRow' /\ ResultIsOwnRow' /\ Alone'
    BY <1>3, <1>4, <1>6, <2>2 DEF ReturnsOwnRow, ResultIsOwnRow, Alone
  <2>5. Fresh'
    <3> SUFFICES ASSUME NEW v \in Workflows, NEW m \in Attempts,
                        phase[v] = "new" \/ m > attempt'[v]
                 PROVE  at'[v][m] = "idle" /\ <<v, m>> \notin flight
      BY <1>6 DEF Fresh
    <3>1. m \in Nat
      BY DEF Attempts
    <3>2. phase[v] = "new" \/ m > attempt[v]
      BY <1>4, <2>3, <3>1
    <3>3. at[v][m] = "idle" /\ <<v, m>> \notin flight
      BY <3>2 DEF Fresh
    <3>4. ~(v = w /\ m = next)
      BY <1>4, <2>3, <3>1
    <3> QED BY <2>2, <3>3, <3>4
  <2>6. Told'
    BY <2>1, <2>2 DEF Told
  <2>7. Awaited'
    <3> SUFFICES ASSUME NEW v \in Workflows, NEW m \in Attempts,
                        at'[v][m] \in {"lookup", "insert"} \/ <<v, m>> \in flight,
                        key[v] \notin outlived'
                 PROVE  phase[v] = "running" /\ attempt'[v] = m
      BY <1>6 DEF Awaited, Lingers, Current
    <3>1. CASE v = w /\ m = next
      BY <2>3, <3>1
    <3>2. CASE ~(v = w /\ m = next)
      <4>1. at'[v][m] \in {at[v][m], "idle"}
        BY <2>2, <3>2
      <4>2. phase[v] = "running" /\ attempt[v] = m
        BY <1>1, <4>1 DEF Awaited, Lingers, Current
      <4>3. v # w
        <5> SUFFICES ASSUME v = w PROVE FALSE
          OBVIOUS
        <5>1. at'[w][m] = places[w][m]
          BY <1>6, <3>2 DEF Differs
        <5> QED BY <1>2, <4>2, <5>1
      <4> QED BY <2>3, <4>2, <4>3
    <3> QED BY <3>1, <3>2
  <2> QED BY <1>5, <2>4, <2>5, <2>6, <2>7
<1>7. CASE phase' = [phase EXCEPT ![w] = "failed"] /\ at' = places /\ attempt' = attempt
  <2>1. \A v \in Workflows : phase'[v] = IF v = w THEN "failed" ELSE phase[v]
    BY <1>7 DEF TypeOK
  <2>2. \A v \in Workflows, m \in Attempts : at'[v][m] \in {at[v][m], "idle"}
    BY <1>7
  <2>3. ReturnsOwnRow' /\ ResultIsOwnRow' /\ Alone'
    BY <1>3, <1>4, <2>1, <2>2 DEF ReturnsOwnRow, ResultIsOwnRow, Alone
  <2>4. Fresh' /\ Told'
    BY <1>7, <2>1, <2>2 DEF Fresh, Told
  <2>5. Awaited'
    <3> SUFFICES ASSUME NEW v \in Workflows, NEW m \in Attempts,
                        at'[v][m] \in {"lookup", "insert"} \/ <<v, m>> \in flight,
                        key[v] \notin outlived'
                 PROVE  phase'[v] = "running" /\ attempt[v] = m
      BY <1>7 DEF Awaited, Lingers, Current
    <3>1. phase[v] = "running" /\ attempt[v] = m
      BY <1>1, <2>2 DEF Awaited, Lingers, Current
    <3>2. v # w
      BY <1>2, <1>7, <3>1
    <3> QED BY <2>1, <3>1, <3>2
  <2> QED BY <1>5, <2>3, <2>4, <2>5
<1> QED BY <1>6, <1>7, RetryDoes

\* Report: an ended attempt is not listened to, or decides the workflow, or is retried.
LEMMA ReportStep ==
  ASSUME IInv, TypeOK', NEW w \in Workflows, NEW n \in Attempts, Report(w, n)
  PROVE  IInv'
<1> USE DEF IInv
<1> DEFINE ended == [at EXCEPT ![w][n] = "idle"]
<1>1. ended \in [Workflows -> [Attempts -> Places]] /\ Differs(at, ended, w, n, "idle")
  <2>1. at \in [Workflows -> [Attempts -> Places]] /\ "idle" \in Places
    BY DEF TypeOK, Places
  <2> QED BY <2>1, Put
<1>2. at[w][n] \in {"return", "raise"} /\ UNCHANGED <<rows, key, found, flight>>
  BY DEF Report
<1>3. \A k \in Keys : RowsOf(k)' = RowsOf(k)
  BY <1>2 DEF RowsOf
<1>4. \A v \in Workflows : key[v] \in Keys
  BY DEF TypeOK
<1>5. at[w][n] = "return" => <<w, n>> \notin flight
  BY DEF Told
<1>6. ASSUME at' = ended, UNCHANGED outlived,
             \/ UNCHANGED <<phase, attempt, result>>
             \/ /\ Current(w, n) /\ at[w][n] = "return"
                /\ phase' = [phase EXCEPT ![w] = "completed"]
                /\ result' = [result EXCEPT ![w] = found[w][n]]
                /\ UNCHANGED attempt
      PROVE  IInv'
  <2>1. Differs(at, at', w, n, "idle")
    BY <1>1, <1>6
  <2>2. ReturnsOwnRow' /\ Told'
    BY <1>2, <1>3, <1>4, <2>1 DEF ReturnsOwnRow, Told, Differs
  <2>3. SingleRow' /\ NoRowYet'
    BY <1>2, <1>3, <1>4, <1>6 DEF SingleRow, NoRowYet
  <2>4. CASE UNCHANGED <<phase, attempt, result>>
    <3>1. ResultIsOwnRow' /\ Alone'
      BY <1>2, <1>3, <1>4, <2>4 DEF ResultIsOwnRow, Alone
    <3>2. Fresh' /\ Awaited'
      BY <1>2, <1>6, <2>1, <2>4 DEF Fresh, Awaited, Lingers, Current, Differs
    <3> QED BY <2>2, <2>3, <3>1, <3>2
  <2>5. CASE /\ Current(w, n) /\ at[w][n] = "return"
             /\ phase' = [phase EXCEPT ![w] = "completed"]
             /\ result' = [result EXCEPT ![w] = found[w][n]]
             /\ UNCHANGED attempt
    <3>1. \A v \in Workflows :
            /\ phase'[v] = IF v = w THEN "completed" ELSE phase[v]
            /\ result'[v] = IF v = w THEN found[w][n] ELSE result[v]
      BY <2>5 DEF TypeOK
    <3>2. ResultIsOwnRow'
      <4>1. found[w][n] \in RowsOf(key[w])
        BY <2>5 DEF ReturnsOwnRow
      <4> QED BY <1>2, <1>3, <1>4, <3>1, <4>1 DEF ResultIsOwnRow
    <3>3. Alone'
      BY <1>2, <3>1 DEF Alone
    <3>4. Fresh'
      BY <1>2, <2>1, <2>5, <3>1 DEF Fresh, Differs
    <3>5. Awaited'
      BY <1>2, <1>5, <1>6, <2>1, <2>5, <3>1 DEF Awaited, Lingers, Current, Differs
    <3> QED BY <2>2, <2>3, <3>2, <3>3, <3>4, <3>5
  <2> QED BY <1>6, <2>4, <2>5
<1>7. CASE Retry(w, ended) /\ Current(w, n) /\ UNCHANGED result
  <2>1. \A v \in Workflows, m \in Attempts : ended[v][m] \in {at[v][m], "idle"}
    BY <1>1 DEF Differs
  <2>2. phase[w] = "running"
    BY <1>7 DEF Current
  <2> QED BY <1>1, <1>2, <1>7, <2>1, <2>2, RetryStep
<1> QED BY <1>6, <1>7 DEF Report

\* TimesOut: the current attempt stays where it is, and another begins.
LEMMA TimeoutStep ==
  ASSUME IInv, TypeOK', NEW w \in Workflows, TimesOut(w)
  PROVE  IInv'
<1>1. /\ phase[w] = "running"
      /\ Retry(w, at)
      /\ UNCHANGED <<rows, key, found, flight, result>>
  BY DEF TimesOut
<1>2. at \in [Workflows -> [Attempts -> Places]]
  BY DEF IInv, TypeOK
<1> QED BY <1>1, <1>2, RetryStep

\* WorkerCrashes: attempts vanish, what they sent does not.
LEMMA CrashStep ==
  ASSUME IInv, TypeOK', WorkerCrashes
  PROVE  IInv'
<1> USE DEF IInv
<1>1. /\ \A w \in Workflows, n \in Attempts : at'[w][n] = "idle"
      /\ UNCHANGED <<rows, key, phase, attempt, found, flight, result, outlived>>
  BY DEF WorkerCrashes
<1>2. \A k \in Keys : RowsOf(k)' = RowsOf(k)
  BY <1>1 DEF RowsOf
<1>3. \A w \in Workflows : key[w] \in Keys
  BY DEF TypeOK
<1>4. ReturnsOwnRow' /\ ResultIsOwnRow' /\ Alone'
  BY <1>1, <1>2, <1>3 DEF ReturnsOwnRow, ResultIsOwnRow, Alone
<1>5. Fresh' /\ Told' /\ Awaited'
  BY <1>1 DEF Fresh, Told, Awaited, Lingers, Current
<1>6. SingleRow' /\ NoRowYet'
  BY <1>1, <1>2, <1>3 DEF SingleRow, NoRowYet
<1> QED BY <1>4, <1>5, <1>6

\* The invariant is inductive.
LEMMA InvStep ==
  ASSUME IInv, [Next]_vars
  PROVE  IInv'
<1>1. TypeOK'
  BY TypeStep DEF IInv
<1>2. ASSUME NEW w \in Workflows, StartWorkflow(w) PROVE IInv'
  BY <1>1, <1>2, StartStep
<1>3. ASSUME NEW w \in Workflows, TimesOut(w) PROVE IInv'
  BY <1>1, <1>3, TimeoutStep
<1>4. ASSUME NEW w \in Workflows, NEW n \in Attempts, LookedUp(w, n) PROVE IInv'
  BY <1>1, <1>4, LookupStep
<1>5. ASSUME NEW w \in Workflows, NEW n \in Attempts, Inserted(w, n) PROVE IInv'
  BY <1>1, <1>5, InsertStep
<1>6. ASSUME NEW w \in Workflows, NEW n \in Attempts, RpcFails(w, n) PROVE IInv'
  BY <1>1, <1>6, FailStep
<1>7. ASSUME NEW w \in Workflows, NEW n \in Attempts, Report(w, n) PROVE IInv'
  BY <1>1, <1>7, ReportStep
<1>8. ASSUME NEW w \in Workflows, NEW n \in Attempts, InsertLost(w, n) PROVE IInv'
  BY <1>1, <1>8, LostStep
<1>9. CASE WorkerCrashes
  BY <1>1, <1>9, CrashStep
<1>10. CASE UNCHANGED vars
  BY <1>1, <1>10 DEF vars, IInv, ReturnsOwnRow, ResultIsOwnRow, Alone, Fresh, Told, Awaited,
     Lingers, Current, SingleRow, NoRowYet, RowsOf
<1> QED BY <1>2, <1>3, <1>4, <1>5, <1>6, <1>7, <1>8, <1>9, <1>10 DEF Next

\* It holds throughout.
LEMMA Invariance == Spec => []IInv
  BY InitInv, InvStep, PTL DEF Spec

\* A completed workflow returned the id of a row of its own key, whatever its
\* attempts and other workflows did.
THEOREM ResultsAreOwnRows == Spec => []ResultIsOwnRow
<1>1. IInv => ResultIsOwnRow
  BY DEF IInv
<1> QED BY <1>1, Invariance, PTL

\* insert_item's lookup is enough: a key has one row, unless an attempt was
\* given up, died or reported an error while it or its INSERT could still insert.
THEOREM OneRowPerKey == Spec => []OneRowUnlessOutlived
<1>1. ASSUME IInv PROVE OneRowUnlessOutlived
  <2> SUFFICES ASSUME NEW k \in Keys \ outlived PROVE Cardinality(RowsOf(k)) <= 1
    BY DEF OneRowUnlessOutlived
  <2>1. \A i, j \in RowsOf(k) : i = j
    BY <1>1 DEF IInv, SingleRow
  <2>2. CASE RowsOf(k) = {}
    BY <2>2, FS_EmptySet
  <2>3. ASSUME NEW i \in RowsOf(k) PROVE Cardinality(RowsOf(k)) <= 1
    <3>1. \A j : j \in RowsOf(k) <=> j = i
      BY <2>1, <2>3
    <3>2. RowsOf(k) = {i}
      BY <3>1
    <3>3. Cardinality({i}) = 1
      BY FS_Singleton
    <3> QED BY <3>2, <3>3
  <2> QED BY <2>2, <2>3
<1> QED BY <1>1, Invariance, PTL
=============================================================================
