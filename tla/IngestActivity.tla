--------------------------- MODULE IngestActivity ---------------------------
(***************************************************************************)
(* examples/temporal_worker: insert_item, an activity that inserts one row *)
(* per external_id, and IngestItemWorkflow, which runs it with a           *)
(* start-to-close timeout and a bounded number of attempts.  Milvus has no *)
(* unique constraint, so an attempt looks its key up before it inserts.    *)
(* Temporal is external: it runs attempts one after another, takes the     *)
(* report of the current one only, and cannot stop an attempt it has given *)
(* up on.  So is Milvus, which may serve an INSERT whose sender is gone or *)
(* has been given an error.                                                *)
(***************************************************************************)
EXTENDS Integers, FiniteSets

CONSTANTS
  Workflows, Keys,  \* workflow executions; external ids
  None,
  MaxAttempts,      \* RetryPolicy.maximum_attempts
  MaxRows,          \* bound: rows the collection may hold
  Slow              \* an RPC may outlast the start-to-close timeout

ASSUME AttemptsAssumption == MaxAttempts \in Nat \ {0}
ASSUME RowsAssumption == MaxRows \in Nat
ASSUME NoneAssumption == None \notin Keys /\ None \notin Nat
ASSUME SlowAssumption == Slow \in BOOLEAN

Attempts == 1..MaxAttempts
Ids == 1..MaxRows

VARIABLES
  rows,      \* catalog_items: row id -> external_id, None where there is no row
  key,       \* key[w]: the external_id w generated or was given
  phase,     \* phase[w]: "new", "running", "completed" or "failed"
  attempt,   \* attempt[w]: the number of the current attempt
  at,        \* at[w][n]: where attempt n is; see Places
  found,     \* found[w][n]: the id attempt n returns
  flight,    \* INSERTs sent and not yet served: workflow and attempt
  result,    \* result[w]: what a completed workflow returned
  outlived   \* history: keys of which an attempt was given up, died, or reported
             \* an error while it, or the INSERT it had sent, could still insert

vars == <<rows, key, phase, attempt, at, found, flight, result, outlived>>

\* "idle": not begun, or gone; "lookup": its SELECT is under way; "insert": its
\* INSERT is; "return" and "raise": it ended and has not reported.
Places == {"idle", "lookup", "insert", "return", "raise"}

RowsOf(k) == {i \in Ids : rows[i] = k}

-----------------------------------------------------------------------------
(* activities.py                                                           *)

\* Faults: the activity inserts without looking; it returns no id of its own.
LookupSkipped(k) == {}
LookupAny(k) == {i \in Ids : rows[i] # None}

\* SELECT id ... WHERE external_id = :eid LIMIT 1, at the collection's own
\* level, which schema.py makes Strong: the rows there are now.
Lookup(k) == RowsOf(k)

Move(w, n, place) == at' = [at EXCEPT ![w][n] = place]

\* The SELECT is answered: return the row's id, or send the INSERT.
LookedUp(w, n) ==
  /\ at[w][n] = "lookup"
  /\ \/ \E i \in Lookup(key[w]) :
          /\ found' = [found EXCEPT ![w][n] = i]
          /\ Move(w, n, "return")
          /\ UNCHANGED flight
     \/ /\ Lookup(key[w]) = {}
        /\ flight' = flight \cup {<<w, n>>}
        /\ Move(w, n, "insert")
        /\ UNCHANGED found
  /\ UNCHANGED <<rows, key, phase, attempt, result, outlived>>

\* Milvus serves an INSERT.  Its sender may be gone, or miss the answer.
Inserted(w, n) ==
  /\ <<w, n>> \in flight
  /\ flight' = flight \ {<<w, n>>}
  /\ \E i \in Ids :
       /\ rows[i] = None
       /\ rows' = [rows EXCEPT ![i] = key[w]]
       /\ IF at[w][n] # "insert" THEN UNCHANGED <<at, found>>
          ELSE \/ found' = [found EXCEPT ![w][n] = i] /\ Move(w, n, "return")
               \/ Move(w, n, "raise") /\ UNCHANGED found
  /\ UNCHANGED <<key, phase, attempt, result, outlived>>

\* A SELECT or INSERT raises.  The INSERT may have been refused or lost, or be
\* served later all the same (a deadline, a broken connection).
RpcFails(w, n) ==
  /\ at[w][n] \in {"lookup", "insert"}
  /\ Move(w, n, "raise")
  /\ flight' \in {flight, flight \ {<<w, n>>}}
  /\ UNCHANGED <<rows, key, phase, attempt, found, result, outlived>>

\* An INSERT nobody waits for is lost.
InsertLost(w, n) ==
  /\ <<w, n>> \in flight
  /\ at[w][n] # "insert"
  /\ flight' = flight \ {<<w, n>>}
  /\ UNCHANGED <<rows, key, phase, attempt, at, found, result, outlived>>

-----------------------------------------------------------------------------
(* workflows.py and Temporal                                               *)

\* Executions are named after the key they are given: one at a time per key.
StartWorkflow(w) ==
  /\ phase[w] = "new"
  /\ \A v \in Workflows : phase[v] = "running" => key[v] # key[w]
  /\ phase' = [phase EXCEPT ![w] = "running"]
  /\ attempt' = [attempt EXCEPT ![w] = 1]
  /\ Move(w, 1, "lookup")
  /\ UNCHANGED <<rows, key, found, flight, result, outlived>>

\* What the attempt leaves behind may still insert: itself, or its INSERT.
Lingers(w, n) == at[w][n] \in {"lookup", "insert"} \/ <<w, n>> \in flight

\* Fault: every retry is the first.
RetryForever(w, places) ==
  /\ at' = [places EXCEPT ![w][1] = "lookup"]
  /\ attempt' = [attempt EXCEPT ![w] = 1]
  /\ UNCHANGED <<phase, outlived>>

\* Fault: one attempt too many.
AttemptsLeftOnceMore(w) == attempt[w] <= MaxAttempts
AttemptsLeft(w) == attempt[w] < MaxAttempts

\* The retry policy: another attempt, until they are used up, whatever became
\* of the one before.
Retry(w, places) ==
  /\ outlived' = IF Lingers(w, attempt[w]) THEN outlived \cup {key[w]} ELSE outlived
  /\ IF AttemptsLeft(w)
     THEN /\ attempt' = [attempt EXCEPT ![w] = @ + 1]
          /\ at' = [places EXCEPT ![w][attempt[w] + 1] = "lookup"]
          /\ UNCHANGED phase
     ELSE /\ phase' = [phase EXCEPT ![w] = "failed"]
          /\ at' = places
          /\ UNCHANGED attempt

Current(w, n) == phase[w] = "running" /\ attempt[w] = n

\* An attempt reports.  Nobody listens to one that was given up.
Report(w, n) ==
  LET ended == [at EXCEPT ![w][n] = "idle"] IN
  /\ at[w][n] \in {"return", "raise"}
  /\ CASE ~Current(w, n) ->
            at' = ended /\ UNCHANGED <<phase, attempt, result, outlived>>
       [] Current(w, n) /\ at[w][n] = "return" ->
            /\ at' = ended
            /\ phase' = [phase EXCEPT ![w] = "completed"]
            /\ result' = [result EXCEPT ![w] = found[w][n]]
            /\ UNCHANGED <<attempt, outlived>>
       [] OTHER -> Retry(w, ended) /\ UNCHANGED result
  /\ UNCHANGED <<rows, key, found, flight>>

\* start_to_close_timeout: the current attempt has not reported in time.
\* Unless RPCs can be slow, that is because its worker died.
TimesOut(w) ==
  /\ phase[w] = "running"
  /\ Slow \/ ~Lingers(w, attempt[w])
  /\ Retry(w, at)
  /\ UNCHANGED <<rows, key, found, flight, result>>

\* The worker process dies and is started again: its coroutines are gone,
\* what they sent is not.
WorkerCrashes ==
  /\ \E w \in Workflows, n \in Attempts : at[w][n] # "idle"
  /\ at' = [w \in Workflows |-> [n \in Attempts |-> "idle"]]
  /\ UNCHANGED <<rows, key, phase, attempt, found, flight, result, outlived>>

Init ==
  /\ rows = [i \in Ids |-> None]
  /\ key \in [Workflows -> Keys]
  /\ phase = [w \in Workflows |-> "new"]
  /\ attempt = [w \in Workflows |-> 1]
  /\ at = [w \in Workflows |-> [n \in Attempts |-> "idle"]]
  /\ found = [w \in Workflows |-> [n \in Attempts |-> None]]
  /\ flight = {}
  /\ result = [w \in Workflows |-> None]
  /\ outlived = {}

Next ==
  \/ \E w \in Workflows :
       \/ StartWorkflow(w)
       \/ TimesOut(w)
       \/ \E n \in Attempts :
            \/ LookedUp(w, n) \/ Inserted(w, n) \/ RpcFails(w, n)
            \/ InsertLost(w, n) \/ Report(w, n)
  \/ WorkerCrashes

Spec == Init /\ [][Next]_vars

\* A coroutine that got its answer runs on, Milvus answers or fails, and
\* Temporal's timers fire.  Nothing obliges a worker to crash.
Fairness ==
  \A w \in Workflows :
    /\ WF_vars(TimesOut(w))
    /\ \A n \in Attempts :
         WF_vars(Report(w, n)) /\ WF_vars(LookedUp(w, n) \/ Inserted(w, n) \/ RpcFails(w, n))

FairSpec == Spec /\ Fairness

-----------------------------------------------------------------------------
TypeOK ==
  /\ rows \in [Ids -> Keys \cup {None}]
  /\ key \in [Workflows -> Keys]
  /\ phase \in [Workflows -> {"new", "running", "completed", "failed"}]
  /\ attempt \in [Workflows -> Attempts]
  /\ at \in [Workflows -> [Attempts -> Places]]
  /\ found \in [Workflows -> [Attempts -> Ids \cup {None}]]
  /\ flight \in SUBSET (Workflows \X Attempts)
  /\ result \in [Workflows -> Ids \cup {None}]
  /\ outlived \in SUBSET Keys

\* activities.py: the lookup "closes the retry-after-crash gap".  Whatever
\* fails, crashes, loses its answer or is run again, a key has one row, unless
\* an attempt of it was followed by another while it, or the INSERT it had
\* sent, could still insert: given up at its timeout, dead, or told of an error
\* by an INSERT that was served after all.
OneRowUnlessOutlived ==
  \A k \in Keys \ outlived : Cardinality(RowsOf(k)) <= 1

\* A completed workflow returned the id of a row of its own key.
ResultIsOwnRow ==
  \A w \in Workflows : phase[w] = "completed" => result[w] \in RowsOf(key[w])

\* A workflow that runs ends, whatever its attempts do.
WorkflowEnds ==
  \A w \in Workflows : phase[w] = "running" ~> phase[w] \in {"completed", "failed"}
=============================================================================
