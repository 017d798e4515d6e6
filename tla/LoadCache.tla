------------------------------ MODULE LoadCache ------------------------------
(***************************************************************************)
(* One connection's auto-LOAD cache, Connection._loaded_collections, and   *)
(* the cursors that share it.  Cursor._invoke (AsyncCursor._invoke) is cut *)
(* at its RPCs: between the step that sends one and the step that resumes  *)
(* with its answer, the other cursors of the connection run -- coroutines  *)
(* in aio.py, threads sharing the MilvusClient in dbapi.  The server, its  *)
(* other clients, failing RPCs and lost answers are external.              *)
(***************************************************************************)
EXTENDS Integers, FiniteSets

CONSTANTS
  Cursors, Dbs, Names,  \* cursors; databases; collection names
  NoName,               \* what a USE statement names
  OtherClients,         \* other connections load, release and drop collections
  LostAnswers           \* the server may apply an RPC whose answer is lost

ASSUME NoNameAssumption == NoName \notin Names
ASSUME EnvironmentAssumption == OtherClients \in BOOLEAN /\ LostAnswers \in BOOLEAN

VARIABLES
  exists, loaded,       \* the server's collections, and those in query-node memory
  db,                   \* the database the client addresses
  cache,                \* Connection._loaded_collections: bare names
  pc,                   \* pc[c]: "idle", "load" or "call" (that RPC is under way)
                        \* or "loadDone" or "callDone" (its answer is on its way)
  stmt,                 \* stmt[c]: operation, name, database addressed
  answer,               \* answer[c]: "ok", "error" or "not_loaded"
  suspect               \* history: names whose load state was disturbed; see below

server == <<exists, loaded>>
vars == <<exists, loaded, db, cache, pc, stmt, answer, suspect>>

NamedOps == {"read", "load", "release", "drop", "create"}
Unloads == {"release", "drop"}
Statements == [op : NamedOps, name : Names, db : Dbs]
              \cup [op : {"use"}, name : {NoName}, db : Dbs]

-----------------------------------------------------------------------------
(* History.  The cache can be trusted about a name unless statements of    *)
(* two cursors overlapped of which one unloads it or switches database, or *)
(* another client unloaded it, or the answer to an unload or USE was lost. *)

Running(c) == pc[c] # "idle"

Conflicts(s, t) ==
  \/ "use" \in {s.op, t.op}
  \/ s.name = t.name /\ {s.op, t.op} \cap Unloads # {}

\* The names two overlapping statements put in doubt.
Doubtful(s, t) == IF Conflicts(s, t) THEN {s.name, t.name} \ {NoName} ELSE {}

\* c's load settles the doubt: nothing else is under way about that name, and
\* the client has not moved to another database since the load was sent.
Settles(c) ==
  /\ stmt[c].db = db
  /\ \A o \in Cursors \ {c} : Running(o) => stmt[o].name \notin {stmt[c].name, NoName}

-----------------------------------------------------------------------------
(* _shared.py                                                              *)

\* Faults: USE is taken for a load; DROP is forgotten; USE keeps the cache.
NoteLoadStateUseLoads(cached, s) ==
  CASE s.op \in {"use", "load"} -> cached \cup {s.name}
    [] s.op \in Unloads -> cached \ {s.name}
    [] OTHER -> cached

NoteLoadStateForgetsDrop(cached, s) ==
  CASE s.op = "use" -> {}
    [] s.op = "load" -> cached \cup {s.name}
    [] s.op = "release" -> cached \ {s.name}
    [] OTHER -> cached

NoteLoadStateIgnoresUse(cached, s) ==
  CASE s.op = "load" -> cached \cup {s.name}
    [] s.op \in Unloads -> cached \ {s.name}
    [] OTHER -> cached

\* note_load_state over LOAD_STATE_EFFECTS, after a successful RPC.
NoteLoadState(cached, s) ==
  CASE s.op = "use" -> {}
    [] s.op = "load" -> cached \cup {s.name}
    [] s.op \in Unloads -> cached \ {s.name}
    [] OTHER -> cached

\* CONSISTENCY_AWARE_METHODS need a loaded collection: auto-LOAD on a miss.
NeedsLoad(s) == s.op = "read" /\ s.name \notin cache

-----------------------------------------------------------------------------
(* A cursor's statement.                                                   *)

\* The first segment of _invoke: consult the cache and send an RPC, to the
\* database that is current (USE names its own).
Start(c, s) ==
  /\ pc[c] = "idle"
  /\ s.op # "use" => s.db = db
  /\ pc' = [pc EXCEPT ![c] = IF NeedsLoad(s) THEN "load" ELSE "call"]
  /\ stmt' = [stmt EXCEPT ![c] = s]
  /\ suspect' = suspect \cup
       UNION {Doubtful(s, stmt[o]) : o \in {x \in Cursors \ {c} : Running(x)}}
  /\ UNCHANGED <<exists, loaded, db, cache, answer>>

\* What the RPC does to the server or, for use_database, to the client.
Effect(op, s) ==
  /\ exists' = CASE op = "create" -> exists \cup {<<s.db, s.name>>}
                 [] op = "drop" -> exists \ {<<s.db, s.name>>}
                 [] OTHER -> exists
  /\ loaded' = CASE op = "load" -> loaded \cup {<<s.db, s.name>>}
                 [] op \in Unloads -> loaded \ {<<s.db, s.name>>}
                 [] OTHER -> loaded
  /\ db' = IF op = "use" THEN s.db ELSE db

\* A load of a collection that is not there, a read of one not loaded.
Refusal(op, s) ==
  CASE op = "load" /\ <<s.db, s.name>> \notin exists -> "error"
    [] op = "read" /\ <<s.db, s.name>> \notin loaded -> "not_loaded"
    [] OTHER -> "ok"

\* The server executes c's outstanding RPC; a lost answer reads as an error.
Serve(c) ==
  LET op == IF pc[c] = "load" THEN "load" ELSE stmt[c].op
      why == Refusal(op, stmt[c])
  IN /\ pc[c] \in {"load", "call"}
     /\ pc' = [pc EXCEPT ![c] = IF @ = "load" THEN "loadDone" ELSE "callDone"]
     /\ IF why # "ok"
        THEN /\ answer' = [answer EXCEPT ![c] = why]
             /\ UNCHANGED <<exists, loaded, db, suspect>>
        ELSE /\ Effect(op, stmt[c])
             /\ \/ /\ answer' = [answer EXCEPT ![c] = "ok"]
                   /\ suspect' = IF op = "load" /\ Settles(c)
                                 THEN suspect \ {stmt[c].name} ELSE suspect
                \/ /\ LostAnswers
                   /\ answer' = [answer EXCEPT ![c] = "error"]
                   /\ suspect' = suspect \cup
                        (IF op = "use" THEN Names
                         ELSE IF op \in Unloads THEN {stmt[c].name} ELSE {})
     /\ UNCHANGED <<cache, stmt>>

\* The RPC never reaches the server, or the server turns it down.
RpcFails(c) ==
  /\ pc[c] \in {"load", "call"}
  /\ pc' = [pc EXCEPT ![c] = IF @ = "load" THEN "loadDone" ELSE "callDone"]
  /\ answer' = [answer EXCEPT ![c] = "error"]
  /\ UNCHANGED <<exists, loaded, db, cache, stmt, suspect>>

\* loaded.add(name), then the statement's own RPC goes out.
ResumeAfterLoad(c) ==
  /\ pc[c] = "loadDone" /\ answer[c] = "ok"
  /\ cache' = cache \cup {stmt[c].name}
  /\ pc' = [pc EXCEPT ![c] = "call"]
  /\ stmt' = [stmt EXCEPT ![c].db = db]
  /\ UNCHANGED <<exists, loaded, db, answer, suspect>>

\* note_load_state, then the answer goes to the caller.
ResumeAfterCall(c) ==
  /\ pc[c] = "callDone" /\ answer[c] = "ok"
  /\ cache' = NoteLoadState(cache, stmt[c])
  /\ pc' = [pc EXCEPT ![c] = "idle"]
  /\ UNCHANGED <<exists, loaded, db, stmt, answer, suspect>>

\* The exception leaves _invoke before anything is noted.
ResumeWithError(c) ==
  /\ pc[c] \in {"loadDone", "callDone"} /\ answer[c] # "ok"
  /\ pc' = [pc EXCEPT ![c] = "idle"]
  /\ UNCHANGED <<exists, loaded, db, cache, stmt, answer, suspect>>

\* Another connection loads, releases or drops a collection.
OtherClient ==
  /\ OtherClients
  /\ \E x \in exists :
       \/ loaded' = loaded \cup {x} /\ UNCHANGED <<exists, suspect>>
       \/ /\ loaded' = loaded \ {x}
          /\ exists' \in {exists, exists \ {x}}
          /\ suspect' = suspect \cup {x[2]}
  /\ UNCHANGED <<db, cache, pc, stmt, answer>>

Init ==
  /\ exists \in SUBSET (Dbs \X Names)
  /\ loaded = {}
  /\ db \in Dbs
  /\ cache = {}
  /\ pc = [c \in Cursors |-> "idle"]
  /\ stmt \in [Cursors -> [op : {"use"}, name : {NoName}, db : {db}]]
  /\ answer = [c \in Cursors |-> "ok"]
  /\ suspect = {}

Next ==
  \/ \E c \in Cursors :
       \/ \E s \in Statements : Start(c, s)
       \/ Serve(c)
       \/ RpcFails(c)
       \/ ResumeAfterLoad(c)
       \/ ResumeAfterCall(c)
       \/ ResumeWithError(c)
  \/ OtherClient

Spec == Init /\ [][Next]_vars

-----------------------------------------------------------------------------
TypeOK ==
  /\ exists \in SUBSET (Dbs \X Names)
  /\ loaded \in SUBSET exists
  /\ db \in Dbs
  /\ cache \in SUBSET Names
  /\ pc \in [Cursors -> {"idle", "load", "call", "loadDone", "callDone"}]
  /\ stmt \in [Cursors -> Statements]
  /\ answer \in [Cursors -> {"ok", "error", "not_loaded"}]
  /\ suspect \in SUBSET Names

\* A statement that unloads n or switches database is under way.
Unloading(n) ==
  \E c \in Cursors :
    /\ Running(c)
    /\ stmt[c].op \in Unloads \cup {"use"}
    /\ stmt[c].name \in {n, NoName}

\* The cache is right about every name whose load state was not disturbed:
\* sequential use of a connection, RPCs that fail cleanly, USE, DROP and
\* re-CREATE, and concurrent reads and loads, never make it lie.
HonestUnlessSuspect ==
  \A n \in cache \ suspect : Unloading(n) \/ <<db, n>> \in loaded

\* The caller never sees Milvus's "collection not loaded" for such a name:
\* auto-LOAD has loaded what the read needs, in the database it reads.
RefusedOnlyIfSuspect ==
  [][\A c \in Cursors :
       pc[c] = "call" /\ pc'[c] = "callDone" /\ answer'[c] = "not_loaded"
         => stmt[c].name \in suspect]_vars
=============================================================================
