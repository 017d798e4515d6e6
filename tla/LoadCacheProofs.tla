--------------------------- MODULE LoadCacheProofs ---------------------------
(***************************************************************************)
(* Proofs about LoadCache, for any cursors, databases and names, with and  *)
(* without other clients and lost answers.  HonestUnlessSuspect speaks of  *)
(* the cache alone; the inductive invariant IInv speaks as well of what    *)
(* the cursors are about to write to it (NotesTrue), of the reads already  *)
(* on their way because of it (ReadsLoaded), and of why a name is in doubt *)
(* for as long as two statements that put it there are under way           *)
(* (OverlapsDoubted, MovedDoubted).                                        *)
(***************************************************************************)
EXTENDS LoadCache, TLAPS

\* An auto-LOAD is a read's.
AutoLoadsReads == \A c \in Cursors : pc[c] \in {"load", "loadDone"} => stmt[c].op = "read"

\* What two running statements put in doubt stays in doubt while both run.
OverlapsDoubted ==
  \A c, o \in Cursors :
    c # o /\ Running(c) /\ Running(o) => Doubtful(stmt[c], stmt[o]) \subseteq suspect

\* A statement left behind in another database by a USE has its name in doubt.
MovedDoubted ==
  \A c \in Cursors :
    Running(c) /\ stmt[c].op # "use" /\ stmt[c].db # db => stmt[c].name \in suspect

\* c is about to add its name to the cache.
Adding(c) ==
  /\ answer[c] = "ok"
  /\ pc[c] = "loadDone" \/ (pc[c] = "callDone" /\ stmt[c].op = "load")

\* c is about to remove n from it.
Removing(c, n) ==
  /\ answer[c] = "ok" /\ pc[c] = "callDone"
  /\ stmt[c].op \in Unloads \cup {"use"}
  /\ stmt[c].name \in {n, NoName}

\* What the cache says, or is about to say, is so, or is about to be removed.
NotesTrue ==
  \A n \in Names \ suspect :
    (n \in cache \/ \E c \in Cursors : Adding(c) /\ stmt[c].name = n) =>
    <<db, n>> \in loaded \/ \E c \in Cursors : Removing(c, n)

\* A read on its way finds its collection loaded, in the database it reads.
ReadsLoaded ==
  \A c \in Cursors :
    pc[c] = "call" /\ stmt[c].op = "read" /\ stmt[c].name \notin suspect =>
    <<stmt[c].db, stmt[c].name>> \in loaded

IInv == TypeOK /\ AutoLoadsReads /\ OverlapsDoubted /\ MovedDoubted /\ NotesTrue /\ ReadsLoaded

-----------------------------------------------------------------------------
(* Types.                                                                  *)

\* What a statement is, whichever of the two kinds.
LEMMA StatementShape ==
  ASSUME NEW s \in Statements
  PROVE  /\ s.op \in NamedOps \cup {"use"}
         /\ s.name \in Names \cup {NoName}
         /\ s.db \in Dbs
         /\ s.op = "use" <=> s.name = NoName
  BY NoNameAssumption DEF Statements, NamedOps

\* Sent again to another database, it is still a statement.
LEMMA StatementMoved ==
  ASSUME NEW s \in Statements, NEW d \in Dbs
  PROVE  /\ [s EXCEPT !.db = d] \in Statements
         /\ [s EXCEPT !.db = d].op = s.op
         /\ [s EXCEPT !.db = d].name = s.name
         /\ [s EXCEPT !.db = d].db = d
  BY DEF Statements, NamedOps

\* Doubt is about names of collections, and is mutual.
LEMMA DoubtfulNames ==
  ASSUME NEW s \in Statements, NEW t \in Statements
  PROVE  /\ Doubtful(s, t) \subseteq Names
         /\ Doubtful(s, t) = Doubtful(t, s)
<1>1. s.name \in Names \cup {NoName} /\ t.name \in Names \cup {NoName}
  BY StatementShape
<1>2. Conflicts(s, t) <=> Conflicts(t, s)
  BY DEF Conflicts
<1> QED BY <1>1, <1>2 DEF Doubtful

\* A step keeps the types; AutoLoadsReads is what makes a name cached after an
\* auto-LOAD the name of a collection.
LEMMA TypeStep ==
  ASSUME TypeOK, AutoLoadsReads, [Next]_vars
  PROVE  TypeOK'
<1>1. ASSUME NEW c \in Cursors, NEW s \in Statements, Start(c, s) PROVE TypeOK'
  <2>1. suspect' \subseteq Names
    <3>1. \A o \in Cursors : Doubtful(s, stmt[o]) \subseteq Names
      BY DoubtfulNames DEF TypeOK
    <3> QED BY <1>1, <3>1 DEF Start, TypeOK
  <2> QED BY <1>1, <2>1 DEF Start, TypeOK
<1>2. ASSUME NEW c \in Cursors, Serve(c) PROVE TypeOK'
  <2> DEFINE op == IF pc[c] = "load" THEN "load" ELSE stmt[c].op
             why == Refusal(op, stmt[c])
             s == stmt[c]
  <2>1. s \in Statements /\ s.db \in Dbs /\ s.name \in Names \cup {NoName}
    BY StatementShape DEF TypeOK
  <2>2. pc' \in [Cursors -> {"idle", "load", "call", "loadDone", "callDone"}] /\ UNCHANGED <<cache, stmt>>
    BY <1>2 DEF Serve, TypeOK
  <2>3. CASE why # "ok"
    <3>1. answer' = [answer EXCEPT ![c] = why] /\ UNCHANGED <<exists, loaded, db, suspect>>
      BY <1>2, <2>3 DEF Serve
    <3>2. why \in {"error", "not_loaded"}
      BY <2>3 DEF Refusal
    <3> QED BY <2>2, <3>1, <3>2 DEF TypeOK
  <2>4. CASE why = "ok"
    <3>1. /\ Effect(op, s)
          /\ \/ answer' = [answer EXCEPT ![c] = "ok"]
             \/ answer' = [answer EXCEPT ![c] = "error"]
      BY <1>2, <2>4 DEF Serve
    <3>2. op = "load" => <<s.db, s.name>> \in exists
      BY <2>4 DEF Refusal
    <3>3. op \in {"create", "drop", "release", "read", "load"} => s.name \in Names
      BY <1>2, <2>1, StatementShape, <3>2 DEF Serve, TypeOK
    <3>4. exists' \in SUBSET (Dbs \X Names) /\ loaded' \in SUBSET exists' /\ db' \in Dbs
      BY <2>1, <3>1, <3>2, <3>3 DEF Effect, TypeOK, Unloads
    <3>5. suspect' \in SUBSET Names
      <4>1. \/ suspect' \subseteq suspect
            \/ suspect' = suspect \cup (IF op = "use" THEN Names
                                        ELSE IF op \in Unloads THEN {s.name} ELSE {})
        BY <1>2, <2>4 DEF Serve
      <4> QED BY <3>3, <4>1 DEF TypeOK, Unloads
    <3> QED BY <2>2, <3>1, <3>4, <3>5 DEF TypeOK
  <2> QED BY <2>3, <2>4
<1>3. ASSUME NEW c \in Cursors, RpcFails(c) PROVE TypeOK'
  BY <1>3 DEF RpcFails, TypeOK
<1>4. ASSUME NEW c \in Cursors, ResumeAfterLoad(c) PROVE TypeOK'
  <2>1. stmt[c].name \in Names
    BY <1>4, StatementShape DEF ResumeAfterLoad, TypeOK, AutoLoadsReads
  <2>2. [stmt[c] EXCEPT !.db = db] \in Statements
    BY StatementMoved DEF TypeOK
  <2>3. stmt' \in [Cursors -> Statements]
    BY <1>4, <2>2 DEF ResumeAfterLoad, TypeOK
  <2> QED BY <1>4, <2>1, <2>3 DEF ResumeAfterLoad, TypeOK
<1>5. ASSUME NEW c \in Cursors, ResumeAfterCall(c) PROVE TypeOK'
  <2>1. stmt[c].op = "load" => stmt[c].name \in Names
    BY StatementShape DEF TypeOK
  <2>2. cache' \subseteq Names
    BY <1>5, <2>1 DEF ResumeAfterCall, NoteLoadState, TypeOK
  <2> QED BY <1>5, <2>2 DEF ResumeAfterCall, TypeOK
<1>6. ASSUME NEW c \in Cursors, ResumeWithError(c) PROVE TypeOK'
  BY <1>6 DEF ResumeWithError, TypeOK
<1>7. CASE OtherClient
  <2>1. PICK x \in exists :
          \/ loaded' = loaded \cup {x} /\ UNCHANGED <<exists, suspect>>
          \/ /\ loaded' = loaded \ {x}
             /\ exists' \in {exists, exists \ {x}}
             /\ suspect' = suspect \cup {x[2]}
    BY <1>7 DEF OtherClient
  <2>2. x[2] \in Names
    BY DEF TypeOK
  <2> QED BY <1>7, <2>1, <2>2 DEF OtherClient, TypeOK
<1>8. CASE UNCHANGED vars
  BY <1>8 DEF vars, TypeOK
<1> QED BY <1>1, <1>2, <1>3, <1>4, <1>5, <1>6, <1>7, <1>8 DEF Next

-----------------------------------------------------------------------------
(* The invariant is inductive: one lemma per action.                       *)

\* Two statements of which one names no collection, or that have a name in
\* common that one of them unloads, put that name in doubt.
LEMMA Doubted ==
  ASSUME NEW s \in Statements, NEW t \in Statements
  PROVE  /\ s.name # NoName /\ t.op = "use" => s.name \in Doubtful(s, t)
         /\ s.name # NoName /\ s.name = t.name /\ t.op \in Unloads => s.name \in Doubtful(s, t)
  BY DEF Doubtful, Conflicts

\* Start: what c may find in the cache is true, or about to be removed by a
\* statement that its own overlaps.
LEMMA StartStep ==
  ASSUME IInv, TypeOK', NEW c \in Cursors, NEW s \in Statements, Start(c, s)
  PROVE  IInv'
<1> USE DEF IInv
<1>1. /\ pc[c] = "idle"
      /\ s.op # "use" => s.db = db
      /\ UNCHANGED <<exists, loaded, db, cache, answer>>
      /\ suspect \subseteq suspect'
  BY DEF Start
<1>2. \A o \in Cursors :
        /\ pc'[o] = IF o = c THEN (IF NeedsLoad(s) THEN "load" ELSE "call") ELSE pc[o]
        /\ stmt'[o] = IF o = c THEN s ELSE stmt[o]
  BY DEF Start, TypeOK
<1>3. \A o \in Cursors \ {c} :
        Running(o) => Doubtful(s, stmt[o]) \subseteq suspect' /\ Doubtful(stmt[o], s) \subseteq suspect'
  <2>1. \A o \in Cursors \ {c} : Running(o) => Doubtful(s, stmt[o]) \subseteq suspect'
    BY DEF Start
  <2> QED BY <2>1, DoubtfulNames DEF TypeOK
<1>4. \A o \in Cursors : o # c => (Running(o)' <=> Running(o))
  BY <1>2 DEF Running
<1>5. AutoLoadsReads'
  BY <1>2 DEF AutoLoadsReads, NeedsLoad
<1>6. OverlapsDoubted'
  <2> SUFFICES ASSUME NEW a \in Cursors, NEW o \in Cursors, a # o, Running(a)', Running(o)'
               PROVE  Doubtful(stmt'[a], stmt'[o]) \subseteq suspect'
    BY DEF OverlapsDoubted, Doubtful, Conflicts
  <2>1. CASE a = c
    BY <1>2, <1>3, <1>4, <2>1
  <2>2. CASE o = c
    BY <1>2, <1>3, <1>4, <2>2
  <2>3. CASE a # c /\ o # c
    BY <1>1, <1>2, <1>4, <2>3 DEF OverlapsDoubted
  <2> QED BY <2>1, <2>2, <2>3
<1>7. MovedDoubted'
  BY <1>1, <1>2, <1>4 DEF MovedDoubted
<1>8. \A o \in Cursors : (Adding(o)' <=> Adding(o)) /\ ~Adding(c)
  BY <1>1, <1>2 DEF Adding
<1>9. \A o \in Cursors, n \in Names : Removing(o, n)' <=> Removing(o, n)
  BY <1>1, <1>2 DEF Removing
<1>10. NotesTrue'
  BY <1>1, <1>2, <1>8, <1>9 DEF NotesTrue
<1>11. ReadsLoaded'
  <2> SUFFICES ASSUME NEW o \in Cursors, pc'[o] = "call", stmt'[o].op = "read",
                      stmt'[o].name \notin suspect'
               PROVE  <<stmt'[o].db, stmt'[o].name>> \in loaded
    BY <1>1 DEF ReadsLoaded
  <2>1. CASE o # c
    BY <1>1, <1>2, <2>1 DEF ReadsLoaded
  <2>2. CASE o = c
    <3>1. s.op = "read" /\ s.name \in cache \ suspect /\ s.name \in Names /\ s.db = db
      BY <1>1, <1>2, <2>2, StatementShape DEF NeedsLoad, TypeOK
    <3>2. <<db, s.name>> \in loaded \/ \E r \in Cursors : Removing(r, s.name)
      BY <3>1 DEF NotesTrue
    <3>3. ASSUME NEW r \in Cursors, Removing(r, s.name) PROVE FALSE
      <4>1. r # c /\ Running(r)
        BY <1>1, <3>3 DEF Removing, Running
      <4>2. s.name \in Doubtful(s, stmt[r])
        BY <3>1, <3>3, StatementShape, Doubted, NoNameAssumption DEF Removing, TypeOK
      <4> QED BY <1>2, <1>3, <2>2, <4>1, <4>2
    <3> QED BY <1>2, <2>2, <3>1, <3>2, <3>3
  <2> QED BY <2>1, <2>2
<1> QED BY <1>5, <1>6, <1>7, <1>10, <1>11

\* A call that is not carried out, RpcFails or a refusal: nothing is learnt.
LEMMA UnservedStep ==
  ASSUME IInv, TypeOK', NEW c \in Cursors, NEW why,
         why # "ok",
         pc[c] \in {"load", "call"},
         pc' = [pc EXCEPT ![c] = IF @ = "load" THEN "loadDone" ELSE "callDone"],
         answer' = [answer EXCEPT ![c] = why],
         UNCHANGED <<exists, loaded, db, cache, stmt, suspect>>
  PROVE  IInv'
<1> USE DEF IInv
<1>1. \A o \in Cursors :
        /\ pc'[o] = IF o = c THEN (IF pc[c] = "load" THEN "loadDone" ELSE "callDone") ELSE pc[o]
        /\ answer'[o] = IF o = c THEN why ELSE answer[o]
  BY DEF TypeOK
<1>2. \A o \in Cursors : Running(o)' <=> Running(o)
  BY <1>1 DEF Running
<1>3. AutoLoadsReads' /\ ReadsLoaded'
  BY <1>1 DEF AutoLoadsReads, ReadsLoaded
<1>4. OverlapsDoubted' /\ MovedDoubted'
  BY <1>2 DEF OverlapsDoubted, MovedDoubted
<1>5. \A o \in Cursors : (Adding(o)' <=> Adding(o)) /\ (\A n : Removing(o, n)' <=> Removing(o, n))
  BY <1>1 DEF Adding, Removing
<1>6. NotesTrue'
  BY <1>5 DEF NotesTrue
<1> QED BY <1>3, <1>4, <1>6

\* A load that settles the doubt about a name finds no other statement about it.
LEMMA SettlesClears ==
  ASSUME TypeOK, NEW c \in Cursors, stmt[c].op # "use", Settles(c),
         NEW a \in Cursors, NEW o \in Cursors, a # o, Running(a), Running(o)
  PROVE  stmt[c].name \notin Doubtful(stmt[a], stmt[o])
<1>1. stmt[a] \in Statements /\ stmt[o] \in Statements /\ stmt[c] \in Statements
  BY DEF TypeOK
<1>2. \A x \in {a, o} : x # c => stmt[x].name \notin {stmt[c].name, NoName}
  BY DEF Settles
<1>3. \A x \in {a, o} : stmt[x].op = "use" => stmt[x].name = NoName
  BY <1>1, StatementShape
<1> QED BY <1>2, <1>3 DEF Doubtful, Conflicts

\* Serve: the server's state and the client's database move under everyone.
LEMMA ServeStep ==
  ASSUME IInv, TypeOK', NEW c \in Cursors, Serve(c)
  PROVE  IInv'
<1> USE DEF IInv
<1> DEFINE s == stmt[c]
           op == IF pc[c] = "load" THEN "load" ELSE s.op
           why == Refusal(op, s)
<1>1. /\ pc[c] \in {"load", "call"}
      /\ pc' = [pc EXCEPT ![c] = IF @ = "load" THEN "loadDone" ELSE "callDone"]
      /\ UNCHANGED <<cache, stmt>>
  BY DEF Serve
<1>2. CASE why # "ok"
  <2>1. answer' = [answer EXCEPT ![c] = why] /\ UNCHANGED <<exists, loaded, db, suspect>>
    BY <1>2 DEF Serve
  <2> QED BY <1>1, <1>2, <2>1, UnservedStep
<1>3. CASE why = "ok"
  <2>1. \A o \in Cursors :
          pc'[o] = IF o = c THEN (IF pc[c] = "load" THEN "loadDone" ELSE "callDone") ELSE pc[o]
    BY <1>1 DEF TypeOK
  <2>2. \A o \in Cursors : (Running(o)' <=> Running(o)) /\ Running(c)
    BY <1>1, <2>1 DEF Running
  <2>3. /\ Effect(op, s)
        /\ \/ /\ answer' = [answer EXCEPT ![c] = "ok"]
              /\ suspect' = IF op = "load" /\ Settles(c) THEN suspect \ {s.name} ELSE suspect
           \/ /\ answer' = [answer EXCEPT ![c] = "error"]
              /\ suspect' = suspect \cup
                   (IF op = "use" THEN Names ELSE IF op \in Unloads THEN {s.name} ELSE {})
    BY <1>3 DEF Serve
  <2>4. \A o \in Cursors : o # c => answer'[o] = answer[o]
    BY <2>3 DEF TypeOK
  <2>5. s \in Statements /\ (op # "use" => s.op # "use") /\ (op = "load" => s.op \in {"read", "load"})
    BY <1>1 DEF TypeOK, AutoLoadsReads
  \* A name leaves doubt only when c's load settles it.
  <2>6. ASSUME NEW n \in suspect, n \notin suspect'
        PROVE  op = "load" /\ n = s.name /\ Settles(c)
    BY <2>3, <2>6
  <2>7. AutoLoadsReads'
    BY <1>1, <2>1 DEF AutoLoadsReads
  <2>8. OverlapsDoubted'
    <3> SUFFICES ASSUME NEW a \in Cursors, NEW o \in Cursors, a # o, Running(a), Running(o),
                        NEW n \in Doubtful(stmt[a], stmt[o])
                 PROVE  n \in suspect'
      BY <1>1, <2>2 DEF OverlapsDoubted
    <3>1. n \in suspect
      BY DEF OverlapsDoubted
    <3> QED BY <2>5, <2>6, <3>1, SettlesClears
  <2>9. MovedDoubted'
    <3> SUFFICES ASSUME NEW a \in Cursors, Running(a), stmt[a].op # "use", stmt[a].db # db'
                 PROVE  stmt[a].name \in suspect'
      BY <1>1, <2>2 DEF MovedDoubted
    <3>1. CASE op = "use"
      <4>1. a # c /\ s.op = "use"
        BY <3>1
      <4>2. stmt[a].name # NoName
        BY StatementShape DEF TypeOK
      <4>3. stmt[a].name \in suspect
        BY <2>2, <2>5, <4>1, <4>2, Doubted DEF OverlapsDoubted, TypeOK
      <4> QED BY <2>6, <3>1, <4>3
    <3>2. CASE op # "use"
      <4>1. db' = db
        BY <2>3, <3>2 DEF Effect
      <4>2. stmt[a].name \in suspect
        BY <4>1 DEF MovedDoubted
      <4> QED BY <2>6, <4>1, <4>2 DEF Settles
    <3> QED BY <3>1, <3>2
  <2>10. \A o \in Cursors : o # c => (Adding(o)' <=> Adding(o))
    BY <1>1, <2>1, <2>4 DEF Adding
  <2>11. \A o \in Cursors, n \in Names : Removing(o, n) => o # c /\ Removing(o, n)'
    BY <1>1, <2>1, <2>4 DEF Removing
  <2>12. NotesTrue'
    <3> SUFFICES ASSUME NEW n \in Names, n \notin suspect',
                        n \in cache \/ \E o \in Cursors : Adding(o)' /\ stmt[o].name = n
                 PROVE  <<db', n>> \in loaded' \/ \E o \in Cursors : Removing(o, n)'
      BY <1>1 DEF NotesTrue
    <3>1. CASE op \in Unloads \cup {"use"} /\ s.name \in {n, NoName}
      <4>1. pc'[c] = "callDone" /\ s.op = op
        BY <1>1, <2>1, <3>1 DEF Unloads
      <4>2. answer'[c] = "ok"
        BY <2>3, <3>1, StatementShape, <2>5, <4>1 DEF TypeOK, Unloads
      <4> QED BY <1>1, <3>1, <4>1, <4>2 DEF Removing
    <3>2. CASE op = "load" /\ s.name = n
      <4>1. s.db = db
        BY <2>2, <2>5, <2>6, <3>2 DEF MovedDoubted, Settles
      <4> QED BY <2>3, <3>2, <4>1 DEF Effect, Unloads
    <3>3. CASE /\ ~(op \in Unloads \cup {"use"} /\ s.name \in {n, NoName})
               /\ ~(op = "load" /\ s.name = n)
      <4>1. n \notin suspect
        BY <2>6, <3>3
      <4>2. op # "use"
        BY <2>5, <3>3, StatementShape
      <4>3. ~(Adding(c)' /\ stmt[c].name = n)
        BY <1>1, <2>1, <3>3 DEF Adding
      <4>4. <<db, n>> \in loaded \/ \E o \in Cursors : Removing(o, n)
        BY <2>10, <4>1, <4>3 DEF NotesTrue
      <4>5. db' = db /\ (<<db, n>> \in loaded => <<db, n>> \in loaded')
        BY <2>3, <3>3, <4>2 DEF Effect
      <4> QED BY <2>11, <4>4, <4>5
    <3> QED BY <3>1, <3>2, <3>3
  <2>13. ReadsLoaded'
    <3> SUFFICES ASSUME NEW o \in Cursors, pc'[o] = "call", stmt[o].op = "read",
                        stmt[o].name \notin suspect'
                 PROVE  <<stmt[o].db, stmt[o].name>> \in loaded'
      BY <1>1 DEF ReadsLoaded
    <3>1. o # c /\ pc[o] = "call" /\ Running(o)
      BY <1>1, <2>1 DEF Running
    <3>2. stmt[o].name \notin suspect
      BY <2>6, <3>1 DEF Settles
    <3>3. <<stmt[o].db, stmt[o].name>> \in loaded
      BY <3>1, <3>2 DEF ReadsLoaded
    <3>4. op \in Unloads => s.name # stmt[o].name
      <4> SUFFICES ASSUME op \in Unloads, s.name = stmt[o].name PROVE FALSE
        OBVIOUS
      <4>1. s.op \in Unloads
        BY DEF Unloads
      <4>2. stmt[o].name # NoName
        BY StatementShape DEF TypeOK
      <4>3. stmt[o].name \in Doubtful(stmt[o], s)
        BY <2>5, <4>1, <4>2, Doubted DEF TypeOK
      <4> QED BY <2>2, <3>1, <3>2, <4>3 DEF OverlapsDoubted
    <3> QED BY <2>3, <3>3, <3>4 DEF Effect
  <2> QED BY <2>7, <2>8, <2>9, <2>12, <2>13
<1> QED BY <1>2, <1>3

\* ResumeAfterLoad: the read goes out to a collection that is loaded, unless a
\* statement overlapped it that unloads the collection or switches database.
LEMMA LoadNotedStep ==
  ASSUME IInv, TypeOK', NEW c \in Cursors, ResumeAfterLoad(c)
  PROVE  IInv'
<1> USE DEF IInv
<1>1. /\ pc[c] = "loadDone" /\ answer[c] = "ok"
      /\ cache' = cache \cup {stmt[c].name}
      /\ UNCHANGED <<exists, loaded, db, answer, suspect>>
  BY DEF ResumeAfterLoad
<1>2. \A o \in Cursors :
        /\ pc'[o] = IF o = c THEN "call" ELSE pc[o]
        /\ stmt'[o].op = stmt[o].op
        /\ stmt'[o].name = stmt[o].name
        /\ stmt'[o].db = IF o = c THEN db ELSE stmt[o].db
  <2>1. \A o \in Cursors : stmt'[o] = IF o = c THEN [stmt[c] EXCEPT !.db = db] ELSE stmt[o]
    BY DEF ResumeAfterLoad, TypeOK
  <2>2. stmt[c] \in Statements /\ db \in Dbs
    BY DEF TypeOK
  <2>3. \A o \in Cursors : pc'[o] = IF o = c THEN "call" ELSE pc[o]
    BY DEF ResumeAfterLoad, TypeOK
  <2>4. /\ [stmt[c] EXCEPT !.db = db].op = stmt[c].op
        /\ [stmt[c] EXCEPT !.db = db].name = stmt[c].name
        /\ [stmt[c] EXCEPT !.db = db].db = db
    BY <2>2, StatementMoved
  <2> QED BY <2>1, <2>3, <2>4
<1>3. \A o \in Cursors : Running(o)' <=> Running(o)
  BY <1>1, <1>2 DEF Running
<1>4. stmt[c].op = "read" /\ stmt[c].name \in Names
  BY <1>1, StatementShape DEF AutoLoadsReads, TypeOK
<1>5. AutoLoadsReads' /\ MovedDoubted'
  BY <1>1, <1>2, <1>3 DEF AutoLoadsReads, MovedDoubted
<1>6. OverlapsDoubted'
  <2>1. \A a, o \in Cursors : Doubtful(stmt'[a], stmt'[o]) = Doubtful(stmt[a], stmt[o])
    BY <1>2 DEF Doubtful, Conflicts
  <2> QED BY <1>1, <1>3, <2>1 DEF OverlapsDoubted, Doubtful, Conflicts
<1>7. \A o \in Cursors : /\ Adding(o)' => Adding(o)
                       /\ \A n : Removing(o, n)' <=> Removing(o, n)
  BY <1>1, <1>2 DEF Adding, Removing
<1>8. NotesTrue'
  BY <1>1, <1>2, <1>7 DEF NotesTrue, Adding
<1>9. ReadsLoaded'
  <2> SUFFICES ASSUME NEW o \in Cursors, pc'[o] = "call", stmt'[o].op = "read",
                      stmt'[o].name \notin suspect
               PROVE  <<stmt'[o].db, stmt'[o].name>> \in loaded
    BY <1>1 DEF ReadsLoaded
  <2>1. CASE o # c
    BY <1>2, <2>1 DEF ReadsLoaded
  <2>2. CASE o = c
    <3> DEFINE n == stmt[c].name
    <3>1. n \in Names \ suspect /\ Adding(c)
      BY <1>1, <1>2, <1>4, <2>2 DEF Adding
    <3>2. <<db, n>> \in loaded \/ \E r \in Cursors : Removing(r, n)
      BY <3>1 DEF NotesTrue
    <3>3. ASSUME NEW r \in Cursors, Removing(r, n) PROVE FALSE
      <4>1. r # c /\ Running(r) /\ Running(c)
        BY <1>1, <3>3 DEF Removing, Running
      <4>2. n \in Doubtful(stmt[c], stmt[r])
        BY <3>1, <3>3, StatementShape, Doubted, NoNameAssumption DEF Removing, TypeOK
      <4> QED BY <3>1, <4>1, <4>2 DEF OverlapsDoubted
    <3> QED BY <1>2, <2>2, <3>2, <3>3
  <2> QED BY <2>1, <2>2
<1> QED BY <1>5, <1>6, <1>8, <1>9

\* A statement that ends doubts nothing any more and keeps what it doubted.
LEMMA EndsStep ==
  ASSUME IInv, NEW c \in Cursors,
         pc' = [pc EXCEPT ![c] = "idle"],
         UNCHANGED <<loaded, db, stmt, suspect>>
  PROVE  AutoLoadsReads' /\ OverlapsDoubted' /\ MovedDoubted' /\ ReadsLoaded'
<1> USE DEF IInv
<1>1. \A o \in Cursors : pc'[o] = IF o = c THEN "idle" ELSE pc[o]
  BY DEF TypeOK
<1>2. \A o \in Cursors : Running(o)' => Running(o)
  BY <1>1 DEF Running
<1> QED BY <1>1, <1>2 DEF AutoLoadsReads, OverlapsDoubted, MovedDoubted, ReadsLoaded

\* ResumeAfterCall: what note_load_state adds c was about to add, and what c
\* was about to remove it removes; a cursor that would add it again is in doubt.
LEMMA CallNotedStep ==
  ASSUME IInv, TypeOK', NEW c \in Cursors, ResumeAfterCall(c)
  PROVE  IInv'
<1> USE DEF IInv
<1> DEFINE s == stmt[c]
<1>1. /\ pc[c] = "callDone" /\ answer[c] = "ok"
      /\ cache' = NoteLoadState(cache, s)
      /\ pc' = [pc EXCEPT ![c] = "idle"]
      /\ UNCHANGED <<exists, loaded, db, stmt, answer, suspect>>
  BY DEF ResumeAfterCall
<1>2. \A o \in Cursors : pc'[o] = IF o = c THEN "idle" ELSE pc[o]
  BY <1>1 DEF TypeOK
<1>3. AutoLoadsReads' /\ OverlapsDoubted' /\ MovedDoubted' /\ ReadsLoaded'
  BY <1>1, EndsStep
<1>4. NotesTrue'
  <2> SUFFICES ASSUME NEW n \in Names \ suspect,
                      n \in cache' \/ \E o \in Cursors : Adding(o)' /\ stmt[o].name = n
               PROVE  <<db, n>> \in loaded \/ \E o \in Cursors : Removing(o, n)'
    BY <1>1 DEF NotesTrue
  <2>1. \A o \in Cursors : Adding(o)' => o # c /\ Adding(o)
    BY <1>1, <1>2 DEF Adding
  <2>2. n \in cache' => n \in cache \/ (Adding(c) /\ s.name = n)
    BY <1>1 DEF NoteLoadState, Adding, Unloads
  <2>3. <<db, n>> \in loaded \/ \E o \in Cursors : Removing(o, n)
    BY <2>1, <2>2 DEF NotesTrue
  <2>4. \A o \in Cursors : o # c /\ Removing(o, n) => Removing(o, n)'
    BY <1>1, <1>2 DEF Removing
  <2>5. ~Removing(c, n)
    <3> SUFFICES ASSUME Removing(c, n) PROVE FALSE
      OBVIOUS
    <3>1. s.op \in Unloads \cup {"use"} /\ s.name \in {n, NoName} /\ (s.op = "use" <=> s.name = NoName)
      BY StatementShape DEF Removing, TypeOK
    <3>2. n \notin cache'
      BY <1>1, <3>1, NoNameAssumption DEF NoteLoadState, Unloads
    <3>3. PICK o \in Cursors : o # c /\ Adding(o) /\ stmt[o].name = n
      BY <2>1, <3>2
    <3>4. Running(o) /\ Running(c)
      BY <1>1, <3>3 DEF Adding, Running
    <3>5. n \in Doubtful(stmt[o], s)
      BY <3>1, <3>3, NoNameAssumption, Doubted DEF TypeOK
    <3> QED BY <3>3, <3>4, <3>5 DEF OverlapsDoubted
  <2> QED BY <2>3, <2>4, <2>5
<1> QED BY <1>3, <1>4

\* ResumeWithError: nothing is noted, and nothing was about to be.
LEMMA ErrorStep ==
  ASSUME IInv, TypeOK', NEW c \in Cursors, ResumeWithError(c)
  PROVE  IInv'
<1> USE DEF IInv
<1>1. /\ answer[c] # "ok"
      /\ pc' = [pc EXCEPT ![c] = "idle"]
      /\ UNCHANGED <<exists, loaded, db, cache, stmt, answer, suspect>>
  BY DEF ResumeWithError
<1>2. \A o \in Cursors : pc'[o] = IF o = c THEN "idle" ELSE pc[o]
  BY <1>1 DEF TypeOK
<1>3. \A o \in Cursors : (Adding(o)' <=> Adding(o)) /\ (\A n : Removing(o, n)' <=> Removing(o, n))
  BY <1>1, <1>2 DEF Adding, Removing
<1>4. NotesTrue'
  BY <1>1, <1>3 DEF NotesTrue
<1> QED BY <1>1, <1>4, EndsStep

\* OtherClient: what it unloads is in doubt from then on.
LEMMA OthersStep ==
  ASSUME IInv, TypeOK', OtherClient
  PROVE  IInv'
<1> USE DEF IInv
<1>1. UNCHANGED <<db, cache, pc, stmt, answer>>
  BY DEF OtherClient
<1>2. /\ suspect \subseteq suspect'
      /\ \A d \in Dbs, n \in Names \ suspect' : <<d, n>> \in loaded => <<d, n>> \in loaded'
  BY DEF OtherClient
<1>3. \A o \in Cursors :
        /\ Running(o)' <=> Running(o)
        /\ Adding(o)' <=> Adding(o)
        /\ \A n : Removing(o, n)' <=> Removing(o, n)
  BY <1>1 DEF Running, Adding, Removing
<1>4. AutoLoadsReads' /\ OverlapsDoubted' /\ MovedDoubted'
  BY <1>1, <1>2, <1>3 DEF AutoLoadsReads, OverlapsDoubted, MovedDoubted, Doubtful, Conflicts
<1>5. NotesTrue'
  BY <1>1, <1>2, <1>3 DEF NotesTrue, TypeOK
<1>6. ReadsLoaded'
  BY <1>1, <1>2, StatementShape, NoNameAssumption DEF ReadsLoaded, TypeOK
<1> QED BY <1>4, <1>5, <1>6

LEMMA InitInv == Init => IInv
<1> SUFFICES ASSUME Init PROVE IInv
  OBVIOUS
<1>1. TypeOK
  BY DEF Init, TypeOK, Statements
<1>2. \A c \in Cursors : pc[c] = "idle" /\ ~Adding(c) /\ ~Running(c)
  BY DEF Init, Adding, Running
<1>3. NotesTrue
  BY <1>2 DEF NotesTrue, Init
<1> QED BY <1>1, <1>2, <1>3 DEF IInv, AutoLoadsReads, OverlapsDoubted, MovedDoubted, ReadsLoaded

\* The invariant is inductive.
LEMMA InvStep ==
  ASSUME IInv, [Next]_vars
  PROVE  IInv'
<1>1. TypeOK'
  BY TypeStep DEF IInv
<1>2. ASSUME NEW c \in Cursors, NEW s \in Statements, Start(c, s) PROVE IInv'
  BY <1>1, <1>2, StartStep
<1>3. ASSUME NEW c \in Cursors, Serve(c) PROVE IInv'
  BY <1>1, <1>3, ServeStep
<1>4. ASSUME NEW c \in Cursors, RpcFails(c) PROVE IInv'
  BY <1>1, <1>4, UnservedStep DEF RpcFails
<1>5. ASSUME NEW c \in Cursors, ResumeAfterLoad(c) PROVE IInv'
  BY <1>1, <1>5, LoadNotedStep
<1>6. ASSUME NEW c \in Cursors, ResumeAfterCall(c) PROVE IInv'
  BY <1>1, <1>6, CallNotedStep
<1>7. ASSUME NEW c \in Cursors, ResumeWithError(c) PROVE IInv'
  BY <1>1, <1>7, ErrorStep
<1>8. CASE OtherClient
  BY <1>1, <1>8, OthersStep
<1>9. CASE UNCHANGED vars
  BY <1>1, <1>9 DEF vars, IInv, AutoLoadsReads, OverlapsDoubted, MovedDoubted, NotesTrue,
     ReadsLoaded, Running, Adding, Removing, Doubtful, Conflicts
<1> QED BY <1>2, <1>3, <1>4, <1>5, <1>6, <1>7, <1>8, <1>9 DEF Next

LEMMA Invariance == Spec => []IInv
  BY InitInv, InvStep, PTL DEF Spec

-----------------------------------------------------------------------------
(* The theorems.                                                           *)

\* The cache holds names of collections, and only what exists is loaded,
\* whatever overlaps, fails or is lost.
THEOREM TypeCorrect == Spec => []TypeOK
<1>1. IInv => TypeOK
  BY DEF IInv
<1> QED BY <1>1, Invariance, PTL

\* The auto-LOAD cache is right about every name that is not in doubt.
THEOREM CacheIsHonest == Spec => []HonestUnlessSuspect
<1>1. ASSUME IInv PROVE HonestUnlessSuspect
  <2> SUFFICES ASSUME NEW n \in cache \ suspect
               PROVE  Unloading(n) \/ <<db, n>> \in loaded
    BY DEF HonestUnlessSuspect
  <2>1. n \in Names \ suspect
    BY <1>1 DEF IInv, TypeOK
  <2>2. <<db, n>> \in loaded \/ \E c \in Cursors : Removing(c, n)
    BY <1>1, <2>1 DEF IInv, NotesTrue
  <2> QED BY <2>2 DEF Removing, Unloading, Running
<1> QED BY <1>1, Invariance, PTL

\* No caller sees "collection not loaded" for a name that is not in doubt.
THEOREM ReadsFindTheirCollection == Spec => RefusedOnlyIfSuspect
<1> DEFINE Refused(c) == pc[c] = "call" /\ pc'[c] = "callDone" /\ answer'[c] = "not_loaded"
           A == \A c \in Cursors : Refused(c) => stmt[c].name \in suspect
<1>1. ASSUME IInv, [Next]_vars PROVE [A]_vars
  <2> SUFFICES ASSUME NEW c \in Cursors, Refused(c), Next
               PROVE  stmt[c].name \in suspect
    BY <1>1
  <2>1. ASSUME NEW o \in Cursors, NEW s \in Statements, Start(o, s) PROVE FALSE
    BY <1>1, <2>1 DEF Start, IInv, TypeOK
  <2>2. ASSUME NEW o \in Cursors, RpcFails(o) PROVE FALSE
    BY <1>1, <2>2 DEF RpcFails, IInv, TypeOK
  <2>3. ASSUME NEW o \in Cursors, ResumeAfterLoad(o) \/ ResumeAfterCall(o) \/ ResumeWithError(o)
        PROVE  FALSE
    BY <1>1, <2>3 DEF ResumeAfterLoad, ResumeAfterCall, ResumeWithError, IInv, TypeOK
  <2>4. ASSUME NEW o \in Cursors, Serve(o) PROVE stmt[c].name \in suspect
    <3>1. o = c
      BY <1>1, <2>4 DEF Serve, IInv, TypeOK
    <3>2. Refusal(stmt[c].op, stmt[c]) = "not_loaded"
      BY <1>1, <2>4, <3>1 DEF Serve, IInv, TypeOK
    <3>3. stmt[c].op = "read" /\ <<stmt[c].db, stmt[c].name>> \notin loaded
      BY <3>2 DEF Refusal
    <3> QED BY <1>1, <3>3 DEF IInv, ReadsLoaded
  <2>5. ~OtherClient
    BY DEF OtherClient
  <2> QED BY <2>1, <2>2, <2>3, <2>4, <2>5 DEF Next
<1> QED BY <1>1, Invariance, PTL DEF Spec, RefusedOnlyIfSuspect
=============================================================================
