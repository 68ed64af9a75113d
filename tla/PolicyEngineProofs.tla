------------------------- MODULE PolicyEngineProofs -------------------------
(***************************************************************************)
(* TLAPS proofs about PolicyEngine, for every set of requests, admin       *)
(* calls, policies and expressions.                                        *)
(*                                                                         *)
(* FreshUnlessRaced needs to know what a request holds in its hands: as    *)
(* long as nothing committed since it read the table, the rows it has yet  *)
(* to try are rows of the table (Held).  A commit breaks that for every    *)
(* request in flight, taints them all, and leaves its own Reload           *)
(* outstanding; the Reload empties the cache.                              *)
(***************************************************************************)
EXTENDS PolicyEngine, FiniteSetTheorems, TLAPS

\* A row is stored under its own id, and was inserted once.
Keyed == \A i \in Id : table[i] # None => table[i].id = i /\ i \in born

\* What a request has yet to try are current rows, unless a change overlapped.
Held ==
    \A q \in Request :
        phase[q] \in {"loop", "compiled"} /\ "overlapped" \notin taint[q] =>
            \A p \in todo[q] : table[p.id] = p

\* Only an expression that compiles is on its way into the cache.
Compiles ==
    \A q \in Request : phase[q] = "compiled" =>
        \A p \in Heads(todo[q]) : p.expr \notin Invalid

\* An update under way has read a row.
Reading == \A a \in Admin : step[a] = "read" => existing[a] # None

IInv == TypeOK /\ Keyed /\ Held /\ Compiles /\ Reading /\ FreshUnlessRaced

USE ExprAssumption, PriorityAssumption, TableAssumption, NoneAssumption,
    BoundAssumption

-----------------------------------------------------------------------------

LEMMA InitIInv == Init => IInv
<1> SUFFICES ASSUME Init PROVE IInv
  OBVIOUS
<1>1. table \in [Id -> Row \cup {None}]
  BY DEF Init
<1>2. TypeOK
  BY <1>1 DEF Init, TypeOK
<1> QED
  BY <1>1, <1>2 DEF Init, IInv, Keyed, Held, Compiles, Reading, FreshUnlessRaced

\* Trying a policy leaves the rows a request holds among those it held, keeps
\* the types, and touches no other request.
LEMMA TryKeeps ==
    ASSUME TypeOK, NEW q \in Request, NEW p \in todo[q], NEW prog, Try(q, p, prog)
    PROVE  /\ todo' \in [Request -> SUBSET Row]
           /\ phase' \in [Request -> {"idle", "loop", "compiled", "done"}]
           /\ verdict' \in [Request -> Verdict \cup {None}]
           /\ \A r \in Request : todo'[r] \subseteq todo[r]
           /\ \A r \in Request \ {q} : phase'[r] = phase[r]
           /\ phase'[q] \in {"loop", "done"}
<1>1. p \in Row /\ p.id \in Id /\ p.action \in Action
  BY DEF TypeOK, Row
<1>2. Result(p) \in Verdict
  BY <1>1 DEF Result, Verdict
<1> QED
  BY <1>1, <1>2 DEF Try, TypeOK

\* Rows have at most one head: the order of ListActive is strict.
LEMMA OneHead ==
    ASSUME NEW S \in SUBSET Row, NEW p \in Heads(S), NEW r \in Heads(S)
    PROVE  p = r
<1>1. p \in Row /\ r \in Row /\ p.priority \in Int /\ r.priority \in Int
      /\ p.created \in Nat /\ r.created \in Nat
  BY DEF Heads, Row
<1>2. p # r => Before(p, r) /\ Before(r, p)
  BY DEF Heads
<1> QED
  BY <1>1, <1>2 DEF Before

\* One step of a request keeps the invariant.
LEMMA RequestKeepsIInv ==
    ASSUME IInv, NEW q \in Request,
           \/ Begin(q) \/ BeginFails(q) \/ CacheHit(q) \/ CacheMiss(q)
           \/ CompileError(q) \/ StoreProgram(q) \/ Finish(q)
    PROVE  IInv'
<1> USE DEF IInv
<1>0. Keyed' /\ Reading'
  <2>1. UNCHANGED <<table, born, step, existing>>
    BY DEF Begin, BeginFails, CacheHit, CacheMiss, CompileError, StoreProgram,
           Finish, db, admin
  <2> QED
    BY <2>1 DEF Keyed, Reading
<1>1. CASE Begin(q)
  <2>1. ListActive(table) \subseteq Row
    BY DEF ListActive, Rows, TypeOK
  <2>2. \A p \in ListActive(table) : table[p.id] = p
    BY DEF ListActive, Rows, TypeOK, Keyed
  <2>3. TypeOK'
    BY <1>1, <2>1 DEF Begin, TypeOK, db, engine, admin
  <2>4. Held'
    BY <1>1, <2>2 DEF Begin, Held, TypeOK, db
  <2>5. Compiles'
    BY <1>1 DEF Begin, Compiles, TypeOK
  <2> QED
    BY <1>0, <1>1, <2>3, <2>4, <2>5
       DEF Begin, FreshUnlessRaced, Unannounced, db, engine, admin
<1>2. CASE BeginFails(q)
  <2>1. TypeOK' /\ Held' /\ Compiles'
    BY <1>2 DEF BeginFails, TypeOK, Held, Compiles, db, engine, admin
  <2> QED
    BY <1>0, <1>2, <2>1
       DEF BeginFails, FreshUnlessRaced, Unannounced, db, engine, admin
<1>3. CASE CacheHit(q)
  <2>1. PICK p \in Heads(todo[q]) :
           /\ Try(q, p, programs[p.id])
           /\ taint' = [taint EXCEPT ![q] = IF p.id \in raced
                                              THEN @ \cup {"raced"} ELSE @]
    BY <1>3 DEF CacheHit
  <2>2. p \in todo[q]
    BY DEF Heads
  <2>3. TypeOK'
    BY <1>3, <2>1, <2>2, TryKeeps DEF CacheHit, TypeOK, db, engine, admin
  <2>4. Held'
    BY <1>3, <2>1, <2>2, TryKeeps DEF CacheHit, TypeOK, Held, db
  <2>5. Compiles'
    BY <1>3, <2>1, <2>2, TryKeeps DEF CacheHit, TypeOK, Compiles, Try
  <2> QED
    BY <1>0, <1>3, <2>3, <2>4, <2>5
       DEF CacheHit, FreshUnlessRaced, Unannounced, db, engine, admin
<1>4. CASE CacheMiss(q)
  <2>1. TypeOK' /\ Held'
    BY <1>4 DEF CacheMiss, TypeOK, Held, db, engine, admin
  <2>2. Compiles'
    <3>1. \A p \in Heads(todo[q]) : p.expr \notin Invalid
      BY <1>4, OneHead DEF CacheMiss, TypeOK
    <3> QED
      BY <1>4, <3>1 DEF CacheMiss, TypeOK, Compiles
  <2> QED
    BY <1>0, <1>4, <2>1, <2>2
       DEF CacheMiss, FreshUnlessRaced, Unannounced, db, engine, admin
<1>5. CASE CompileError(q)
  <2>1. PICK p \in Heads(todo[q]) : Try(q, p, None)
    BY <1>5 DEF CompileError
  <2>2. p \in todo[q]
    BY DEF Heads
  <2>3. TypeOK'
    BY <1>5, <2>1, <2>2, TryKeeps DEF CompileError, TypeOK, db, engine, admin
  <2>4. Held'
    BY <1>5, <2>1, <2>2, TryKeeps DEF CompileError, TypeOK, Held, db
  <2>5. Compiles'
    BY <1>5, <2>1, <2>2, TryKeeps DEF CompileError, TypeOK, Compiles, Try
  <2> QED
    BY <1>0, <1>5, <2>3, <2>4, <2>5
       DEF CompileError, FreshUnlessRaced, Unannounced, db, engine, admin
<1>6. CASE StoreProgram(q)
  <2>1. PICK p \in Heads(todo[q]) :
           /\ programs' = [programs EXCEPT ![p.id] = p.expr]
           /\ raced' = IF "overlapped" \in taint[q] THEN raced \cup {p.id}
                       ELSE raced \ {p.id}
           /\ Try(q, p, p.expr)
    BY <1>6 DEF StoreProgram
  <2>2. p \in todo[q] /\ p \in Row /\ p.id \in Id
    BY DEF Heads, TypeOK, Row
  <2>3. TypeOK'
    <3>1. p.expr \in Expr \ Invalid
      BY <1>6, <2>2 DEF StoreProgram, Compiles, Row
    <3>2. /\ programs' \in [Id -> (Expr \ Invalid) \cup {None}]
          /\ raced' \subseteq Id
      BY <2>1, <2>2, <3>1 DEF TypeOK
    <3> QED
      BY <1>6, <2>1, <2>2, <3>2, TryKeeps DEF StoreProgram, TypeOK, db, admin
  <2>4. Held'
    BY <1>6, <2>1, <2>2, TryKeeps DEF StoreProgram, TypeOK, Held, db
  <2>5. FreshUnlessRaced'
    BY <1>6, <2>1, <2>2
       DEF StoreProgram, TypeOK, Held, FreshUnlessRaced, Unannounced, db, admin
  <2>6. Compiles'
    BY <1>6, <2>1, <2>2, TryKeeps DEF StoreProgram, TypeOK, Compiles, Try
  <2> QED
    BY <1>0, <1>6, <2>3, <2>4, <2>5, <2>6 DEF StoreProgram, db
<1>7. CASE Finish(q)
  <2>1. TypeOK' /\ Held' /\ Compiles'
    BY <1>7 DEF Finish, TypeOK, Held, Compiles, db, engine, admin
  <2> QED
    BY <1>0, <1>7, <2>1
       DEF Finish, FreshUnlessRaced, Unannounced, db, engine, admin
<1> QED
  BY <1>1, <1>2, <1>3, <1>4, <1>5, <1>6, <1>7

\* A commit of well-formed rows keeps the types, taints the requests in flight
\* and leaves a Reload outstanding.
LEMMA CommitKeeps ==
    ASSUME IInv, NEW a \in Admin, NEW t \in [Id -> Row \cup {None}], Commit(a, t)
    PROVE  /\ table' = t
           /\ Held' /\ Compiles' /\ FreshUnlessRaced'
           /\ step' \in [Admin -> {"idle", "read", "reload"}]
           /\ taint' \in [Request -> SUBSET {"unannounced", "error", "raced",
                                             "overlapped"}]
           /\ changes' \in 0..MaxChanges
           /\ UNCHANGED <<engine, request>>
<1>1. Unannounced'
  BY DEF Commit, Unannounced, IInv, TypeOK
<1>2. Held' /\ Compiles'
  BY DEF Commit, IInv, TypeOK, Held, Compiles, request
<1> QED
  BY <1>1, <1>2 DEF Commit, IInv, TypeOK, FreshUnlessRaced

\* An update keeps a row a row, under its id.
LEMMA EditedIsRow ==
    ASSUME NEW row \in Row, NEW e \in Expr \cup {None},
           NEW act \in Action \cup {None}, NEW p \in Priority, NEW b \in BOOLEAN
    PROVE  Edited(row, e, act, p, b) \in Row
           /\ Edited(row, e, act, p, b).id = row.id
BY DEF Edited, Row

\* A call that commits a row under its own id, or removes one, keeps the
\* invariant.
LEMMA ChangeKeepsIInv ==
    ASSUME IInv, NEW a \in Admin, NEW i \in Id, NEW row \in Row \cup {None},
           row # None => row.id = i /\ i \in born',
           Commit(a, [table EXCEPT ![i] = row]),
           born \subseteq born', born' \subseteq Id,
           existing' \in [Admin -> Row \cup {None}],
           \A b \in Admin \ {a} : existing'[b] = existing[b]
    PROVE  IInv'
<1> DEFINE t == [table EXCEPT ![i] = row]
<1>1. t \in [Id -> Row \cup {None}]
  BY DEF IInv, TypeOK
<1>2. \A j \in Id : t[j] # None => t[j].id = j /\ j \in born'
  BY DEF IInv, TypeOK, Keyed
<1>3. Commit(a, t)
  OBVIOUS
<1> HIDE DEF t
<1>4. /\ table' = t
      /\ Held' /\ Compiles' /\ FreshUnlessRaced'
      /\ step' \in [Admin -> {"idle", "read", "reload"}]
      /\ taint' \in [Request -> SUBSET {"unannounced", "error", "raced",
                                        "overlapped"}]
      /\ changes' \in 0..MaxChanges
      /\ UNCHANGED <<engine, request>>
  BY <1>1, <1>3, CommitKeeps
<1>5. Keyed'
  BY <1>2, <1>4 DEF Keyed
<1>6. Reading'
  BY <1>3 DEF Commit, IInv, TypeOK, Reading
<1>7. TypeOK'
  BY <1>1, <1>4 DEF IInv, TypeOK, engine, request
<1> QED
  BY <1>4, <1>5, <1>6, <1>7 DEF IInv

\* A row that handleCreatePolicy inserts is a row.
LEMMA CreatedIsRow ==
    ASSUME TypeOK, NEW i \in Id, NEW e \in Expr, NEW p \in Priority,
           NEW b \in BOOLEAN, NEW act \in Action
    PROVE  [id |-> i, expr |-> e, action |-> act, priority |-> p,
            enabled |-> b, created |-> Cardinality(born)] \in Row
<1>1. IsFiniteSet(Id) /\ born \in SUBSET Id
  BY DEF TypeOK
<1>2. IsFiniteSet(born) /\ Cardinality(born) <= Cardinality(Id)
  BY <1>1, FS_Subset
<1>3. Cardinality(born) \in 0..Cardinality(Id)
  BY <1>1, <1>2, FS_CardinalityType
<1> QED
  BY <1>3 DEF Row

\* One step of an admin call keeps the invariant.
LEMMA AdminKeepsIInv ==
    ASSUME IInv, NEW a \in Admin,
           \/ Create(a) \/ UpdateRead(a) \/ UpdateWrite(a) \/ UpdateGone(a)
           \/ Delete(a) \/ Reload(a) \/ ReloadPolicies(a)
    PROVE  IInv'
<1>1. CASE Create(a)
  <2>1. PICK i \in Id \ born, e \in Expr, p \in Priority, b \in BOOLEAN,
             act \in {"block", "alert", "downgrade"} \cap Action :
           /\ Commit(a, [table EXCEPT ![i] =
                  [id |-> i, expr |-> e, action |-> act, priority |-> p,
                   enabled |-> b, created |-> Cardinality(born)]])
           /\ born' = born \cup {i}
    BY <1>1 DEF Create
  <2> DEFINE row == [id |-> i, expr |-> e, action |-> act, priority |-> p,
                     enabled |-> b, created |-> Cardinality(born)]
  <2>2. row \in Row
    BY CreatedIsRow DEF IInv
  <2>3. row.id = i /\ Commit(a, [table EXCEPT ![i] = row])
    BY <2>1
  <2> HIDE DEF row
  <2>4. existing' \in [Admin -> Row \cup {None}] /\ UNCHANGED existing
        /\ born' \subseteq Id /\ born \subseteq born' /\ i \in born'
    BY <1>1, <2>1 DEF Create, IInv, TypeOK
  <2> QED
    BY <2>2, <2>3, <2>4, ChangeKeepsIInv
<1>2. CASE UpdateRead(a)
  <2>1. PICK i \in Id : table[i] # None /\ existing' = [existing EXCEPT ![a] = table[i]]
    BY <1>2 DEF UpdateRead
  <2>2. TypeOK' /\ Held' /\ Compiles' /\ Keyed'
    BY <1>2, <2>1
       DEF UpdateRead, IInv, TypeOK, Held, Compiles, Keyed, db, engine, request
  <2>3. Reading'
    BY <1>2, <2>1 DEF UpdateRead, IInv, TypeOK, Reading
  <2>4. Unannounced' = Unannounced
    BY <1>2 DEF UpdateRead, Unannounced, IInv, TypeOK
  <2> QED
    BY <1>2, <2>2, <2>3, <2>4 DEF UpdateRead, IInv, FreshUnlessRaced, db, engine
<1>3. CASE UpdateWrite(a)
  <2>1. PICK e \in Expr \cup {None}, act \in Action \cup {None},
             p \in Priority, b \in BOOLEAN :
           Commit(a, [table EXCEPT ![existing[a].id] =
                                     Edited(existing[a], e, act, p, b)])
    BY <1>3 DEF UpdateWrite
  <2> DEFINE i == existing[a].id
             row == Edited(existing[a], e, act, p, b)
  <2>2. existing[a] \in Row /\ i \in Id
    BY <1>3 DEF UpdateWrite, IInv, TypeOK, Reading, Row
  <2>3. row \in Row /\ row.id = i
    BY <2>2, EditedIsRow
  <2>4. i \in born
    BY <1>3, <2>2 DEF UpdateWrite, IInv, Keyed
  <2>5. existing' \in [Admin -> Row \cup {None}] /\ UNCHANGED born
        /\ \A c \in Admin \ {a} : existing'[c] = existing[c]
    BY <1>3 DEF UpdateWrite, IInv, TypeOK
  <2>6. Commit(a, [table EXCEPT ![i] = row]) /\ born \subseteq Id
    BY <2>1 DEF IInv, TypeOK
  <2> HIDE DEF i, row
  <2> QED
    BY <2>2, <2>3, <2>4, <2>5, <2>6, ChangeKeepsIInv
<1>4. CASE UpdateGone(a)
  <2>1. TypeOK' /\ Held' /\ Compiles' /\ Keyed' /\ Reading'
    BY <1>4 DEF UpdateGone, IInv, TypeOK, Held, Compiles, Keyed, Reading, db,
                engine, request
  <2>2. Unannounced' = Unannounced
    BY <1>4 DEF UpdateGone, Unannounced, IInv, TypeOK
  <2> QED
    BY <1>4, <2>1, <2>2 DEF UpdateGone, IInv, FreshUnlessRaced, db, engine
<1>5. CASE Delete(a)
  <2>1. PICK i \in Id : Commit(a, [table EXCEPT ![i] = None])
    BY <1>5 DEF Delete
  <2>2. UNCHANGED <<born, existing>> /\ born \subseteq Id
        /\ existing' \in [Admin -> Row \cup {None}]
    BY <1>5 DEF Delete, IInv, TypeOK
  <2> QED
    BY <2>1, <2>2, ChangeKeepsIInv
<1>6. CASE Reload(a) \/ ReloadPolicies(a)
  <2>1. TypeOK' /\ Held' /\ Compiles' /\ Keyed' /\ Reading'
    BY <1>6 DEF Reload, ReloadPolicies, IInv, TypeOK, Held, Compiles, Keyed,
                Reading, db, request, admin
  <2>2. programs' = [i \in Id |-> None]
    BY <1>6 DEF Reload, ReloadPolicies
  <2> QED
    BY <2>1, <2>2 DEF IInv, FreshUnlessRaced
<1> QED
  BY <1>1, <1>2, <1>3, <1>4, <1>5, <1>6

LEMMA NextIInv == IInv /\ [Next]_vars => IInv'
<1> SUFFICES ASSUME IInv, [Next]_vars PROVE IInv'
  OBVIOUS
<1>1. CASE Next
  BY <1>1, RequestKeepsIInv, AdminKeepsIInv DEF Next
<1>2. CASE UNCHANGED vars
  BY <1>2 DEF vars, IInv, TypeOK, Keyed, Held, Compiles, Reading,
              FreshUnlessRaced, Unannounced
<1> QED
  BY <1>1, <1>2

-----------------------------------------------------------------------------

\* The inductive invariant holds in every reachable state.
THEOREM Invariant == Spec => []IInv
BY InitIInv, NextIInv, PTL DEF Spec

\* The variables keep their types.
THEOREM TypeCorrect == Spec => []TypeOK
<1>1. IInv => TypeOK
  BY DEF IInv
<1> QED
  BY <1>1, Invariant, PTL

\* With no Reload outstanding, a cached program is the one of the row's current
\* expression, unless a request that overlapped a change stored it
\* (engine.go:123-144).
THEOREM FreshAlways == Spec => []FreshUnlessRaced
<1>1. IInv => FreshUnlessRaced
  BY DEF IInv
<1> QED
  BY <1>1, Invariant, PTL

\* No interleaving of creates, updates and deletes brings a deleted policy back:
\* an update commits only over a row that is still there, and a create takes an
\* id never used before (policies.go:137-160, policy_store.go:34-49).
THEOREM DeletedStay == Spec => DeletedStaysDeleted
<1> DEFINE Stay == \A i \in born : table[i] = None => table'[i] = None
<1>1. IInv /\ [Next]_vars => [Stay]_vars
  <2> SUFFICES ASSUME IInv, Next, NEW i \in born, table[i] = None
               PROVE  table'[i] = None
    OBVIOUS
  <2>0. i \in Id /\ table \in [Id -> Row \cup {None}]
    BY DEF IInv, TypeOK
  <2>1. ASSUME NEW q \in Request,
               \/ Begin(q) \/ BeginFails(q) \/ CacheHit(q) \/ CacheMiss(q)
               \/ CompileError(q) \/ StoreProgram(q) \/ Finish(q)
        PROVE  table' = table
    BY <2>1 DEF Begin, BeginFails, CacheHit, CacheMiss, CompileError,
                StoreProgram, Finish, db
  <2>2. ASSUME NEW a \in Admin, Create(a) PROVE table'[i] = None
    BY <2>0, <2>2 DEF Create, Commit
  <2>3. ASSUME NEW a \in Admin, UpdateWrite(a) PROVE table'[i] = None
    BY <2>0, <2>3 DEF UpdateWrite, Commit
  <2>4. ASSUME NEW a \in Admin, Delete(a) PROVE table'[i] = None
    BY <2>0, <2>4 DEF Delete, Commit
  <2>5. ASSUME NEW a \in Admin,
               UpdateRead(a) \/ UpdateGone(a) \/ Reload(a) \/ ReloadPolicies(a)
        PROVE  table' = table
    BY <2>5 DEF UpdateRead, UpdateGone, Reload, ReloadPolicies, db
  <2> QED
    BY <2>1, <2>2, <2>3, <2>4, <2>5 DEF Next
<1> QED
  BY <1>1, Invariant, PTL DEF Spec, DeletedStaysDeleted

-----------------------------------------------------------------------------

\* What a request in flight that nothing has tainted knows: every Reload was
\* done when it began, and the active rows it has passed over do not match.
Quiet ==
    \A q \in Request :
        /\ phase[q] # "done" => verdict[q] = None
        /\ phase[q] \in {"loop", "compiled"} /\ taint[q] = {} =>
              /\ ~Unannounced
              /\ todo[q] \subseteq ListActive(table)
              /\ \A r \in ListActive(table) \ todo[q] : r.expr \notin Matching

QInv == Quiet /\ QuietVerdictCorrect

\* When only rows that do not match were passed over, the row at the head is
\* the first that matches if its own expression does.
LEMMA HeadIsFirst ==
    ASSUME TypeOK, NEW S \in SUBSET ListActive(table), NEW p \in Heads(S),
           p.expr \in Matching,
           \A r \in ListActive(table) \ S : r.expr \notin Matching
    PROVE  FirstMatch(table) = Result(p)
<1> DEFINE hits == {r \in ListActive(table) : r.expr \in Matching}
           First(r) == \A s \in hits \ {r} : Before(r, s)
<1>1. hits \subseteq Row
  BY DEF ListActive, Rows, TypeOK
<1>2. p \in hits /\ hits \subseteq S
  BY DEF Heads
<1>3. First(p)
  BY <1>2 DEF Heads
<1>4. ASSUME NEW r \in hits, First(r) PROVE r = p
  <2>1. r \in Heads(hits) /\ p \in Heads(hits)
    BY <1>2, <1>3, <1>4 DEF Heads
  <2> QED
    BY <1>1, <2>1, OneHead
<1>5. (CHOOSE r \in hits : First(r)) = p
  BY <1>2, <1>3, <1>4
<1> QED
  BY <1>2, <1>5 DEF FirstMatch

LEMMA NothingMatches ==
    ASSUME \A r \in ListActive(table) : r.expr \notin Matching
    PROVE  FirstMatch(table) = None
BY DEF FirstMatch

\* Trying a row with its own expression, or skipping one that cannot match,
\* keeps what an untainted request knows, and gives the right verdict.
LEMMA TryKeepsQuiet ==
    ASSUME IInv, QInv, NEW q \in Request, NEW p \in Heads(todo[q]), NEW prog,
           phase[q] \in {"loop", "compiled"}, Try(q, p, prog),
           UNCHANGED <<table, step>>,
           \A r \in Request \ {q} : taint'[r] = taint[r],
           taint'[q] = {} => /\ taint[q] = {}
                             /\ prog \in Matching <=> p.expr \in Matching
    PROVE  QInv'
<1>1. p \in todo[q] /\ TypeOK
  BY DEF Heads, IInv
<1>2. \A r \in Request \ {q} :
         phase'[r] = phase[r] /\ verdict'[r] = verdict[r] /\ todo'[r] = todo[r]
  BY DEF Try, IInv, TypeOK
<1>3. CASE prog \in Matching
  <2>1. phase'[q] = "done" /\ verdict'[q] = Result(p)
    BY <1>3 DEF Try, IInv, TypeOK
  <2>2. taint'[q] = {} => FirstMatch(table) = Result(p)
    BY <1>1, <1>3, HeadIsFirst DEF QInv, Quiet
  <2>3. Quiet'
    BY <1>2, <2>1 DEF QInv, Quiet, Unannounced
  <2>4. QuietVerdictCorrect'
    <3>1. SUFFICES ASSUME NEW r \in Request, phase'[r] = "done", taint'[r] = {}
                   PROVE  verdict'[r] = FirstMatch(table)
      BY DEF QuietVerdictCorrect
    <3>2. CASE r = q
      BY <2>1, <2>2, <3>1, <3>2
    <3>3. CASE r # q
      BY <1>2, <3>1, <3>3 DEF QInv, QuietVerdictCorrect
    <3> QED
      BY <3>2, <3>3
  <2> QED
    BY <2>3, <2>4 DEF QInv
<1>4. CASE prog \notin Matching
  <2>1. /\ todo'[q] = todo[q] \ {p}
        /\ verdict'[q] = None
        /\ phase'[q] = IF todo[q] = {p} THEN "done" ELSE "loop"
    BY <1>4 DEF Try, IInv, TypeOK, QInv, Quiet
  <2>2. Quiet'
    BY <1>2, <1>4, <2>1 DEF QInv, Quiet, Unannounced
  <2>3. taint'[q] = {} /\ todo[q] = {p} => FirstMatch(table) = None
    BY <1>4, NothingMatches DEF QInv, Quiet
  <2> QED
    BY <1>2, <2>1, <2>2, <2>3 DEF QInv, QuietVerdictCorrect
<1> QED
  BY <1>3, <1>4

LEMMA RequestKeepsQInv ==
    ASSUME IInv, QInv, NEW q \in Request,
           \/ Begin(q) \/ BeginFails(q) \/ CacheHit(q) \/ CacheMiss(q)
           \/ CompileError(q) \/ StoreProgram(q) \/ Finish(q)
    PROVE  QInv'
<1>1. CASE Begin(q)
  <2>1. ListActive(table) = {} => FirstMatch(table) = None
    BY NothingMatches
  <2>2. Quiet'
    BY <1>1 DEF Begin, QInv, Quiet, IInv, TypeOK, db, admin, Unannounced
  <2>3. QuietVerdictCorrect'
    BY <1>1, <2>1 DEF Begin, QInv, Quiet, QuietVerdictCorrect, IInv, TypeOK, db
  <2> QED
    BY <2>2, <2>3 DEF QInv
<1>2. CASE BeginFails(q)
  BY <1>2 DEF BeginFails, QInv, Quiet, QuietVerdictCorrect, IInv, TypeOK, db,
              admin, Unannounced
<1>3. CASE CacheHit(q)
  <2>1. PICK p \in Heads(todo[q]) :
           /\ programs[p.id] # None
           /\ Try(q, p, programs[p.id])
           /\ taint' = [taint EXCEPT ![q] = IF p.id \in raced
                                              THEN @ \cup {"raced"} ELSE @]
    BY <1>3 DEF CacheHit
  <2>2. p \in Row /\ p.id \in Id /\ p \in todo[q]
    BY DEF Heads, IInv, TypeOK, Row
  <2>3. taint'[q] = {} => taint[q] = {} /\ programs[p.id] = p.expr
    <3>1. SUFFICES ASSUME taint'[q] = {}
                   PROVE  taint[q] = {} /\ programs[p.id] = p.expr
      OBVIOUS
    <3>2. taint[q] = {} /\ p.id \notin raced
      BY <2>1, <3>1 DEF IInv, TypeOK
    <3>3. ~Unannounced /\ table[p.id] = p /\ p # None
      BY <1>3, <2>2, <3>2 DEF CacheHit, QInv, Quiet, IInv, Held
    <3> QED
      BY <2>1, <2>2, <3>2, <3>3 DEF IInv, FreshUnlessRaced
  <2>4. UNCHANGED <<table, step>> /\ \A r \in Request \ {q} : taint'[r] = taint[r]
    BY <1>3, <2>1 DEF CacheHit, db, admin, IInv, TypeOK
  <2> QED
    BY <1>3, <2>1, <2>3, <2>4, TryKeepsQuiet DEF CacheHit
<1>4. CASE CacheMiss(q)
  BY <1>4 DEF CacheMiss, QInv, Quiet, QuietVerdictCorrect, IInv, TypeOK, db,
              admin, Unannounced
<1>5. CASE CompileError(q)
  <2>1. PICK p \in Heads(todo[q]) : p.expr \in Invalid /\ Try(q, p, None)
    BY <1>5 DEF CompileError
  <2>2. p.expr \notin Matching /\ None \notin Matching
    BY <2>1
  <2> QED
    BY <1>5, <2>1, <2>2, TryKeepsQuiet DEF CompileError, db, admin
<1>6. CASE StoreProgram(q)
  <2>1. PICK p \in Heads(todo[q]) : Try(q, p, p.expr)
    BY <1>6 DEF StoreProgram
  <2> QED
    BY <1>6, <2>1, TryKeepsQuiet DEF StoreProgram, db, admin
<1>7. CASE Finish(q)
  BY <1>7 DEF Finish, QInv, Quiet, QuietVerdictCorrect, IInv, TypeOK, db, admin,
              Unannounced
<1> QED
  BY <1>1, <1>2, <1>3, <1>4, <1>5, <1>6, <1>7

\* A commit taints every request that is not idle; nothing else an admin call
\* does concerns an untainted one.
LEMMA AdminKeepsQInv ==
    ASSUME IInv, QInv, NEW a \in Admin,
           \/ Create(a) \/ UpdateRead(a) \/ UpdateWrite(a) \/ UpdateGone(a)
           \/ Delete(a) \/ Reload(a) \/ ReloadPolicies(a)
    PROVE  QInv'
<1>1. ASSUME NEW t, Commit(a, t) PROVE QInv'
  <2>1. /\ UNCHANGED <<phase, verdict>>
        /\ \A q \in Request : phase[q] # "idle" => taint'[q] # {}
    BY <1>1 DEF Commit, request
  <2> QED
    BY <2>1 DEF QInv, Quiet, QuietVerdictCorrect
<1>2. CASE UpdateRead(a) \/ UpdateGone(a) \/ Reload(a) \/ ReloadPolicies(a)
  <2>1. UNCHANGED <<table, phase, todo, verdict, taint>>
    BY <1>2 DEF UpdateRead, UpdateGone, Reload, ReloadPolicies, db, request
  <2>2. Unannounced' => Unannounced
    BY <1>2 DEF UpdateRead, UpdateGone, Reload, ReloadPolicies, admin,
                Unannounced, IInv, TypeOK
  <2> QED
    BY <2>1, <2>2 DEF QInv, Quiet, QuietVerdictCorrect
<1> QED
  BY <1>1, <1>2 DEF Create, UpdateWrite, Delete

\* A request that nothing has tainted gets the verdict of the first active
\* policy that matches, in priority order (engine.go:97-120).
THEOREM QuietVerdicts == Spec => []QuietVerdictCorrect
<1>1. Init => QInv
  BY DEF Init, QInv, Quiet, QuietVerdictCorrect
<1>2. IInv /\ QInv /\ [Next]_vars => QInv'
  <2> SUFFICES ASSUME IInv, QInv, [Next]_vars PROVE QInv'
    OBVIOUS
  <2>1. CASE Next
    BY <2>1, RequestKeepsQInv, AdminKeepsQInv DEF Next
  <2>2. CASE UNCHANGED vars
    BY <2>2 DEF vars, QInv, Quiet, QuietVerdictCorrect, Unannounced
  <2> QED
    BY <2>1, <2>2
<1>3. QInv => QuietVerdictCorrect
  BY DEF QInv
<1> QED
  BY <1>1, <1>2, <1>3, Invariant, PTL DEF Spec

=============================================================================
