---------------------------- MODULE PolicyEngine ----------------------------
(***************************************************************************)
(* The policy engine's cache of compiled CEL programs                      *)
(* (internal/policy/engine.go), read by the concurrent requests that call  *)
(* Evaluate and invalidated by the handlers of the admin REST API          *)
(* (internal/api/policies.go), over the policies table                     *)
(* (internal/storage/sqlite/policy_store.go).                              *)
(*                                                                         *)
(* An expression is abstracted to what it does to the model's requests:    *)
(* those in Matching evaluate to true, those in Invalid do not compile,    *)
(* the others evaluate to false or fail, which Evaluate treats alike.  A   *)
(* compiled program is the expression it was compiled from.  The stats     *)
(* that fillStats puts into the variables are the subject of SpendStats.  *)
(*                                                                         *)
(* One step per access to shared state: a SQL statement, a section under   *)
(* e.mu.  SQL errors of the admin handlers change nothing and are left     *)
(* out; the one of ListActive is BeginFails.                               *)
(***************************************************************************)
EXTENDS Integers, FiniteSets

CONSTANTS
    Request,     \* the requests being evaluated
    Admin,       \* the admin API calls being handled
    Id,          \* policy ids (a fresh uuid for each created policy)
    Expr, Matching, Invalid,
    Action,      \* block, alert, downgrade, and what a PUT does not validate
    Priority,
    InitTables,  \* what an earlier life of the process may leave in the table
    None,
    MaxChanges   \* bound: inserts, updates and deletes that commit

Row == [id : Id, expr : Expr, action : Action, priority : Priority,
        enabled : BOOLEAN, created : 0..Cardinality(Id)]
Verdict == [id : Id, action : Action]

ASSUME ExprAssumption ==
    Matching \subseteq Expr /\ Invalid \subseteq Expr /\ Matching \cap Invalid = {}
ASSUME PriorityAssumption == Priority \subseteq Int
ASSUME TableAssumption ==
    /\ IsFiniteSet(Id)
    /\ InitTables \subseteq [Id -> Row \cup {None}]
    /\ \A t \in InitTables, i \in Id : t[i] # None => t[i].id = i
ASSUME NoneAssumption == None \notin Row \cup Expr \cup Verdict \cup Action
ASSUME BoundAssumption == MaxChanges \in Nat

VARIABLES
    table,      \* the policies table
    programs,   \* CELEngine.programs: the expression each program came from
    phase,      \* of each request: idle, loop, compiled, done
    todo,       \* the rows of ListActive a request has still to try
    verdict,    \* what Evaluate returned, None for no match
    step,       \* of each admin call: idle, read, reload
    existing,   \* the row handleUpdatePolicy has read
    born,       \* history: the ids ever inserted
    raced,      \* history: ids whose program was stored by an overlapped request
    taint,      \* history: what may excuse the verdict of a request
    changes     \* bound counter

engine  == <<programs, raced>>
request == <<phase, todo, verdict>>
admin   == <<step, existing>>
db      == <<table, born, changes>>
vars    == <<table, programs, phase, todo, verdict, step, existing, born,
             raced, taint, changes>>

-----------------------------------------------------------------------------

\* ORDER BY priority ASC, created_at DESC.  Creation times are ranks: two
\* policies created in the same millisecond are not considered.
Before(r, s) ==
    \/ r.priority < s.priority
    \/ r.priority = s.priority /\ r.created > s.created

Rows(t) == {t[i] : i \in {j \in Id : t[j] # None}}

\* SELECT ... WHERE enabled = 1
ListActive(t) == {r \in Rows(t) : r.enabled}

\* Not the code: the policy with the largest priority number goes first.
HeadsByPriorityDesc(S) ==
    {r \in S : \A s \in S \ {r} : \/ r.priority > s.priority
                                  \/ r.priority = s.priority /\ r.created > s.created}

\* The row at the head of the sorted list.
Heads(S) == {r \in S : \A s \in S \ {r} : Before(r, s)}

Result(r) == [id |-> r.id, action |-> r.action]

\* The reference: the first active policy whose own expression matches.
FirstMatch(t) ==
    LET hits == {r \in ListActive(t) : r.expr \in Matching}
    IN  IF hits = {} THEN None
        ELSE Result(CHOOSE r \in hits : \A s \in hits \ {r} : Before(r, s))

-----------------------------------------------------------------------------

Init ==
    /\ table \in InitTables
    /\ programs = [i \in Id |-> None]
    /\ phase = [q \in Request |-> "idle"]
    /\ todo = [q \in Request |-> {}]
    /\ verdict = [q \in Request |-> None]
    /\ step = [a \in Admin |-> "idle"]
    /\ existing = [a \in Admin |-> None]
    /\ born = {i \in Id : table[i] # None}
    /\ raced = {}
    /\ taint = [q \in Request |-> {}]
    /\ changes = 0

Unannounced == \E a \in Admin : step[a] = "reload"

\* Evaluate starts: ListActive; with no policy it returns nil at once.
Begin(q) ==
    /\ phase[q] = "idle"
    /\ todo' = [todo EXCEPT ![q] = ListActive(table)]
    /\ phase' = [phase EXCEPT ![q] = IF ListActive(table) = {} THEN "done"
                                     ELSE "loop"]
    /\ taint' = [taint EXCEPT ![q] = IF Unannounced THEN {"unannounced"} ELSE {}]
    /\ UNCHANGED <<db, engine, verdict, admin>>

\* ListActive fails: the engine fails open.
BeginFails(q) ==
    /\ phase[q] = "idle"
    /\ phase' = [phase EXCEPT ![q] = "done"]
    /\ taint' = [taint EXCEPT ![q] = {"error"}]
    /\ UNCHANGED <<db, engine, todo, verdict, admin>>

\* prog.Eval, and on to the next policy unless it matched.
Try(q, p, prog) ==
    IF prog \in Matching
      THEN /\ verdict' = [verdict EXCEPT ![q] = Result(p)]
           /\ phase' = [phase EXCEPT ![q] = "done"]
           /\ todo' = [todo EXCEPT ![q] = {}]
      ELSE /\ todo' = [todo EXCEPT ![q] = @ \ {p}]
           /\ phase' = [phase EXCEPT ![q] = IF todo[q] = {p} THEN "done"
                                            ELSE "loop"]
           /\ UNCHANGED verdict

\* getOrCompile finds a program under the policy's id.
CacheHit(q) ==
    /\ phase[q] = "loop"
    /\ \E p \in Heads(todo[q]) :
         /\ programs[p.id] # None
         /\ Try(q, p, programs[p.id])
         /\ taint' = [taint EXCEPT ![q] = IF p.id \in raced THEN @ \cup {"raced"}
                                          ELSE @]
    /\ UNCHANGED <<db, engine, admin>>

\* Not the code: the error of Compile is not looked at.
CacheMissUnchecked(q) ==
    /\ phase[q] = "loop"
    /\ \E p \in Heads(todo[q]) : programs[p.id] = None
    /\ phase' = [phase EXCEPT ![q] = "compiled"]
    /\ UNCHANGED <<db, engine, todo, verdict, admin, taint>>

\* It does not, and compiles the expression of the row it holds...
CacheMiss(q) ==
    /\ phase[q] = "loop"
    /\ \E p \in Heads(todo[q]) : programs[p.id] = None /\ p.expr \notin Invalid
    /\ phase' = [phase EXCEPT ![q] = "compiled"]
    /\ UNCHANGED <<db, engine, todo, verdict, admin, taint>>

\* ... which may fail: the policy is skipped, nothing is cached.
CompileError(q) ==
    /\ phase[q] = "loop"
    /\ \E p \in Heads(todo[q]) :
         /\ programs[p.id] = None
         /\ p.expr \in Invalid
         /\ Try(q, p, None)
    /\ UNCHANGED <<db, engine, admin, taint>>

\* The program is stored under the id without another look at the table.
StoreProgram(q) ==
    /\ phase[q] = "compiled"
    /\ \E p \in Heads(todo[q]) :
         /\ programs' = [programs EXCEPT ![p.id] = p.expr]
         /\ raced' = IF "overlapped" \in taint[q] THEN raced \cup {p.id}
                     ELSE raced \ {p.id}
         /\ Try(q, p, p.expr)
    /\ UNCHANGED <<db, admin, taint>>

\* The handler goes on; the slot serves another request.
Finish(q) ==
    /\ phase[q] = "done"
    /\ phase' = [phase EXCEPT ![q] = "idle"]
    /\ verdict' = [verdict EXCEPT ![q] = None]
    /\ taint' = [taint EXCEPT ![q] = {}]
    /\ UNCHANGED <<db, engine, todo, admin>>

-----------------------------------------------------------------------------

\* A statement of admin call a commits; the requests in flight overlap it.
Commit(a, t) ==
    /\ changes < MaxChanges
    /\ changes' = changes + 1
    /\ table' = t
    /\ step' = [step EXCEPT ![a] = "reload"]
    /\ taint' = [q \in Request |-> IF phase[q] = "idle" THEN {}
                                   ELSE taint[q] \cup {"overlapped"}]
    /\ UNCHANGED <<engine, request>>

\* handleCreatePolicy: INSERT under a fresh id.
Create(a) ==
    /\ step[a] = "idle"
    /\ \E i \in Id \ born, e \in Expr, p \in Priority, b \in BOOLEAN,
          act \in {"block", "alert", "downgrade"} \cap Action :
         /\ Commit(a, [table EXCEPT ![i] =
                [id |-> i, expr |-> e, action |-> act, priority |-> p,
                 enabled |-> b, created |-> Cardinality(born)]])
         /\ born' = born \cup {i}
    /\ UNCHANGED existing

\* handleUpdatePolicy reads the row (404 when there is none)...
UpdateRead(a) ==
    /\ step[a] = "idle"
    /\ \E i \in Id :
         /\ table[i] # None
         /\ existing' = [existing EXCEPT ![a] = table[i]]
    /\ step' = [step EXCEPT ![a] = "read"]
    /\ UNCHANGED <<db, engine, request, taint>>

\* ... keeps the expression and the action the body omits, but not the
\* priority and the enabled flag ...
Edited(row, e, act, p, b) ==
    [row EXCEPT !.expr = IF e = None THEN row.expr ELSE e,
                !.action = IF act = None THEN row.action ELSE act,
                !.priority = p,
                !.enabled = b]

\* Not the code: the row is written back whether or not it still exists.
UpsertWrite(a) ==
    /\ step[a] = "read"
    /\ \E e \in Expr \cup {None}, act \in Action \cup {None},
          p \in Priority, b \in BOOLEAN :
         Commit(a, [table EXCEPT ![existing[a].id] =
                                    Edited(existing[a], e, act, p, b)])
    /\ existing' = [existing EXCEPT ![a] = None]
    /\ UNCHANGED born

\* ... and writes all of it: UPDATE ... WHERE id = ?
UpdateWrite(a) ==
    /\ step[a] = "read"
    /\ table[existing[a].id] # None
    /\ \E e \in Expr \cup {None}, act \in Action \cup {None},
          p \in Priority, b \in BOOLEAN :
         Commit(a, [table EXCEPT ![existing[a].id] =
                                    Edited(existing[a], e, act, p, b)])
    /\ existing' = [existing EXCEPT ![a] = None]
    /\ UNCHANGED born

\* The row was deleted in between: no row affected, 500, no Reload.
UpdateGone(a) ==
    /\ step[a] = "read"
    /\ table[existing[a].id] = None
    /\ step' = [step EXCEPT ![a] = "idle"]
    /\ existing' = [existing EXCEPT ![a] = None]
    /\ UNCHANGED <<db, engine, request, taint>>

\* handleDeletePolicy (404 when there is no row).
Delete(a) ==
    /\ step[a] = "idle"
    /\ \E i \in Id :
         /\ table[i] # None
         /\ Commit(a, [table EXCEPT ![i] = None])
    /\ UNCHANGED <<born, existing>>

\* Not the code: the handler answers without a Reload.
NoReload(a) ==
    /\ step[a] = "reload"
    /\ step' = [step EXCEPT ![a] = "idle"]
    /\ UNCHANGED <<db, engine, request, existing, taint>>

\* Reload, after the commit; then the handler answers.
Reload(a) ==
    /\ step[a] = "reload"
    /\ programs' = [i \in Id |-> None]
    /\ raced' = {}
    /\ step' = [step EXCEPT ![a] = "idle"]
    /\ UNCHANGED <<db, request, existing, taint>>

\* handleReloadPolicies
ReloadPolicies(a) ==
    /\ step[a] = "idle"
    /\ programs' = [i \in Id |-> None]
    /\ raced' = {}
    /\ UNCHANGED <<db, request, admin, taint>>

Next ==
    \/ \E q \in Request :
          \/ Begin(q) \/ BeginFails(q) \/ CacheHit(q) \/ CacheMiss(q)
          \/ CompileError(q) \/ StoreProgram(q) \/ Finish(q)
    \/ \E a \in Admin :
          \/ Create(a) \/ UpdateRead(a) \/ UpdateWrite(a) \/ UpdateGone(a)
          \/ Delete(a) \/ Reload(a) \/ ReloadPolicies(a)

Spec == Init /\ [][Next]_vars

-----------------------------------------------------------------------------

\* Types of the variables.
TypeOK ==
    /\ table \in [Id -> Row \cup {None}]
    /\ programs \in [Id -> (Expr \ Invalid) \cup {None}]
    /\ phase \in [Request -> {"idle", "loop", "compiled", "done"}]
    /\ todo \in [Request -> SUBSET Row]
    /\ verdict \in [Request -> Verdict \cup {None}]
    /\ step \in [Admin -> {"idle", "read", "reload"}]
    /\ existing \in [Admin -> Row \cup {None}]
    /\ born \subseteq Id
    /\ raced \subseteq Id
    /\ taint \in [Request -> SUBSET {"unannounced", "error", "raced", "overlapped"}]
    /\ changes \in 0..MaxChanges

\* When no handler has a Reload outstanding, a cached program is the one of the
\* row's current expression, unless a request that read the table before a
\* change stored it afterwards (engine.go:123-144): the Reload after each
\* commit is enough for everything else.
FreshUnlessRaced ==
    ~Unannounced =>
        \A i \in Id : programs[i] # None /\ table[i] # None /\ i \notin raced
                         => programs[i] = table[i].expr

\* A request whose evaluation no change overlapped, that began with every
\* Reload done and that met no raced program, gets exactly the verdict of the
\* first active policy that matches, in priority order; an expression that
\* does not compile is skipped (engine.go:97-120).
QuietVerdictCorrect ==
    \A q \in Request :
        phase[q] = "done" /\ taint[q] = {} => verdict[q] = FirstMatch(table)

\* A deleted policy never comes back, also when an update that had read it
\* before is still under way (policies.go:137-160, policy_store.go:34-49).
DeletedStaysDeleted ==
    [][\A i \in born : table[i] = None => table'[i] = None]_vars

\* README.md, CEL Policy Engine: "Changes take effect on the next request
\* without a restart".  A request that begins when the changes and their
\* Reloads are done, and that no later change overlaps, is evaluated by the
\* policies as they are in the table.
NextRequestSeesChanges ==
    \A q \in Request :
        phase[q] = "done" /\ taint[q] \subseteq {"raced"}
            => verdict[q] = FirstMatch(table)

=============================================================================
