----------------------------- MODULE Migration -----------------------------
(***************************************************************************)
(* The schema migrations that run at every start                           *)
(* (internal/storage/sqlite/sqlite.go:71-122) and their two scripts        *)
(* (migrations/001_init.sql, 002_policy_v2.sql), in a process that may be  *)
(* killed at any point and is started again by its supervisor.             *)
(*                                                                         *)
(* db.Exec runs a script statement by statement and SQLite commits each on *)
(* its own; what is committed survives the process.  Of a script only the  *)
(* statements on the policies are told apart: "others" stands for the      *)
(* other tables and for the indexes, all of them IF NOT EXISTS.            *)
(***************************************************************************)
EXTENDS Integers, Sequences

CONSTANTS
    Policy,      \* the policies a database of the first schema may hold
    MaxCrashes   \* bound: how often the process is killed while it starts

ASSUME CrashAssumption == MaxCrashes \in Nat

VARIABLES
    policies,    \* the policies table: its schema (0: no such table) and rows
    policiesNew, \* the table policies_new, likewise
    others,      \* the versions whose other statements have run
    recorded,    \* the rows of schema_migrations
    phase,       \* of the process: down, check, apply, record, failed, serving
    version,     \* the script at hand
    next,        \* the statement of it to run next
    crashes      \* bound counter

db   == <<policies, policiesNew, others, recorded>>
vars == <<policies, policiesNew, others, recorded, phase, version, next, crashes>>

Versions == 1..2
NoTable  == [schema |-> 0, rows |-> {}]
Table    == [schema : 0..2, rows : SUBSET Policy]

Script == << <<"others", "create v1">>,
             <<"create new", "copy", "drop", "rename", "others">> >>

\* A new file, or the database of a release that knew 001 only.
Init ==
    /\ \/ policies = NoTable /\ others = {} /\ recorded = {}
       \/ /\ policies \in [schema : {1}, rows : SUBSET Policy]
          /\ others = {1}
          /\ recorded = {1}
    /\ policiesNew = NoTable
    /\ phase = "down"
    /\ version = 1
    /\ next = 1
    /\ crashes = 0

\* The process starts: New opens the file and enters migrate.
Start ==
    /\ phase = "down"
    /\ phase' = "check"
    /\ version' = 1
    /\ next' = 1
    /\ UNCHANGED <<db, crashes>>

\* Not the code: the version is recorded before its script runs.
CheckRecords ==
    /\ phase = "check"
    /\ phase' = IF version \notin recorded THEN "apply"
                ELSE IF version = 2 THEN "serving" ELSE "check"
    /\ version' = IF version \in recorded /\ version < 2 THEN version + 1 ELSE version
    /\ recorded' = recorded \cup {version}
    /\ UNCHANGED <<policies, policiesNew, others, next, crashes>>

\* SELECT COUNT(*) FROM schema_migrations WHERE version = ?
Check ==
    /\ phase = "check"
    /\ phase' = IF version \notin recorded THEN "apply"
                ELSE IF version = 2 THEN "serving" ELSE "check"
    /\ version' = IF version \in recorded /\ version < 2 THEN version + 1 ELSE version
    /\ UNCHANGED <<db, next, crashes>>

\* Whether SQLite accepts a statement: a table created without IF NOT EXISTS
\* must not exist, a table read must, with the column condition of schema 1.
Accepted(s) ==
    CASE s = "create new" -> policiesNew = NoTable
      [] s = "copy"       -> policies.schema = 1
      [] s = "drop"       -> policies # NoTable
      [] s = "rename"     -> policies = NoTable /\ policiesNew # NoTable
      [] OTHER            -> TRUE

\* Not the code: the rows stay behind when the table is replaced.
EffectNoCopy(s) ==
    /\ policies' = CASE s = "create v1" /\ policies = NoTable ->
                            [schema |-> 1, rows |-> {}]
                     [] s = "drop"   -> NoTable
                     [] s = "rename" -> policiesNew
                     [] OTHER        -> policies
    /\ policiesNew' = CASE s = "create new" -> [schema |-> 2, rows |-> {}]
                        [] s = "rename"     -> NoTable
                        [] OTHER            -> policiesNew
    /\ others' = IF s = "others" THEN others \cup {version} ELSE others

\* What it does.
Effect(s) ==
    /\ policies' = CASE s = "create v1" /\ policies = NoTable ->
                            [schema |-> 1, rows |-> {}]
                     [] s = "drop"   -> NoTable
                     [] s = "rename" -> policiesNew
                     [] OTHER        -> policies
    /\ policiesNew' = CASE s = "create new" -> [schema |-> 2, rows |-> {}]
                        [] s = "copy"   -> [policiesNew EXCEPT !.rows = @ \cup policies.rows]
                        [] s = "rename" -> NoTable
                        [] OTHER        -> policiesNew
    /\ others' = IF s = "others" THEN others \cup {version} ELSE others

\* One statement of db.Exec(content) commits.
Apply ==
    LET s == Script[version][next] IN
    /\ phase = "apply"
    /\ Accepted(s)
    /\ Effect(s)
    /\ IF next < Len(Script[version])
         THEN next' = next + 1 /\ UNCHANGED phase
         ELSE next' = 1 /\ phase' = "record"
    /\ UNCHANGED <<recorded, version, crashes>>

\* SQLite refuses it: New fails and main exits; the supervisor starts it again.
ApplyFails ==
    /\ phase = "apply"
    /\ ~Accepted(Script[version][next])
    /\ phase' = "failed"
    /\ UNCHANGED <<db, version, next, crashes>>

Exit ==
    /\ phase = "failed"
    /\ phase' = "down"
    /\ UNCHANGED <<db, version, next, crashes>>

\* INSERT INTO schema_migrations, and on to the next script.
Record ==
    /\ phase = "record"
    /\ recorded' = recorded \cup {version}
    /\ phase' = IF version = 2 THEN "serving" ELSE "check"
    /\ version' = IF version = 2 THEN version ELSE version + 1
    /\ UNCHANGED <<policies, policiesNew, others, next, crashes>>

\* The process is killed while it starts.
Crash ==
    /\ phase \in {"check", "apply", "record"}
    /\ crashes < MaxCrashes
    /\ crashes' = crashes + 1
    /\ phase' = "down"
    /\ UNCHANGED <<db, version, next>>

\* It is stopped in operation, and will be started again.
Stop ==
    /\ phase = "serving"
    /\ phase' = "down"
    /\ UNCHANGED <<db, version, next, crashes>>

Step == Start \/ Check \/ Apply \/ ApplyFails \/ Exit \/ Record

Next == Step \/ Crash \/ Stop

\* The supervisor restarts the process (restart: unless-stopped) and a started
\* process runs on.
Spec == Init /\ [][Next]_vars /\ WF_vars(Step)

-----------------------------------------------------------------------------

\* Types of the variables.
TypeOK ==
    /\ policies \in Table
    /\ policiesNew \in Table
    /\ others \subseteq Versions
    /\ recorded \subseteq Versions
    /\ phase \in {"down", "check", "apply", "record", "failed", "serving"}
    /\ version \in Versions
    /\ next \in 1..5
    /\ crashes \in 0..MaxCrashes

\* A gateway that serves has the second schema in full, wherever earlier starts
\* were killed: no script counts as applied before its last statement is
\* (sqlite.go:97-119).
ServesCompleteSchema ==
    phase = "serving" =>
        /\ policies.schema = 2
        /\ policiesNew = NoTable
        /\ others = Versions
        /\ recorded = Versions

\* No policy row is ever lost, not even by a kill between the statements that
\* replace the table: at each point one of the two tables holds all of them
\* (002_policy_v2.sql:15-22).
NoPolicyLost ==
    [][\A p \in Policy :
          p \in policies.rows \cup policiesNew.rows
              => p \in policies'.rows \cup policiesNew'.rows]_vars

\* sqlite.go:27: New "runs any pending migrations".  After finitely many kills
\* during the start the gateway comes up.
ComesUp == <>(phase = "serving")

=============================================================================
