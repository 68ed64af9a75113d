---------------------------- MODULE ProcessProofs ----------------------------
(***************************************************************************)
(* TLAPS proofs about three parts of the gateway's process that share no   *)
(* state: the migrations it runs when it starts (Migration), the watcher   *)
(* of its configuration (ConfigReload) and the bucket of a provider        *)
(* (TokenBucket), each for every value of its constants.                   *)
(***************************************************************************)
EXTENDS Migration, ConfigReload, TokenBucket, TLAPS

-----------------------------------------------------------------------------
(***************************************************************************)
(* The migrations, for every set of policies and every number of kills.    *)
(*                                                                         *)
(* Neither property is inductive: both need to know what the tables hold   *)
(* at each statement of a script.  At says so for the script under way,    *)
(* Tables for what any earlier start, killed wherever it was, may have     *)
(* left behind, and Versioned that a recorded version has run in full.     *)
(***************************************************************************)

\* There is a table of schema 0 nowhere, and a database without the first
\* version has nothing of the second.
Tables ==
    /\ policies.schema = 0 => policies = NoTable
    /\ policiesNew = NoTable \/ policiesNew.schema = 2
    /\ 1 \notin recorded => policies.schema \in 0..1 /\ policiesNew = NoTable

Complete1 == 1 \in others
Complete2 ==
    /\ policies.schema = 2 /\ policiesNew = NoTable
    /\ 1 \in others /\ 2 \in others

\* What is recorded has run.
Versioned ==
    /\ 1 \in recorded => Complete1
    /\ 2 \in recorded => 1 \in recorded /\ Complete2

\* Where the process stands among the versions.
Running ==
    /\ phase \in {"check", "record"} => next = 1
    /\ phase \in {"check", "apply", "record"} /\ version = 2 => 1 \in recorded
    /\ phase \in {"apply", "record"} => version \notin recorded
    /\ phase = "serving" => 1 \in recorded /\ 2 \in recorded

\* What the statements before the one at hand have made of the tables.
At ==
    /\ phase = "apply" /\ version = 1 =>
          /\ next \in 1..2
          /\ next = 2 => Complete1
    /\ phase = "record" /\ version = 1 => Complete1
    /\ phase = "apply" /\ version = 2 =>
          /\ next = 2 => policiesNew.schema = 2
          /\ next = 3 => /\ policies.schema = 1 /\ policiesNew.schema = 2
                         /\ policies.rows \subseteq policiesNew.rows
          /\ next = 4 => policies = NoTable /\ policiesNew.schema = 2
          /\ next = 5 => policies.schema = 2 /\ policiesNew = NoTable
    /\ phase = "record" /\ version = 2 => Complete2

IInv == TypeOK /\ Tables /\ Versioned /\ Running /\ At

NoRowLost ==
    \A p \in Policy :
        p \in policies.rows \cup policiesNew.rows
            => p \in policies'.rows \cup policiesNew'.rows

USE CrashAssumption

-----------------------------------------------------------------------------

LEMMA Statements ==
    /\ Len(Script[1]) = 2 /\ Len(Script[2]) = 5
    /\ Script[1][1] = "others" /\ Script[1][2] = "create v1"
    /\ Script[2][1] = "create new" /\ Script[2][2] = "copy"
    /\ Script[2][3] = "drop" /\ Script[2][4] = "rename"
    /\ Script[2][5] = "others"
BY DEF Script

LEMMA TableFacts ==
    /\ NoTable \in Table /\ NoTable.schema = 0 /\ NoTable.rows = {}
    /\ \A n \in 0..2, R \in SUBSET Policy :
          LET t == [schema |-> n, rows |-> R] IN
          t \in Table /\ t.schema = n /\ t.rows = R
    /\ \A t \in Table : t.schema \in 0..2 /\ t.rows \in SUBSET Policy
BY DEF Table, NoTable

LEMMA InitIInv == Init => IInv
<1> SUFFICES ASSUME Init PROVE IInv
  OBVIOUS
<1>1. policies \in Table /\ policiesNew = NoTable /\ policiesNew \in Table
  BY DEF Init, Table, NoTable
<1>2. policies.schema \in 0..1 /\ (policies.schema = 0 => policies = NoTable)
  BY TableFacts DEF Init
<1>3. 2 \notin recorded /\ (1 \in recorded => 1 \in others)
  BY DEF Init
<1>4. TypeOK
  BY <1>1 DEF Init, TypeOK, Versions
<1> QED
  BY <1>1, <1>2, <1>3, <1>4
     DEF Init, IInv, Tables, Versioned, Running, At, Complete1

\* The statements of the first script.
LEMMA ApplyFirst ==
    ASSUME IInv, Apply, version = 1
    PROVE  IInv' /\ NoRowLost
<1>1. /\ phase = "apply" /\ next \in 1..2 /\ 1 \notin recorded
      /\ UNCHANGED <<recorded, version, crashes>>
      /\ policies \in Table /\ policiesNew = NoTable
  BY DEF Apply, IInv, Tables, Running, At, TypeOK
<1>2. CASE next = 1
  <2>1. Script[version][next] = "others" /\ Len(Script[version]) = 2
    BY <1>2, Statements
  <2>2. next' = 2 /\ phase' = phase
    <3> DEFINE n == Len(Script[version])
    <3>1. n = 2
      BY <2>1
    <3>2. next < n
      <4> HIDE DEF n
      <4> QED
        BY <1>2, <3>1
    <3> QED
      BY <1>2, <3>2 DEF Apply
  <2>3. Effect("others") /\ Accepted("others")
    BY <2>1 DEF Apply
  <2>4. /\ policies' = policies /\ policiesNew' = policiesNew
        /\ others' = others \cup {1}
    BY <1>1, <2>3, TableFacts DEF Effect, Accepted
  <2>5. TypeOK' /\ NoRowLost
    BY <1>1, <1>2, <2>2, <2>4, TableFacts
       DEF IInv, TypeOK, Tables, At, NoRowLost, Versions
  <2>6. Tables' /\ Versioned'
    BY <1>1, <1>2, <2>2, <2>4, TableFacts
       DEF IInv, Tables, Versioned, At, Complete1, Complete2
  <2>7. Running'
    BY <1>1, <1>2, <2>2 DEF IInv, Running
  <2>8. At'
    BY <1>1, <1>2, <2>2, <2>4, TableFacts
       DEF IInv, Tables, Versioned, At, Complete1, Complete2
  <2> QED
    BY <2>5, <2>6, <2>7, <2>8 DEF IInv
<1>3. CASE next = 2
  <2>1. Script[version][next] = "create v1" /\ Len(Script[version]) = 2
    BY <1>3, Statements
  <2>2. next' = 1 /\ phase' = "record"
    <3> DEFINE n == Len(Script[version])
    <3>1. n = 2
      BY <2>1
    <3>2. ~(next < n)
      <4> HIDE DEF n
      <4> QED
        BY <1>3, <3>1
    <3> QED
      BY <3>2 DEF Apply
  <2>3. Effect("create v1") /\ Accepted("create v1")
    BY <2>1 DEF Apply
  <2>4. /\ policies' = IF policies = NoTable THEN [schema |-> 1, rows |-> {}]
                       ELSE policies
        /\ policiesNew' = policiesNew /\ others' = others
    BY <1>1, <2>3, TableFacts DEF Effect, Accepted
  <2>5. TypeOK' /\ NoRowLost
    BY <1>1, <1>3, <2>2, <2>4, TableFacts
       DEF IInv, TypeOK, Tables, At, NoRowLost, Versions
  <2>6. Tables' /\ Versioned'
    BY <1>1, <1>3, <2>2, <2>4, TableFacts
       DEF IInv, Tables, Versioned, At, Complete1, Complete2
  <2>7. Running'
    BY <1>1, <1>3, <2>2 DEF IInv, Running
  <2>8. At'
    BY <1>1, <1>3, <2>2, <2>4, TableFacts
       DEF IInv, Tables, Versioned, At, Complete1, Complete2
  <2> QED
    BY <2>5, <2>6, <2>7, <2>8 DEF IInv
<1> QED
  BY <1>1, <1>2, <1>3

\* Those of the second: a row is in the new table before the old one goes.
LEMMA ApplySecond ==
    ASSUME IInv, Apply, version = 2
    PROVE  IInv' /\ NoRowLost
<1>1. /\ phase = "apply" /\ next \in 1..5 /\ 1 \in recorded /\ 2 \notin recorded
      /\ UNCHANGED <<recorded, version, crashes>>
      /\ policies \in Table /\ policiesNew \in Table
  BY DEF Apply, IInv, Running, TypeOK
<1>2. CASE next = 1
  <2>1. Script[version][next] = "create new" /\ Len(Script[version]) = 5
    BY <1>2, Statements
  <2>2. next' = 2 /\ phase' = phase
    <3> DEFINE n == Len(Script[version])
    <3>1. n = 5
      BY <2>1
    <3>2. next < n
      <4> HIDE DEF n
      <4> QED
        BY <1>2, <3>1
    <3> QED
      BY <1>2, <3>2 DEF Apply
  <2>3. Effect("create new") /\ Accepted("create new")
    BY <2>1 DEF Apply
  <2>4. /\ policies' = policies /\ others' = others /\ policiesNew = NoTable
        /\ policiesNew' \in Table
        /\ policiesNew'.schema = 2
    BY <1>1, <2>3, TableFacts DEF Effect, Accepted
  <2>5. TypeOK' /\ NoRowLost
    BY <1>1, <1>2, <2>2, <2>4, TableFacts
       DEF IInv, TypeOK, Tables, At, NoRowLost, Versions
  <2>6. Tables' /\ Versioned'
    BY <1>1, <1>2, <2>2, <2>4, TableFacts
       DEF IInv, Tables, Versioned, At, Complete1, Complete2
  <2>7. Running'
    BY <1>1, <1>2, <2>2 DEF IInv, Running
  <2>8. At'
    BY <1>1, <1>2, <2>2, <2>4, TableFacts
       DEF IInv, Tables, Versioned, At, Complete1, Complete2
  <2> QED
    BY <2>5, <2>6, <2>7, <2>8 DEF IInv
<1>3. CASE next = 2
  <2>1. Script[version][next] = "copy" /\ Len(Script[version]) = 5
    BY <1>3, Statements
  <2>2. next' = 3 /\ phase' = phase
    BY <1>1, <1>3, <2>1 DEF Apply
  <2>3. Effect("copy") /\ Accepted("copy")
    BY <2>1 DEF Apply
  <2>4. /\ policies.schema = 1
        /\ policies' = policies /\ others' = others
        /\ policiesNew' = [policiesNew EXCEPT !.rows = @ \cup policies.rows]
    BY <1>1, <2>3, TableFacts DEF Effect, Accepted
  <2>5. /\ policiesNew' \in Table /\ policiesNew'.schema = 2
        /\ policiesNew'.rows = policiesNew.rows \cup policies.rows
    <3>1. policiesNew.schema = 2
      BY <1>1, <1>3 DEF IInv, At
    <3> QED
      BY <1>1, <2>4, <3>1 DEF Table
  <2>6. TypeOK' /\ NoRowLost
    BY <1>1, <2>2, <2>4, <2>5 DEF IInv, TypeOK, NoRowLost
  <2>7. Tables' /\ Versioned'
    BY <1>1, <1>3, <2>2, <2>4, <2>5
       DEF IInv, Tables, Versioned, At, Complete1, Complete2
  <2>8. Running'
    BY <1>1, <1>3, <2>2 DEF IInv, Running
  <2>9. At'
    BY <1>1, <1>3, <2>2, <2>4, <2>5 DEF IInv, At
  <2> QED
    BY <2>6, <2>7, <2>8, <2>9 DEF IInv
<1>4. CASE next = 3
  <2>1. Script[version][next] = "drop" /\ Len(Script[version]) = 5
    BY <1>4, Statements
  <2>2. next' = 4 /\ phase' = phase
    BY <1>1, <1>4, <2>1 DEF Apply
  <2>3. Effect("drop") /\ Accepted("drop")
    BY <2>1 DEF Apply
  <2>4. policies' = NoTable /\ policiesNew' = policiesNew /\ others' = others
    BY <1>1, <2>3, TableFacts DEF Effect, Accepted
  <2>5. TypeOK' /\ NoRowLost
    BY <1>1, <1>4, <2>2, <2>4, TableFacts
       DEF IInv, TypeOK, Tables, At, NoRowLost, Versions
  <2>6. Tables' /\ Versioned'
    BY <1>1, <1>4, <2>2, <2>4, TableFacts
       DEF IInv, Tables, Versioned, At, Complete1, Complete2
  <2>7. Running'
    BY <1>1, <1>4, <2>2 DEF IInv, Running
  <2>8. At'
    BY <1>1, <1>4, <2>2, <2>4, TableFacts
       DEF IInv, Tables, Versioned, At, Complete1, Complete2
  <2> QED
    BY <2>5, <2>6, <2>7, <2>8 DEF IInv
<1>5. CASE next = 4
  <2>1. Script[version][next] = "rename" /\ Len(Script[version]) = 5
    BY <1>5, Statements
  <2>2. next' = 5 /\ phase' = phase
    BY <1>1, <1>5, <2>1 DEF Apply
  <2>3. Effect("rename") /\ Accepted("rename")
    BY <2>1 DEF Apply
  <2>4. policies' = policiesNew /\ policiesNew' = NoTable /\ others' = others
    BY <1>1, <2>3, TableFacts DEF Effect, Accepted
  <2>5. TypeOK' /\ NoRowLost
    BY <1>1, <1>5, <2>2, <2>4, TableFacts
       DEF IInv, TypeOK, Tables, At, NoRowLost, Versions
  <2>6. Tables' /\ Versioned'
    BY <1>1, <1>5, <2>2, <2>4, TableFacts
       DEF IInv, Tables, Versioned, At, Complete1, Complete2
  <2>7. Running'
    BY <1>1, <1>5, <2>2 DEF IInv, Running
  <2>8. At'
    BY <1>1, <1>5, <2>2, <2>4, TableFacts
       DEF IInv, Tables, Versioned, At, Complete1, Complete2
  <2> QED
    BY <2>5, <2>6, <2>7, <2>8 DEF IInv
<1>6. CASE next = 5
  <2>1. Script[version][next] = "others" /\ Len(Script[version]) = 5
    BY <1>6, Statements
  <2>2. next' = 1 /\ phase' = "record"
    BY <1>1, <1>6, <2>1 DEF Apply
  <2>3. Effect("others") /\ Accepted("others")
    BY <2>1 DEF Apply
  <2>4. /\ policies' = policies /\ policiesNew' = policiesNew
        /\ others' = others \cup {2}
    BY <1>1, <2>3, TableFacts DEF Effect, Accepted
  <2>5. TypeOK' /\ NoRowLost
    BY <1>1, <1>6, <2>2, <2>4, TableFacts
       DEF IInv, TypeOK, Tables, At, NoRowLost, Versions
  <2>6. Tables' /\ Versioned'
    BY <1>1, <1>6, <2>2, <2>4, TableFacts
       DEF IInv, Tables, Versioned, At, Complete1, Complete2
  <2>7. Running'
    BY <1>1, <1>6, <2>2 DEF IInv, Running
  <2>8. At'
    BY <1>1, <1>6, <2>2, <2>4, TableFacts
       DEF IInv, Tables, Versioned, At, Complete1, Complete2
  <2> QED
    BY <2>5, <2>6, <2>7, <2>8 DEF IInv
<1> QED
  BY <1>1, <1>2, <1>3, <1>4, <1>5, <1>6

\* The other steps leave the tables alone.
LEMMA OtherSteps ==
    ASSUME IInv,
           Start \/ Check \/ ApplyFails \/ Exit \/ Record \/ Crash \/ Stop
             \/ UNCHANGED vars
    PROVE  IInv' /\ NoRowLost
<1>1. policies' = policies /\ policiesNew' = policiesNew /\ others' = others
  BY DEF Start, Check, ApplyFails, Exit, Record, Crash, Stop, vars, db
<1>2. NoRowLost
  BY <1>1 DEF NoRowLost
<1>3. version \in 1..2 /\ recorded \subseteq 1..2 /\ next \in 1..5
  BY DEF IInv, TypeOK, Versions
<1>4. ASSUME \/ recorded' = recorded
             \/ phase = "record" /\ recorded' = recorded \cup {version}
      PROVE  Tables' /\ Versioned'
  BY <1>1, <1>3, <1>4
     DEF IInv, Tables, Versioned, At, Running, Complete1, Complete2
<1>5. CASE \/ Start \/ Check \/ ApplyFails \/ Exit \/ Crash \/ Stop
           \/ UNCHANGED vars
  <2>1. recorded' = recorded
    BY <1>5 DEF Start, Check, ApplyFails, Exit, Crash, Stop, vars, db
  <2>2. TypeOK'
    BY <1>1, <1>5, <2>1 DEF IInv, TypeOK, Versions, Start, Check, ApplyFails,
       Exit, Crash, Stop, vars
  <2>3. Running'
    BY <1>3, <1>5, <2>1
       DEF IInv, Running, Versioned, Start, Check, ApplyFails, Exit, Crash,
           Stop, vars
  <2>4. At'
    BY <1>1, <1>3, <1>5
       DEF IInv, At, Running, Complete1, Complete2, Start, Check, ApplyFails,
           Exit, Crash, Stop, vars
  <2> QED
    BY <1>2, <1>4, <2>1, <2>2, <2>3, <2>4 DEF IInv
<1>6. CASE Record
  <2>1. TypeOK'
    BY <1>1, <1>3, <1>6 DEF IInv, TypeOK, Versions, Record
  <2>2. Running'
    BY <1>3, <1>6 DEF IInv, Running, Record
  <2>3. At'
    BY <1>1, <1>3, <1>6 DEF IInv, At, Running, Complete1, Complete2, Record
  <2>4. phase = "record" /\ recorded' = recorded \cup {version}
    BY <1>6 DEF Record
  <2> QED
    BY <1>2, <1>4, <2>1, <2>2, <2>3, <2>4 DEF IInv
<1> QED
  BY <1>2, <1>5, <1>6

LEMMA NextIInv == IInv /\ [Next]_vars => IInv' /\ NoRowLost
<1> SUFFICES ASSUME IInv, [Next]_vars PROVE IInv' /\ NoRowLost
  OBVIOUS
<1>1. CASE Apply
  <2>1. version = 1 \/ version = 2
    BY DEF IInv, TypeOK, Versions
  <2> QED
    BY <1>1, <2>1, ApplyFirst, ApplySecond
<1> QED
  BY <1>1, OtherSteps DEF Next, Step

LEMMA Invariant == Spec => []IInv
<1>1. IInv /\ [Next]_vars => IInv'
  BY NextIInv
<1> QED
  BY <1>1, InitIInv, PTL DEF Spec

-----------------------------------------------------------------------------

\* The tables stay tables of a known schema, and the loop over the statements
\* stays inside its script (sqlite.go:97-119).
THEOREM MigrationTypeCorrect == Spec => []TypeOK
<1>1. IInv => TypeOK
  BY DEF IInv
<1> QED
  BY <1>1, Invariant, PTL

\* A gateway that serves has the second schema in full, wherever earlier starts
\* were killed (sqlite.go:97-119).
THEOREM CompleteSchema == Spec => []ServesCompleteSchema
<1>1. IInv => ServesCompleteSchema
  <2> SUFFICES ASSUME IInv, phase = "serving" PROVE ServesCompleteSchema
    BY DEF ServesCompleteSchema
  <2>1. /\ 1 \in recorded /\ 2 \in recorded /\ recorded \subseteq 1..2
        /\ Complete2 /\ others \subseteq 1..2
    BY DEF IInv, TypeOK, Versions, Versioned, Running
  <2>2. \A i \in 1..2 : i = 1 \/ i = 2
    OBVIOUS
  <2>3. recorded = 1..2
    BY <2>1, <2>2
  <2>4. others = 1..2
    BY <2>1, <2>2 DEF Complete2
  <2> QED
    BY <2>1, <2>3, <2>4 DEF Complete2, Versions, ServesCompleteSchema
<1> QED
  BY <1>1, Invariant, PTL

\* No policy row is lost by a kill between the statements that replace the
\* table (002_policy_v2.sql:15-22).
THEOREM NoneLost == Spec => NoPolicyLost
<1>1. IInv /\ [Next]_vars => [NoRowLost]_vars
  BY NextIInv
<1> QED
  BY <1>1, Invariant, PTL DEF Spec, NoPolicyLost, NoRowLost

-----------------------------------------------------------------------------
(***************************************************************************)
(* The configuration, for every set of contents, whatever a reader sees of *)
(* a half-written one, and every number of edits.                          *)
(*                                                                         *)
(* NoReloadOverlooked is not inductive: a file edited back to the          *)
(* configuration in force while a read of what it held in between is under *)
(* way satisfies it, and the watcher is about to put the other content     *)
(* into force.  Overtaken says what saves it: the edit that made what was  *)
(* read out of date has left an event, which is read only after Swap.      *)
(***************************************************************************)

\* What Watch has read and not yet applied is in the file, or an edit reported
\* since then waits to be read.
Overtaken == watcher = "loaded" /\ reported /\ newCfg # file => event

ReloadIInv == ReloadTypeOK /\ NoReloadOverlooked /\ Overtaken

USE ContentAssumption DEF ReloadIInv, loader

-----------------------------------------------------------------------------

LEMMA InitReload == ReloadInit => ReloadIInv
<1> SUFFICES ASSUME ReloadInit PROVE ReloadIInv
  OBVIOUS
<1>1. event \in BOOLEAN /\ reported \in BOOLEAN
  BY Zenon DEF ReloadInit
<1> QED
  BY <1>1 DEF ReloadInit, ReloadTypeOK, NoReloadOverlooked, Overtaken

\* A step of an editor.
LEMMA EditorKeeps ==
    ASSUME ReloadIInv, BeginWrite \/ EndWrite \/ Replace
    PROVE  ReloadIInv'
<1>1. /\ file' \in Content /\ writing' \in Content
      /\ edits' \in 0..MaxEdits
      /\ watch' \in {"none", "active", "lost"}
  BY DEF BeginWrite, EndWrite, Replace, ReloadTypeOK
<1>2. event' \in BOOLEAN /\ reported' \in BOOLEAN
  BY Zenon DEF BeginWrite, EndWrite, Replace, ReloadTypeOK
<1>3. ReloadTypeOK'
  BY <1>1, <1>2 DEF BeginWrite, EndWrite, Replace, ReloadTypeOK
<1>4. reported' => event'
  BY Zenon DEF BeginWrite, EndWrite, Replace
<1> QED
  BY <1>3, <1>4 DEF NoReloadOverlooked, Overtaken

\* A step of the watcher.
LEMMA LoaderKeeps ==
    ASSUME ReloadIInv, Loader
    PROVE  ReloadIInv'
<1>1. CASE AddWatch
  <2>1. ReloadTypeOK'
    BY <1>1 DEF AddWatch, ReloadTypeOK
  <2> QED
    BY <1>1, <2>1 DEF AddWatch, NoReloadOverlooked, Overtaken
<1>2. CASE Receive
  <2>1. ReloadTypeOK'
    BY <1>2 DEF Receive, ReloadTypeOK
  <2> QED
    BY <1>2, <2>1 DEF Receive, NoReloadOverlooked, Overtaken
<1>3. CASE LoadFile
  <2>1. ReloadTypeOK'
    BY <1>3 DEF LoadFile, ReloadTypeOK
  <2> QED
    BY <1>3, <2>1 DEF LoadFile, NoReloadOverlooked, Overtaken
<1>4. CASE Swap
  <2>1. ReloadTypeOK'
    BY <1>4 DEF Swap, ReloadTypeOK
  <2> QED
    BY <1>4, <2>1 DEF Swap, NoReloadOverlooked, Overtaken
<1> QED
  BY <1>1, <1>2, <1>3, <1>4 DEF Loader

LEMMA NextReload == ReloadIInv /\ [ReloadNext]_reloadVars => ReloadIInv'
<1> SUFFICES ASSUME ReloadIInv, [ReloadNext]_reloadVars PROVE ReloadIInv'
  OBVIOUS
<1>1. CASE UNCHANGED reloadVars
  BY <1>1 DEF reloadVars, ReloadTypeOK, NoReloadOverlooked, Overtaken
<1> QED
  BY <1>1, EditorKeeps, LoaderKeeps DEF ReloadNext

LEMMA ReloadInvariant == ReloadSpec => []ReloadIInv
BY InitReload, NextReload, PTL DEF ReloadSpec

-----------------------------------------------------------------------------

\* The configuration in force is always one that Validate accepts, whatever is
\* in the file, and the variables keep their types (watcher.go:64-73).
THEOREM ReloadTypeCorrect == ReloadSpec => []ReloadTypeOK
<1>1. ReloadIInv => ReloadTypeOK
  OBVIOUS
<1> QED
  BY <1>1, ReloadInvariant, PTL

\* No edit the watcher was told of is overlooked, however reads and writes of
\* the file overlap (watcher.go:55-73).
THEOREM NoneOverlooked == ReloadSpec => []NoReloadOverlooked
<1>1. ReloadIInv => NoReloadOverlooked
  OBVIOUS
<1> QED
  BY <1>1, ReloadInvariant, PTL

-----------------------------------------------------------------------------
(***************************************************************************)
(* The bucket, for every set of handlers, capacity, rate and length of the *)
(* run.                                                                    *)
(*                                                                         *)
(* Conforms is not inductive: it does not say how many tokens are left.    *)
(* The invariant carries both halves of the accounting: for every window   *)
(* start t, what was admitted since t plus what is left is at most what    *)
(* was there plus what was earned (Upper), with equality for one t, the    *)
(* last time the bucket was full (Lower).  Both rest on the readings of    *)
(* the clock under the mutex never going back (Readings).                  *)
(***************************************************************************)

Mutex ==
    \A g, h \in Handler :
        handler[g] = "holding" /\ handler[h] = "holding" => g = h

Readings ==
    /\ lastRefill <= clock
    /\ \A h \in Handler : seen[h] <= clock
    /\ \A h \in Handler : handler[h] = "holding" => lastRefill <= seen[h]

\* Nothing is admitted at a reading later than the last one.
Fresh == \A t \in Time : t > lastRefill => since[t] = 0

Upper ==
    \A t \in 0..lastRefill :
        Unit * since[t] + tokens <= Capacity + Rate * (lastRefill - t)

Lower ==
    \E t \in 0..lastRefill :
        Unit * since[t] + tokens = Capacity + Rate * (lastRefill - t)

BucketIInv == BucketTypeOK /\ Mutex /\ Readings /\ Fresh /\ Upper /\ Lower

USE UnitAssumption, CapacityAssumption, RateAssumption, MaxTimeAssumption

-----------------------------------------------------------------------------

\* What a longer interval earns is at least what a shorter one earns.
LEMMA Earns ==
    ASSUME NEW a \in Nat, NEW b \in Nat, a <= b
    PROVE  /\ Rate * a \in Nat
           /\ Rate * a <= Rate * b
           /\ Rate * b = Rate * a + Rate * (b - a)
OBVIOUS

\* The refilled bucket: between what it held and its capacity, and it keeps
\* both halves of the accounting at the new reading.
LEMMA RefillAccounts ==
    ASSUME BucketIInv, NEW h \in Handler, handler[h] = "holding"
    PROVE  /\ Refilled(seen[h]) \in 0..Capacity
           /\ \A t \in 0..seen[h] :
                 Unit * since[t] + Refilled(seen[h])
                     <= Capacity + Rate * (seen[h] - t)
           /\ \E t \in 0..seen[h] :
                 Unit * since[t] + Refilled(seen[h])
                     = Capacity + Rate * (seen[h] - t)
<1> DEFINE now == seen[h]
           earned == Rate * (now - lastRefill)
<1>1. /\ now \in Time /\ lastRefill \in Time /\ lastRefill <= now
      /\ tokens \in 0..Capacity /\ since \in [Time -> Nat]
      /\ 0..now \subseteq Time /\ 0..lastRefill \subseteq 0..now
  BY DEF BucketIInv, BucketTypeOK, Readings, Time
<1>2. earned \in Nat
  <2>1. now - lastRefill \in Nat
    BY <1>1 DEF Time
  <2> QED
    BY <2>1, Earns
<1>3. Refilled(now) = IF tokens + earned > Capacity
                        THEN Capacity ELSE tokens + earned
  BY DEF Refilled
<1> HIDE DEF earned
<1>4. Refilled(now) \in 0..Capacity
  BY <1>1, <1>2, <1>3
<1>5. ASSUME NEW t \in 0..lastRefill
      PROVE  Rate * (now - t) = Rate * (lastRefill - t) + earned
  BY <1>1 DEF earned, Time
<1>6. ASSUME NEW t \in 0..now
      PROVE  Unit * since[t] + Refilled(now) <= Capacity + Rate * (now - t)
  <2>1. CASE t <= lastRefill
    <3>1. t \in 0..lastRefill /\ since[t] \in Nat /\ Unit * since[t] \in Nat
      BY <1>1, <2>1 DEF Time
    <3>2. Unit * since[t] + tokens <= Capacity + Rate * (lastRefill - t)
      BY <3>1 DEF BucketIInv, Upper
    <3>3. Rate * (lastRefill - t) \in Nat
      BY <1>1, <3>1, Earns DEF Time
    <3>4. Refilled(now) <= tokens + earned
      BY <1>1, <1>2, <1>3
    <3> QED
      BY <1>1, <1>2, <1>4, <1>5, <3>1, <3>2, <3>3, <3>4
  <2>2. CASE t > lastRefill
    <3>1. since[t] = 0
      BY <1>1, <2>2 DEF BucketIInv, Fresh
    <3>2. Rate * (now - t) \in Nat
      BY <1>1, Earns DEF Time
    <3> QED
      BY <1>4, <3>1, <3>2
  <2> QED
    BY <1>1, <2>1, <2>2 DEF Time
<1>7. \E t \in 0..now :
         Unit * since[t] + Refilled(now) = Capacity + Rate * (now - t)
  <2>1. CASE tokens + earned <= Capacity
    <3>1. PICK t \in 0..lastRefill :
             Unit * since[t] + tokens = Capacity + Rate * (lastRefill - t)
      BY DEF BucketIInv, Lower
    <3>2. Refilled(now) = tokens + earned
      BY <1>1, <1>2, <1>3, <2>1
    <3>3. Unit * since[t] \in Nat /\ Rate * (lastRefill - t) \in Nat
      BY <1>1, <3>1, Earns DEF Time
    <3>4. Unit * since[t] + Refilled(now) = Capacity + Rate * (now - t)
      BY <1>1, <1>2, <1>5, <3>1, <3>2, <3>3
    <3> QED
      BY <1>1, <3>1, <3>4
  <2>2. CASE tokens + earned > Capacity
    <3>1. Refilled(now) = Capacity
      BY <1>3, <2>2
    <3>2. lastRefill < now
      <4>1. lastRefill # now
        BY <1>1, <2>2 DEF earned, Time
      <4> QED
        BY <1>1, <4>1 DEF Time
    <3>3. since[now] = 0
      BY <1>1, <3>2 DEF BucketIInv, Fresh
    <3>4. Unit * since[now] + Refilled(now) = Capacity + Rate * (now - now)
      BY <1>1, <3>1, <3>3 DEF Time
    <3>5. now \in 0..now
      BY <1>1 DEF Time
    <3> QED
      BY <3>4, <3>5
  <2> QED
    BY <1>1, <1>2, <2>1, <2>2
<1> QED
  BY <1>4, <1>6, <1>7

-----------------------------------------------------------------------------

LEMMA InitBucket == BucketInit => BucketIInv
<1> SUFFICES ASSUME BucketInit PROVE BucketIInv
  OBVIOUS
<1>1. BucketTypeOK /\ Mutex /\ Readings /\ Fresh
  BY DEF BucketInit, BucketTypeOK, Phase, Time, Mutex, Readings, Fresh
<1>2. Upper
  BY DEF BucketInit, Upper, Time
<1>3. Lower
  <2>1. Unit * since[0] + tokens = Capacity + Rate * (lastRefill - 0)
    BY DEF BucketInit, Time
  <2> QED
    BY <2>1 DEF Lower, BucketInit
<1> QED
  BY <1>1, <1>2, <1>3 DEF BucketIInv

LEMMA NextBucket == BucketIInv /\ [BucketNext]_bucketVars => BucketIInv'
<1> SUFFICES ASSUME BucketIInv, [BucketNext]_bucketVars PROVE BucketIInv'
  OBVIOUS
<1> USE DEF BucketIInv
<1>1. CASE Tick
  <2>1. (BucketTypeOK /\ Mutex /\ Readings /\ Fresh)'
    BY <1>1 DEF Tick, bucket, BucketTypeOK, Time, Mutex, Readings, Fresh
  <2>2. (Upper /\ Lower)'
    BY <1>1 DEF Tick, bucket, Upper, Lower
  <2> QED
    BY <2>1, <2>2
<1>2. ASSUME NEW h \in Handler, Call(h)
      PROVE  BucketIInv'
  <2>1. (BucketTypeOK /\ Mutex /\ Readings /\ Fresh)'
    BY <1>2 DEF Call, bucket, BucketTypeOK, Phase, Time, Mutex, Readings, Fresh
  <2>2. (Upper /\ Lower)'
    BY <1>2 DEF Call, bucket, Upper, Lower
  <2> QED
    BY <2>1, <2>2
<1>3. ASSUME NEW h \in Handler, Acquire(h)
      PROVE  BucketIInv'
  <2>1. (BucketTypeOK /\ Mutex /\ Readings /\ Fresh)'
    BY <1>3 DEF Acquire, MutexFree, bucket, BucketTypeOK, Phase, Time, Mutex,
                Readings, Fresh
  <2>2. (Upper /\ Lower)'
    BY <1>3 DEF Acquire, bucket, Upper, Lower
  <2> QED
    BY <2>1, <2>2
<1>4. ASSUME NEW h \in Handler, Admit(h)
      PROVE  BucketIInv'
  <2> DEFINE left == Refilled(seen[h])
  <2>1. /\ left \in 0..Capacity
        /\ \A t \in 0..seen[h] :
              Unit * since[t] + left <= Capacity + Rate * (seen[h] - t)
        /\ \E t \in 0..seen[h] :
              Unit * since[t] + left = Capacity + Rate * (seen[h] - t)
    BY <1>4, RefillAccounts DEF Admit
  <2>2. /\ left >= Unit /\ tokens' = left - Unit /\ lastRefill' = seen[h]
        /\ since' = [t \in Time |->
                        IF t <= seen[h] THEN since[t] + 1 ELSE since[t]]
        /\ handler[h] = "holding" /\ handler' = [handler EXCEPT ![h] = "idle"]
        /\ UNCHANGED <<clock, seen>>
    BY <1>4 DEF Admit
  <2> HIDE DEF left
  <2>3. seen[h] \in Time /\ 0..seen[h] \subseteq Time /\ lastRefill <= seen[h]
    BY <2>2 DEF BucketTypeOK, Time, Readings
  <2>4. (BucketTypeOK /\ Mutex)'
    <3>1. tokens' \in 0..Capacity
      BY <2>1, <2>2
    <3>2. since' \in [Time -> Nat]
      BY <2>2 DEF BucketTypeOK
    <3> QED
      BY <2>2, <2>3, <3>1, <3>2 DEF BucketTypeOK, Phase, Mutex
  <2>5. Readings'
    BY <2>2 DEF BucketTypeOK, Readings, Mutex
  <2>6. Fresh'
    BY <2>2, <2>3 DEF BucketTypeOK, Fresh, Time
  <2>7. ASSUME NEW t \in 0..seen[h]
        PROVE  Unit * since'[t] + tokens' = Unit * since[t] + left
    <3>1. since'[t] = since[t] + 1 /\ since[t] \in Nat
      BY <2>2, <2>3 DEF BucketTypeOK
    <3>2. Unit * (since[t] + 1) = Unit * since[t] + Unit
      BY <3>1
    <3>3. Unit * since[t] \in Nat
      BY <3>1
    <3> QED
      BY <2>1, <2>2, <3>1, <3>2, <3>3
  <2>8. Upper'
    BY <2>1, <2>2, <2>7 DEF Upper
  <2>9. Lower'
    <3>1. PICK t \in 0..seen[h] :
             Unit * since[t] + left = Capacity + Rate * (seen[h] - t)
      BY <2>1
    <3>2. Unit * since'[t] + tokens' = Capacity + Rate * (seen[h] - t)
      BY <2>7, <3>1
    <3> QED
      BY <2>2, <3>2 DEF Lower
  <2> QED
    BY <2>4, <2>5, <2>6, <2>8, <2>9
<1>5. ASSUME NEW h \in Handler, Refuse(h)
      PROVE  BucketIInv'
  <2> DEFINE left == Refilled(seen[h])
  <2>1. /\ left \in 0..Capacity
        /\ \A t \in 0..seen[h] :
              Unit * since[t] + left <= Capacity + Rate * (seen[h] - t)
        /\ \E t \in 0..seen[h] :
              Unit * since[t] + left = Capacity + Rate * (seen[h] - t)
    BY <1>5, RefillAccounts DEF Refuse
  <2>2. /\ tokens' = left /\ lastRefill' = seen[h]
        /\ handler[h] = "holding" /\ handler' = [handler EXCEPT ![h] = "idle"]
        /\ UNCHANGED <<clock, seen, since>>
    BY <1>5 DEF Refuse
  <2> HIDE DEF left
  <2>3. seen[h] \in Time /\ lastRefill <= seen[h]
    BY <2>2 DEF BucketTypeOK, Readings
  <2>4. (BucketTypeOK /\ Mutex)'
    BY <2>1, <2>2, <2>3 DEF BucketTypeOK, Phase, Mutex
  <2>5. (Readings /\ Fresh)'
    BY <2>2, <2>3 DEF BucketTypeOK, Readings, Mutex, Fresh, Time
  <2>6. (Upper /\ Lower)'
    BY <2>1, <2>2 DEF Upper, Lower
  <2> QED
    BY <2>4, <2>5, <2>6
<1>6. CASE UNCHANGED bucketVars
  BY <1>6 DEF bucketVars, BucketTypeOK, Mutex, Readings, Fresh, Upper, Lower
<1> QED
  BY <1>1, <1>2, <1>3, <1>4, <1>5, <1>6 DEF BucketNext

\* The accounting of the bucket holds in every state (token.go:25-43).
THEOREM BucketInvariant == BucketSpec => []BucketIInv
  BY InitBucket, NextBucket, PTL DEF BucketSpec

\* The variables keep their types: among other things the tokens never leave
\* 0..Capacity, whatever the handlers do with the clock and the mutex
\* (token.go:25-43).
THEOREM BucketTypeCorrect == BucketSpec => []BucketTypeOK
<1>1. BucketIInv => BucketTypeOK
  BY DEF BucketIInv
<1> QED
  BY <1>1, BucketInvariant, PTL

\* No window that ends now admits more than the burst plus the earned tokens.
THEOREM ConformsAlways == BucketSpec => []Conforms
<1>1. BucketIInv => Conforms
  <2> SUFFICES ASSUME BucketIInv, NEW t \in 0..clock
               PROVE  Unit * since[t] <= Capacity + Rate * (clock - t)
    BY DEF Conforms
  <2>1. /\ clock \in Time /\ lastRefill \in Time /\ t \in Time
        /\ lastRefill <= clock /\ tokens \in Nat /\ since[t] \in Nat
    BY DEF BucketIInv, BucketTypeOK, Readings, Time
  <2>2. CASE t <= lastRefill
    <3> DEFINE admitted == Unit * since[t]
               before   == Rate * (lastRefill - t)
               by       == Rate * (clock - t)
    <3>1. admitted + tokens <= Capacity + before
      BY <2>1, <2>2 DEF BucketIInv, Upper, Time
    <3>2. admitted \in Nat /\ before \in Nat /\ by \in Nat /\ before <= by
      BY <2>1, <2>2, Earns DEF Time
    <3> HIDE DEF admitted, before, by
    <3>3. admitted <= Capacity + by
      BY <2>1, <3>1, <3>2
    <3> QED
      BY <3>3 DEF admitted, by
  <2>3. CASE t > lastRefill
    <3>1. since[t] = 0 /\ Rate * (clock - t) \in Nat
      BY <2>1, <2>3, Earns DEF BucketIInv, Fresh, Time
    <3> QED
      BY <3>1
  <2> QED
    BY <2>1, <2>2, <2>3 DEF Time
<1> QED
  BY <1>1, BucketInvariant, PTL

\* A refusal is always justified by some window.
THEOREM RefusalsJustified == BucketSpec => RefusedOnlyOverRate
<1> DEFINE Justified(h) ==
       \E t \in 0..seen[h] :
          Unit * (since[t] + 1) > Capacity + Rate * (seen[h] - t)
<1>1. ASSUME BucketIInv, NEW h \in Handler, Refuse(h)
      PROVE  Justified(h)
  <2>1. Refilled(seen[h]) \in 0..Capacity /\ Refilled(seen[h]) < Unit
    BY <1>1, RefillAccounts DEF Refuse
  <2>2. PICK t \in 0..seen[h] :
           Unit * since[t] + Refilled(seen[h]) = Capacity + Rate * (seen[h] - t)
    BY <1>1, RefillAccounts DEF Refuse
  <2>3. since[t] \in Nat /\ Unit * since[t] \in Nat
    <3>1. t \in Time
      BY <1>1 DEF BucketIInv, BucketTypeOK, Time
    <3>2. since[t] \in Nat
      BY <1>1, <3>1 DEF BucketIInv, BucketTypeOK
    <3> QED
      BY <3>2
  <2>4. Unit * (since[t] + 1) = Unit * since[t] + Unit
    BY <2>3
  <2>5. Unit * (since[t] + 1) > Capacity + Rate * (seen[h] - t)
    BY <2>1, <2>2, <2>3, <2>4
  <2> QED
    BY <2>5
<1>2. BucketIInv /\ [BucketNext]_bucketVars
         => [\A h \in Handler : Refuse(h) => Justified(h)]_bucketVars
  BY <1>1
<1> QED
  BY <1>2, BucketInvariant, PTL DEF BucketSpec, RefusedOnlyOverRate

=============================================================================
