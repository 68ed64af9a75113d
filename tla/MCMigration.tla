---------------------------- MODULE MCMigration ----------------------------
(***************************************************************************)
(* Migration for TLC: two policies that may be in the database, and three  *)
(* kills: one in the first script, one in the second, one in the repair.   *)
(***************************************************************************)
EXTENDS Migration

CONSTANTS p1, p2

MCPolicy == {p1, p2}

=============================================================================
