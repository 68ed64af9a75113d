--------------------------- MODULE MCConfigReload ---------------------------
(***************************************************************************)
(* ConfigReload for TLC: three configurations and a text that is none.     *)
(* The beginning of c2 is itself a configuration (c1: fewer providers),    *)
(* that of c1 is the empty file and that of c3 is cut inside a line.       *)
(***************************************************************************)
EXTENDS ConfigReload

CONSTANTS c1, c2, c3, broken

MCContent == {c1, c2, c3, broken}
MCValid   == {c1, c2, c3}
MCPartial(c) == IF c = c2 THEN c1 ELSE broken

=============================================================================
