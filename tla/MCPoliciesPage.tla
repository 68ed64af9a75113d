--------------------------- MODULE MCPoliciesPage ----------------------------
(***************************************************************************)
(* One policy in the table, two that may be created.                       *)
(***************************************************************************)
EXTENDS PoliciesPage, TLC

CONSTANTS old, new, newer

MCPolicy  == {old, new, newer}
MCInitRow == (old :> "active") @@ (new :> "absent") @@ (newer :> "absent")

=============================================================================
