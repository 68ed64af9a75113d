--------------------------- MODULE MCPolicyEngine ---------------------------
(***************************************************************************)
(* PolicyEngine for TLC: two requests overlap each other and two admin     *)
(* calls, over two policies and one expression of each kind.               *)
(***************************************************************************)
EXTENDS PolicyEngine, TLC

CONSTANTS q1, q2, a1, a2, p1, p2

MCId       == {p1, p2}
MCExpr     == {"match", "false", "invalid"}
MCMatching == {"match"}
MCInvalid  == {"invalid"}
MCAction   == {"block"}
MCPriority == {1, 2}

Stored(i, e, act, pr, c) ==
    [id |-> i, expr |-> e, action |-> act, priority |-> pr, enabled |-> TRUE,
     created |-> c]

\* A single policy, and two, the first of which is broken.
MCInitTables ==
    { (p1 :> Stored(p1, "match", "block", 1, 0) @@ p2 :> None),
      (p1 :> Stored(p1, "match", "block", 2, 0)
         @@ p2 :> Stored(p2, "invalid", "block", 1, 1)) }

MCSymmetry == Permutations({q1, q2}) \cup Permutations({a1, a2})

=============================================================================
