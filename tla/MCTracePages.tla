---------------------------- MODULE MCTracePages -----------------------------
(***************************************************************************)
(* Two traces to a page of one row: a has a root and a late child of       *)
(* another user, b a span whose parent is another's and one that is its    *)
(* own parent.                                                             *)
(***************************************************************************)
EXTENDS TracePages, TLC

CONSTANTS a, b, root, child, leaf, lone, ring, elsewhere, agent, user, other

MCSpan   == {root, child, leaf, lone, ring}
MCTrace  == {a, b}
MCTraceOf  == (root :> a) @@ (child :> a) @@ (leaf :> a) @@ (lone :> b) @@ (ring :> b)
MCParentOf == (root :> None) @@ (child :> root) @@ (leaf :> child)
                 @@ (lone :> elsewhere) @@ (ring :> ring)
MCAgentOf  == [s \in MCSpan |-> agent]
MCUserOf   == [s \in MCSpan |-> IF s \in {root, lone, ring} THEN user ELSE other]
MCStatusOf == [s \in MCSpan |-> IF s = leaf THEN "error" ELSE "success"]
MCBegan    == (root :> 1) @@ (child :> 2) @@ (leaf :> 5) @@ (lone :> 7) @@ (ring :> 8)
MCEnded    == (root :> 12) @@ (child :> 7) @@ (leaf :> 6) @@ (lone :> 8) @@ (ring :> 10)

\* The insert of the span in the middle is late.
MCInitStored == {MCSpan \ {child}}

=============================================================================
