--------------------------- MODULE MCDashboardPage ---------------------------
(***************************************************************************)
(* Four spans of two agents and of none; two are stored late.               *)
(***************************************************************************)
EXTENDS DashboardPage

CONSTANTS a, b, s1, s2, s3, s4, planner, writer, nobody, user

MCSpan     == {s1, s2, s3, s4}
MCTraceOf  == (s1 :> a) @@ (s2 :> a) @@ (s3 :> b) @@ (s4 :> b)
MCParentOf == [s \in MCSpan |-> None]
MCAgentOf  == (s1 :> planner) @@ (s2 :> planner) @@ (s3 :> nobody) @@ (s4 :> writer)
MCUserOf   == [s \in MCSpan |-> user]
MCStatusOf == [s \in MCSpan |-> IF s = s2 THEN "error" ELSE "success"]
MCBegan    == (s1 :> 1) @@ (s2 :> 2) @@ (s3 :> 3) @@ (s4 :> 4)
MCEnded    == (s1 :> 9) @@ (s2 :> 5) @@ (s3 :> 4) @@ (s4 :> 4)
MCCostOf   == (s1 :> 4) @@ (s2 :> 7) @@ (s3 :> 1) @@ (s4 :> 0)

MCStored   == {s1, s3}

=============================================================================
