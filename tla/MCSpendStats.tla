---------------------------- MODULE MCSpendStats ----------------------------
(***************************************************************************)
(* SpendStats for TLC: three requests over two minutes of two ticks and    *)
(* the beginning of a third, and a window of three ticks, so that a span   *)
(* can enter and leave the window of a later request and of a cached entry.*)
(***************************************************************************)
EXTENDS SpendStats, TLC

CONSTANTS r1, r2, r3, alice, bob, nobody

MCRequest == {r1, r2, r3}
MCUser    == {alice, bob, nobody}
TwoUsers  == {alice, nobody}

\* Clients that set both headers, or none.
BothHeaders == {[policy |-> u, span |-> u] : u \in TwoUsers}

\* Clients of the SDK, which sets X-Luner-User only.
SdkHeaders == {[policy |-> nobody, span |-> u] : u \in {alice, bob}}

MCSymmetry == Permutations(MCRequest)

=============================================================================
