----------------------------- MODULE MCLRUCache -----------------------------
(***************************************************************************)
(* LRUCache for TLC: four keys compete for three places; a TTL of two      *)
(* ticks and a clock of three let an item expire before, while and after   *)
(* others are evicted and be set again while expired; two values tell a    *)
(* stale hit from a current one.  Keys and values are symmetric.           *)
(***************************************************************************)
EXTENDS LRUCache

CONSTANTS k1, k2, k3, k4, v1, v2

MCKey      == {k1, k2, k3, k4}
MCValue    == {v1, v2}
MCCapacity == 3
MCTTL      == 2
MCMaxTime  == 3

MCSymmetry == Permutations(MCKey) \cup Permutations(MCValue)

=============================================================================
