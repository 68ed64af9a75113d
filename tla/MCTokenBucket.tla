--------------------------- MODULE MCTokenBucket ---------------------------
(***************************************************************************)
(* TokenBucket for TLC: a bucket of burst 2 that earns half a token per    *)
(* tick.  Over six ticks a bucket drained by its burst earns tokens again, *)
(* overflows when left alone, and holds half a token in between.           *)
(***************************************************************************)
EXTENDS TokenBucket

CONSTANTS h1, h2

MCHandler  == {h1, h2}
MCUnit     == 2
MCCapacity == 2 * MCUnit
MCRate     == 1
MCMaxTime  == 6

=============================================================================
