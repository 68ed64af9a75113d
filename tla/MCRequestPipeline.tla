------------------------- MODULE MCRequestPipeline -------------------------
(***************************************************************************)
(* RequestPipeline for TLC: two requests and three bodies.  other asks     *)
(* something else than ask, stream asks the same and has "stream": true.   *)
(* Two requests are enough for one to fill the cache while, before and     *)
(* after the other passes it.                                              *)
(***************************************************************************)
EXTENDS RequestPipeline

CONSTANTS r1, r2, ask, other, stream, k1, k2

MCRequest  == {r1, r2}
MCPayload  == {ask, other, stream}
MCStreamed == {stream}
MCKey      == {k1, k2}
MCCacheKey == [p \in Payload |-> IF p = other THEN k2 ELSE k1]

=============================================================================
