---------------------------- MODULE TokenBucket ----------------------------
(***************************************************************************)
(* The token bucket of one provider (internal/limiter/token.go), called by *)
(* the concurrent HTTP handlers of internal/proxy/handler.go:116-123.      *)
(*                                                                         *)
(* Tokens are counted in fractions: one token (the 1.0 of the code) is     *)
(* Unit fractions and a tick of the monotonic clock refills Rate of them,  *)
(* so that refillRate = Rate/Unit tokens per tick stands for any rational  *)
(* rate. The code computes in float64; the rounding of float64 is left out.*)
(***************************************************************************)
EXTENDS Integers

CONSTANTS
    Handler,    \* the request handlers that may be in flight at once
    Capacity,   \* the bucket's capacity, in fractions of a token
    Unit,       \* fractions in one token
    Rate,       \* fractions refilled per tick
    MaxTime     \* bound: the clock stops here

ASSUME UnitAssumption     == Unit \in Nat \ {0}
ASSUME CapacityAssumption == Capacity \in Nat
ASSUME RateAssumption     == Rate \in Nat
ASSUME MaxTimeAssumption  == MaxTime \in Nat

VARIABLES
    clock,       \* what time.Now() returns (monotonic)
    tokens,      \* Bucket.tokens
    lastRefill,  \* Bucket.lastRefill
    handler,     \* where each handler is in Allow
    seen,        \* the handler's last reading of the clock
    since        \* history: since[t] requests were admitted at readings >= t

bucketVars == <<clock, tokens, lastRefill, handler, seen, since>>

bucket == <<tokens, lastRefill>>

Time  == 0..MaxTime
Phase == {"idle", "waiting", "holding"}

\* NewBucket: the bucket starts full.
BucketInit ==
    /\ clock = 0
    /\ tokens = Capacity
    /\ lastRefill = 0
    /\ handler = [h \in Handler |-> "idle"]
    /\ seen = [h \in Handler |-> 0]
    /\ since = [t \in Time |-> 0]

Tick ==
    /\ clock < MaxTime
    /\ clock' = clock + 1
    /\ UNCHANGED <<bucket, handler, seen, since>>

\* A request arrives: the handler has read the clock once (start) when it
\* comes to Allow and asks for the mutex.
Call(h) ==
    /\ handler[h] = "idle"
    /\ handler' = [handler EXCEPT ![h] = "waiting"]
    /\ seen' = [seen EXCEPT ![h] = clock]
    /\ UNCHANGED <<clock, bucket, since>>

MutexFree == \A h \in Handler : handler[h] # "holding"

\* Not the code: the clock was read before the lock and is not read again.
AcquireStaleClock(h) ==
    /\ handler[h] = "waiting"
    /\ MutexFree
    /\ handler' = [handler EXCEPT ![h] = "holding"]
    /\ UNCHANGED <<clock, bucket, seen, since>>

\* b.mu.Lock(), then now := time.Now() under the lock.
Acquire(h) ==
    /\ handler[h] = "waiting"
    /\ MutexFree
    /\ handler' = [handler EXCEPT ![h] = "holding"]
    /\ seen' = [seen EXCEPT ![h] = clock]
    /\ UNCHANGED <<clock, bucket, since>>

\* The tokens after the refill at now, capped at the capacity.
Refilled(now) ==
    LET grown == tokens + Rate * (now - lastRefill)
    IN  IF grown > Capacity THEN Capacity ELSE grown

\* Allow returns true: takes a token, unlocks.
Admit(h) ==
    /\ handler[h] = "holding"
    /\ Refilled(seen[h]) >= Unit
    /\ tokens' = Refilled(seen[h]) - Unit
    /\ lastRefill' = seen[h]
    /\ since' = [t \in Time |-> IF t <= seen[h] THEN since[t] + 1 ELSE since[t]]
    /\ handler' = [handler EXCEPT ![h] = "idle"]
    /\ UNCHANGED <<clock, seen>>

\* Not the code: the early return comes before b.lastRefill = now.
RefuseKeepsRefill(h) ==
    /\ handler[h] = "holding"
    /\ Refilled(seen[h]) < Unit
    /\ tokens' = Refilled(seen[h])
    /\ handler' = [handler EXCEPT ![h] = "idle"]
    /\ UNCHANGED <<clock, lastRefill, seen, since>>

\* Allow returns false: the refill is kept, unlocks (the handler answers 429).
Refuse(h) ==
    /\ handler[h] = "holding"
    /\ Refilled(seen[h]) < Unit
    /\ tokens' = Refilled(seen[h])
    /\ lastRefill' = seen[h]
    /\ handler' = [handler EXCEPT ![h] = "idle"]
    /\ UNCHANGED <<clock, seen, since>>

BucketNext ==
    \/ Tick
    \/ \E h \in Handler : Call(h) \/ Acquire(h) \/ Admit(h) \/ Refuse(h)

BucketSpec == BucketInit /\ [][BucketNext]_bucketVars

-----------------------------------------------------------------------------

\* Types of the variables; the mutex is held by at most one handler.
BucketTypeOK ==
    /\ clock \in Time
    /\ tokens \in 0..Capacity
    /\ lastRefill \in Time
    /\ handler \in [Handler -> Phase]
    /\ seen \in [Handler -> Time]
    /\ since \in [Time -> Nat]

\* The promise of the limiter: in no window that ends now does the provider
\* receive more than the burst plus what the rate earned in the window, however
\* the handlers interleave (token.go:25-43).
Conforms ==
    \A t \in 0..clock : Unit * since[t] <= Capacity + Rate * (clock - t)

\* Nor is the limiter stricter than that: a 429 is answered only when one more
\* request would break Conforms for some window ending at the reading of the
\* clock, so concurrency never loses a token (token.go:32-42).
RefusedOnlyOverRate ==
    [][\A h \in Handler : Refuse(h) =>
          \E t \in 0..seen[h] :
             Unit * (since[t] + 1) > Capacity + Rate * (seen[h] - t)]_bucketVars

=============================================================================
