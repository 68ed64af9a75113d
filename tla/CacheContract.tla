--------------------------- MODULE CacheContract ---------------------------
(***************************************************************************)
(* What the response cache promises its callers (internal/proxy/handler.go *)
(* :144-160 and 245-258), whatever data structure keeps it.                *)
(*                                                                         *)
(* A read returns either what was last written under the key, while that   *)
(* is younger than the TTL, or a miss; and it may miss a fresh key only    *)
(* when at least Capacity other keys were used after the key's last use.   *)
(* A use is a hit or a write.                                              *)
(***************************************************************************)
EXTENDS Integers, FiniteSets

CONSTANTS
    Key,        \* cache keys (GenerateKey)
    Value,      \* response bodies
    None,       \* no item, no value
    Capacity,   \* max_items; a negative number in the config is not refused
    TTL,        \* how long an item lives, in ticks
    MaxTime     \* bound: the clock stops here

VARIABLES
    clock,
    written,    \* the last write of each key: its value and when it expires
    usedSince,  \* the keys used since the last use of each key
    reply       \* what the last operation returned

cvars == <<clock, written, usedSince, reply>>

Item  == [value : Value, expireAt : 0..MaxTime + TTL]
Reply == [key : Key, value : Value \cup {None}]

ASSUME TimeAssumption     == MaxTime \in Nat /\ TTL \in Nat
ASSUME CapacityAssumption == Capacity \in Int
ASSUME KeyAssumption      == IsFiniteSet(Key)
ASSUME NoneAssumption     == None \notin Item \cup Value \cup Reply

Using(k) == [j \in Key |-> IF j = k THEN {} ELSE usedSince[j] \cup {k}]

Live(k) == written[k] # None /\ clock < written[k].expireAt

\* The keys a read must find.
Promised(k) == Live(k) /\ Cardinality(usedSince[k]) < Capacity

CInit ==
    /\ clock = 0
    /\ written = [k \in Key |-> None]
    /\ usedSince = [k \in Key |-> {}]
    /\ reply = None

CTick ==
    /\ clock < MaxTime
    /\ clock' = clock + 1
    /\ UNCHANGED <<written, usedSince, reply>>

Write(k, v) ==
    /\ written' = [written EXCEPT ![k] = [value |-> v, expireAt |-> clock + TTL]]
    /\ usedSince' = Using(k)
    /\ reply' = None
    /\ UNCHANGED clock

ReadHit(k) ==
    /\ Live(k)
    /\ reply' = [key |-> k, value |-> written[k].value]
    /\ usedSince' = Using(k)
    /\ UNCHANGED <<clock, written>>

ReadMiss(k) ==
    /\ ~Promised(k)
    /\ reply' = [key |-> k, value |-> None]
    /\ UNCHANGED <<clock, written, usedSince>>

CNext ==
    \/ CTick
    \/ \E k \in Key : ReadHit(k) \/ ReadMiss(k) \/ \E v \in Value : Write(k, v)

CSpec == CInit /\ [][CNext]_cvars

=============================================================================
