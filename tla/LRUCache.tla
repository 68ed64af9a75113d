------------------------------ MODULE LRUCache ------------------------------
(***************************************************************************)
(* The LRU cache with a TTL (internal/cache/lru.go) and the size gauge its *)
(* observer keeps (internal/metrics/collector.go:85-95).                   *)
(*                                                                         *)
(* Get and Set run under c.mu from their first line to their last, the     *)
(* observer's calls included, so each is one step; concurrent handlers     *)
(* may call them in any order with any key: two that miss the same key     *)
(* both fetch and both Set it.  items maps a key to the item its list      *)
(* element holds; ll is the list of those keys, most recently used first.  *)
(* The hit, miss and eviction counters, which nothing reads, are left out. *)
(***************************************************************************)
EXTENDS CacheContract, SequencesExt

VARIABLES
    items,      \* LRU.items, None where the map has no entry
    ll,         \* LRU.ll: keys, the front of the list first
    gauge       \* metrics.CacheSize

vars == <<clock, written, usedSince, reply, items, ll, gauge>>

Cached == {k \in Key : items[k] # None}

\* NewLRU.
Init ==
    /\ CInit
    /\ items = [k \in Key |-> None]
    /\ ll = <<>>
    /\ gauge = 0

Tick == CTick /\ UNCHANGED <<items, ll, gauge>>

Position(k) == CHOOSE i \in DOMAIN ll : ll[i] = k

\* Not the code: a used element stays where it is (a FIFO).
StayInPlace(k) == ll

\* ll.MoveToFront(elem)
MoveToFront(k) == <<k>> \o RemoveAt(ll, Position(k))

\* Get finds a live item.
GetHit(k) ==
    /\ items[k] # None
    /\ clock < items[k].expireAt
    /\ ll' = MoveToFront(k)
    /\ usedSince' = Using(k)
    /\ reply' = [key |-> k, value |-> items[k].value]
    /\ UNCHANGED <<clock, written, items, gauge>>

\* Get finds an item whose TTL elapsed: removeElement, OnExpire.
GetExpired(k) ==
    /\ items[k] # None
    /\ clock >= items[k].expireAt
    /\ ll' = RemoveAt(ll, Position(k))
    /\ items' = [items EXCEPT ![k] = None]
    /\ gauge' = gauge - 1
    /\ reply' = [key |-> k, value |-> None]
    /\ UNCHANGED <<clock, written, usedSince>>

GetMiss(k) ==
    /\ items[k] = None
    /\ reply' = [key |-> k, value |-> None]
    /\ UNCHANGED <<clock, written, usedSince, items, ll, gauge>>

Fresh(v) == [value |-> v, expireAt |-> clock + TTL]

\* Set of a key that is present, expired or not: no observer call.
SetPresent(k, v) ==
    /\ items[k] # None
    /\ Write(k, v)
    /\ ll' = MoveToFront(k)
    /\ items' = [items EXCEPT ![k] = Fresh(v)]
    /\ UNCHANGED gauge

\* c.ll.Len() >= c.capacity, and removeOldest finds an element.
Evicts == Len(ll) >= Capacity /\ ll # <<>>

\* Not the code: the victim leaves the list but not the map.
SetNewKeepsVictim(k, v) ==
    /\ items[k] = None
    /\ Write(k, v)
    /\ ll' = <<k>> \o (IF Evicts THEN Front(ll) ELSE ll)
    /\ items' = [items EXCEPT ![k] = Fresh(v)]
    /\ gauge' = IF Evicts THEN gauge ELSE gauge + 1

\* Set of a new key: removeOldest (OnEvict) when full, then PushFront (OnAdd).
SetNew(k, v) ==
    /\ items[k] = None
    /\ Write(k, v)
    /\ ll' = <<k>> \o (IF Evicts THEN Front(ll) ELSE ll)
    /\ items' = [j \in Key |-> IF j = k THEN Fresh(v)
                               ELSE IF Evicts /\ j = Last(ll) THEN None
                               ELSE items[j]]
    /\ gauge' = IF Evicts THEN gauge ELSE gauge + 1

Get(k)    == GetHit(k) \/ GetExpired(k) \/ GetMiss(k)
Set(k, v) == SetPresent(k, v) \/ SetNew(k, v)

Next ==
    \/ Tick
    \/ \E k \in Key : Get(k) \/ \E v \in Value : Set(k, v)

Spec == Init /\ [][Next]_vars

-----------------------------------------------------------------------------

\* Types of the variables.
TypeOK ==
    /\ clock \in 0..MaxTime
    /\ written \in [Key -> Item \cup {None}]
    /\ usedSince \in [Key -> SUBSET Key]
    /\ reply \in Reply \cup {None}
    /\ items \in [Key -> Item \cup {None}]
    /\ ll \in Seq(Key)
    /\ gauge \in 0..Cardinality(Key)

\* The map, the list and the gauge agree after every operation, and the list
\* never outgrows max_items (a capacity below one still keeps one item).
WellFormed ==
    /\ ToSet(ll) = Cached
    /\ IsInjective(ll)
    /\ gauge = Len(ll)
    /\ Len(ll) <= IF Capacity > 1 THEN Capacity ELSE 1

\* The LRU cache implements the contract: a hit is the last value written, not
\* older than the TTL, and only a key that Capacity others overtook is lost.
Contract == CSpec

=============================================================================
