-------------------------- MODULE SpendStatsProofs --------------------------
(***************************************************************************)
(* TLAPS proofs about SpendStats, for every number of requests, whatever   *)
(* identities they carry, and for minutes and hours of any length.         *)
(*                                                                         *)
(* A verdict may rest on what another request has queried, so the          *)
(* invariant says of the stats on their way, in a request that has queried *)
(* (QueriedOf) and in the cache (Kept), what the properties say of stats   *)
(* that were used: nothing missed, nothing else.  That survives the spans  *)
(* which are stored in between (Carry) because those are stored now, and   *)
(* now is not before the minute in question; and the passing from one      *)
(* request to another because the key holds the minute of the query.       *)
(***************************************************************************)
EXTENDS SpendStats, TLAPS

\* What S lacks of the spans of u that were stored before m and started less
\* than an hour before t: nothing, in a table of these columns.
Complete(S, u, m, t, stored, started, ids) ==
    \A s \in Request :
        /\ stored[s] # None /\ stored[s] < m
        /\ started[s] >= t - Hour
        /\ u \in {Anonymous, ids[s].span}
        => s \in S

\* What it has beyond the stored spans of u that started at t - Hour or later.
Sound(S, u, t, stored, started, ids) ==
    \A s \in S :
        /\ stored[s] # None
        /\ started[s] >= t - Hour
        /\ u \in {Anonymous, ids[s].span}

\* Readings of the clock are past, spans are stored once and then stay as they
\* are.
PastOf(r) ==
    /\ start[r] <= clock /\ now[r] <= clock
    /\ storedAt[r] # None => phase[r] = "stored"
    /\ phase[r] # "new" => headers[r] \in Headers
    /\ phase[r] \in {"new", "arrived", "query"} => used[r] = None

\* A request that has queried and not yet stored the result.
QueriedOf(r) ==
    phase[r] = "store" =>
        /\ used[r] \in SUBSET Request
        /\ Complete(used[r], headers[r].policy, MinuteStart(now[r]), now[r],
                    storedAt, start, headers)
        /\ Sound(used[r], headers[r].policy, now[r], storedAt, start, headers)

\* A request that has been judged by stats: NothingMissed, NothingElseCounted.
UsedOf(r) ==
    Judged(r) =>
        /\ used[r] \in SUBSET Request
        /\ Complete(used[r], headers[r].policy, MinuteStart(now[r]), now[r],
                    storedAt, start, headers)
        /\ Sound(used[r], headers[r].policy, MinuteStart(now[r]), storedAt, start,
                 headers)

\* An entry of the cache: t is when its request read the clock.
Entered(e, u, b, t) ==
    /\ t \in 0..clock /\ t \div Minute = b /\ e.expiresAt = t + Minute
    /\ Complete(e.stats, u, Minute * b, t, storedAt, start, headers)
    /\ Sound(e.stats, u, t, storedAt, start, headers)

Kept ==
    \A u \in User, b \in Bucket :
        statsCache[<<u, b>>] # None =>
            \E t \in 0..clock : Entered(statsCache[<<u, b>>], u, b, t)

IInv ==
    /\ TypeOK
    /\ \A r \in Request : PastOf(r) /\ QueriedOf(r) /\ UsedOf(r)
    /\ Kept

-----------------------------------------------------------------------------

LEMMA Minutes ==
    ASSUME NEW t \in Nat
    PROVE  /\ t \div Minute \in Nat
           /\ Minute * (t \div Minute) <= t
           /\ Minute * (t \div Minute) \in Nat
BY TimeAssumption

LEMMA Buckets ==
    ASSUME NEW t \in Time
    PROVE  t \div Minute \in Bucket
BY TimeAssumption DEF Time, Bucket

\* How the columns of the spans may change in a step.
Evolves ==
    \A s \in Request :
        /\ storedAt[s] # None =>
              /\ storedAt'[s] = storedAt[s]
              /\ start'[s] = start[s] /\ headers'[s] = headers[s]
        /\ storedAt'[s] # storedAt[s] => storedAt'[s] = clock

\* Spans stored now take nothing from stats of an earlier minute.
LEMMA Carry ==
    ASSUME Evolves, TypeOK, NEW S \in SUBSET Request, NEW u, NEW m \in Nat, m <= clock,
           NEW t
    PROVE  /\ Complete(S, u, m, t, storedAt, start, headers)
                => Complete(S, u, m, t, storedAt', start', headers')
           /\ Sound(S, u, t, storedAt, start, headers)
                => Sound(S, u, t, storedAt', start', headers')
<1>1. clock \in Nat
  BY TimeAssumption DEF TypeOK, Time
<1>2. ASSUME Complete(S, u, m, t, storedAt, start, headers)
      PROVE  Complete(S, u, m, t, storedAt', start', headers')
  <2> SUFFICES ASSUME NEW s \in Request, storedAt'[s] # None, storedAt'[s] < m,
                      start'[s] >= t - Hour,
                      u \in {Anonymous, headers'[s].span}
               PROVE  s \in S
    BY DEF Complete
  <2>1. storedAt'[s] # clock
    BY <1>1
  <2>2. storedAt'[s] = storedAt[s] /\ start'[s] = start[s] /\ headers'[s] = headers[s]
    BY <2>1 DEF Evolves
  <2> QED
    BY <1>2, <2>2 DEF Complete
<1>3. ASSUME Sound(S, u, t, storedAt, start, headers)
      PROVE  Sound(S, u, t, storedAt', start', headers')
  BY <1>3 DEF Evolves, Sound
<1> QED
  BY <1>2, <1>3

-----------------------------------------------------------------------------

LEMMA ReadingsPast ==
    ASSUME IInv, NEW r \in Request
    PROVE  /\ now[r] \in Nat /\ clock \in Nat
           /\ MinuteStart(now[r]) \in Nat /\ MinuteStart(now[r]) <= clock
<1>1. now[r] \in Nat /\ clock \in Nat /\ now[r] <= clock
  BY TimeAssumption DEF IInv, TypeOK, Time, PastOf
<1>2. MinuteStart(now[r]) \in Nat /\ MinuteStart(now[r]) <= now[r]
  BY <1>1, Minutes DEF MinuteStart
<1> QED
  BY <1>1, <1>2

\* A request that keeps its stats keeps what is known of them.
LEMMA Still ==
    ASSUME IInv, Evolves, NEW r \in Request,
           used'[r] = used[r],
           phase'[r] = "store" <=> phase[r] = "store",
           phase[r] \notin {"new", "arrived", "query"} =>
               now'[r] = now[r] /\ headers'[r] = headers[r]
    PROVE  QueriedOf(r)' /\ UsedOf(r)'
<1> DEFINE m == MinuteStart(now[r])
           u == headers[r].policy
<1>1. TypeOK /\ m \in Nat /\ m <= clock /\ PastOf(r) /\ QueriedOf(r) /\ UsedOf(r)
  BY ReadingsPast DEF IInv
<1>2. CASE phase[r] \in {"new", "arrived", "query"}
  BY <1>1, <1>2 DEF PastOf, QueriedOf, UsedOf, Judged
<1>3. CASE phase[r] \notin {"new", "arrived", "query"}
  <2>1. now'[r] = now[r] /\ headers'[r] = headers[r] /\ MinuteStart(now[r])' = m
    BY <1>3 DEF MinuteStart
  <2>2. QueriedOf(r)'
    <3> SUFFICES ASSUME phase'[r] = "store"
                 PROVE  QueriedOf(r)'
      BY DEF QueriedOf
    <3>1. /\ used[r] \in SUBSET Request
          /\ Complete(used[r], u, m, now[r], storedAt, start, headers)
          /\ Sound(used[r], u, now[r], storedAt, start, headers)
      BY <1>1 DEF QueriedOf
    <3>2. /\ Complete(used[r], u, m, now[r], storedAt', start', headers')
          /\ Sound(used[r], u, now[r], storedAt', start', headers')
      <4> HIDE DEF m, u
      <4> QED
        BY <1>1, <3>1, Carry
    <3> QED
      BY <2>1, <3>1, <3>2 DEF QueriedOf
  <2>3. UsedOf(r)'
    <3> SUFFICES ASSUME Judged(r)'
                 PROVE  UsedOf(r)'
      BY DEF UsedOf
    <3>1. Judged(r)
      BY <1>3 DEF Judged
    <3>2. /\ used[r] \in SUBSET Request
          /\ Complete(used[r], u, m, now[r], storedAt, start, headers)
          /\ Sound(used[r], u, m, storedAt, start, headers)
      BY <1>1, <3>1 DEF UsedOf
    <3>3. /\ Complete(used[r], u, m, now[r], storedAt', start', headers')
          /\ Sound(used[r], u, m, storedAt', start', headers')
      <4> HIDE DEF m, u
      <4> QED
        BY <1>1, <3>2, Carry
    <3> QED
      BY <2>1, <3>2, <3>3 DEF UsedOf
  <2> QED
    BY <2>2, <2>3
<1> QED
  BY <1>2, <1>3

\* An entry that stays in the cache.
LEMMA EntryStill ==
    ASSUME IInv, Evolves, clock' \in Nat, clock <= clock',
           NEW u \in User, NEW b \in Bucket, NEW e \in Entry,
           NEW t \in 0..clock, Entered(e, u, b, t)
    PROVE  t \in 0..clock' /\ Entered(e, u, b, t)'
<1>1. clock \in Nat /\ TypeOK /\ e.stats \in SUBSET Request
  BY TimeAssumption DEF IInv, TypeOK, Time, Entry
<1>2. Minute * b \in Nat /\ Minute * b <= clock
  BY <1>1, Minutes DEF Entered
<1>3. /\ Complete(e.stats, u, Minute * b, t, storedAt', start', headers')
      /\ Sound(e.stats, u, t, storedAt', start', headers')
  BY <1>1, <1>2, Carry DEF Entered
<1> QED
  BY <1>1, <1>3 DEF Entered

LEMMA KeptStill ==
    ASSUME IInv, Evolves, clock' \in Nat, clock <= clock',
           NEW u \in User, NEW b \in Bucket, NEW e,
           e = statsCache[<<u, b>>], e # None
    PROVE  \E t \in 0..clock' : Entered(e, u, b, t)'
<1>1. e \in Entry
  BY DEF IInv, TypeOK
<1>2. PICK t \in 0..clock : Entered(e, u, b, t)
  BY DEF IInv, Kept
<1> QED
  BY <1>1, <1>2, EntryStill

\* What a step of one request has to show for it.
LEMMA StepOf ==
    ASSUME IInv, TypeOK', Evolves, clock' = clock, NEW r \in Request,
           \A q \in Request \ {r} :
               /\ phase'[q] = phase[q] /\ used'[q] = used[q] /\ now'[q] = now[q]
               /\ headers'[q] = headers[q] /\ start'[q] = start[q]
               /\ storedAt'[q] = storedAt[q],
           PastOf(r)', QueriedOf(r)', UsedOf(r)', Kept'
    PROVE  IInv'
<1> SUFFICES ASSUME NEW q \in Request \ {r}
             PROVE  PastOf(q)' /\ QueriedOf(q)' /\ UsedOf(q)'
  BY DEF IInv
<1>1. PastOf(q)'
  BY DEF IInv, PastOf
<1> QED
  BY <1>1, Still

\* The cache is left alone.
LEMMA CacheStill ==
    ASSUME IInv, Evolves, clock' \in Nat, clock <= clock', statsCache' = statsCache
    PROVE  Kept'
<1> SUFFICES ASSUME NEW u \in User, NEW b \in Bucket, statsCache[<<u, b>>] # None
             PROVE  \E t \in 0..clock' : Entered(statsCache[<<u, b>>], u, b, t)'
  BY DEF Kept
<1>1. PICK e : e = statsCache[<<u, b>>]
  OBVIOUS
<1>2. \E t \in 0..clock' : Entered(e, u, b, t)'
  BY <1>1, KeptStill
<1> QED
  BY <1>1, <1>2

-----------------------------------------------------------------------------

LEMMA InitIInv == Init => IInv
<1> SUFFICES ASSUME Init PROVE IInv
  OBVIOUS
<1>1. TypeOK
  BY TimeAssumption DEF Init, TypeOK, Time
<1>2. \A r \in Request : PastOf(r) /\ QueriedOf(r) /\ UsedOf(r)
  BY DEF Init, PastOf, QueriedOf, UsedOf, Judged
<1>3. Kept
  BY DEF Init, Kept
<1> QED
  BY <1>1, <1>2, <1>3 DEF IInv

LEMMA TickKeeps ==
    ASSUME IInv, Tick
    PROVE  IInv'
<1>1. clock \in Nat /\ clock' \in Nat /\ clock <= clock' /\ TypeOK
  BY TimeAssumption DEF IInv, TypeOK, Time, Tick
<1>2. TypeOK'
  BY <1>1, TimeAssumption DEF TypeOK, Time, Tick
<1>3. Evolves /\ Kept'
  <2>1. Evolves
    BY DEF Tick, Evolves
  <2> QED
    BY <1>1, <2>1, CacheStill DEF Tick
<1>4. ASSUME NEW r \in Request
      PROVE  PastOf(r)' /\ QueriedOf(r)' /\ UsedOf(r)'
  <2>1. PastOf(r)'
    <3>1. start[r] \in Nat /\ now[r] \in Nat /\ PastOf(r)
      BY <1>1, TimeAssumption DEF IInv, TypeOK, Time
    <3> QED
      BY <1>1, <3>1 DEF PastOf, Tick
  <2> QED
    BY <1>3, <2>1, Still DEF Tick
<1> QED
  BY <1>2, <1>3, <1>4 DEF IInv

\* A request that comes in carries no stats yet.
LEMMA ArriveKeeps ==
    ASSUME IInv, NEW r \in Request, Arrive(r)
    PROVE  IInv'
<1>1. TypeOK /\ PastOf(r) /\ clock \in Time /\ clock \in Nat
  BY TimeAssumption DEF IInv, TypeOK, Time
<1>2. PICK h \in Headers : headers' = [headers EXCEPT ![r] = h]
  BY DEF Arrive
<1>3. TypeOK'
  BY <1>1, <1>2 DEF TypeOK, Arrive
<1>4. Evolves
  BY <1>1, <1>2 DEF Evolves, Arrive, TypeOK, PastOf
<1>5. Kept'
  BY <1>1, <1>4, CacheStill DEF Arrive
<1>6. PastOf(r)'
  BY <1>1, <1>2 DEF PastOf, Arrive, TypeOK
<1>7. QueriedOf(r)' /\ UsedOf(r)'
  BY <1>1, <1>4, Still DEF Arrive, TypeOK
<1> QED
  BY <1>1, <1>2, <1>3, <1>4, <1>5, <1>6, <1>7, StepOf DEF Arrive, TypeOK

\* Steps that change nothing but how far the request has got and when it read
\* the clock, before there are stats, or without.
LEMMA OnwardKeeps ==
    ASSUME IInv, NEW r \in Request,
           StatsMissing(r) \/ QueryFails(r) \/ Lose(r)
    PROVE  IInv'
<1>1. TypeOK /\ PastOf(r) /\ clock \in Time /\ clock \in Nat
  BY TimeAssumption DEF IInv, TypeOK, Time
<1>2. TypeOK'
  BY <1>1 DEF TypeOK, StatsMissing, QueryFails, Lose
<1>3. Evolves
  BY DEF Evolves, StatsMissing, QueryFails, Lose
<1>4. Kept'
  BY <1>1, <1>3, CacheStill DEF StatsMissing, QueryFails, Lose
<1>5. PastOf(r)'
  BY <1>1 DEF PastOf, StatsMissing, QueryFails, Lose, TypeOK
<1>6. QueriedOf(r)' /\ UsedOf(r)'
  BY <1>1, <1>3, Still DEF StatsMissing, QueryFails, Lose, TypeOK
<1> QED
  BY <1>1, <1>2, <1>3, <1>4, <1>5, <1>6, StepOf
     DEF StatsMissing, QueryFails, Lose, TypeOK

\* A span is stored now.
LEMMA StoreKeeps ==
    ASSUME IInv, NEW r \in Request, Store(r)
    PROVE  IInv'
<1>1. TypeOK /\ PastOf(r) /\ clock \in Time /\ clock \in Nat
  BY TimeAssumption DEF IInv, TypeOK, Time
<1>2. TypeOK'
  BY <1>1 DEF TypeOK, Store
<1>3. Evolves
  BY <1>1 DEF Evolves, Store, TypeOK, PastOf
<1>4. Kept'
  BY <1>1, <1>3, CacheStill DEF Store
<1>5. PastOf(r)'
  BY <1>1 DEF PastOf, Store, TypeOK
<1>6. QueriedOf(r)' /\ UsedOf(r)'
  BY <1>1, <1>3, Still DEF Store, TypeOK
<1> QED
  BY <1>1, <1>2, <1>3, <1>4, <1>5, <1>6, StepOf DEF Store, TypeOK

\* The query counts what the table holds: all there is and nothing else.
LEMMA QueryKeeps ==
    ASSUME IInv, NEW r \in Request, Query(r)
    PROVE  IInv'
<1>1. /\ TypeOK /\ PastOf(r) /\ headers[r] \in Headers /\ headers[r].policy \in User
      /\ used' = [used EXCEPT ![r] = QueryStats(headers[r].policy, now[r])]
      /\ QueryStats(headers[r].policy, now[r]) \in SUBSET Request
  BY UserAssumption DEF IInv, PastOf, Query, QueryStats, Stored
<1>2. TypeOK'
  BY <1>1 DEF TypeOK, Query
<1>3. Evolves
  BY DEF Evolves, Query
<1>4. Kept'
  BY <1>1, <1>3, CacheStill, TimeAssumption DEF Query, TypeOK, Time
<1>5. PastOf(r)' /\ UsedOf(r)'
  BY <1>1 DEF PastOf, UsedOf, Judged, Query, TypeOK
<1>6. QueriedOf(r)'
  <2>1. used'[r] = QueryStats(headers[r].policy, now[r])
    BY <1>1 DEF TypeOK
  <2> QED
    BY <1>1, <2>1 DEF QueriedOf, Complete, Sound, Query, QueryStats, Stored
<1> QED
  BY <1>1, <1>2, <1>3, <1>4, <1>5, <1>6, StepOf DEF Query, TypeOK

\* A window that begins at a reading of the clock reaches no further back than
\* one that begins with its minute.
LEMMA WiderWindow ==
    ASSUME NEW S \in SUBSET Request, NEW u, NEW t \in Nat,
           Sound(S, u, t, storedAt, start, headers), TypeOK
    PROVE  Sound(S, u, MinuteStart(t), storedAt, start, headers)
<1>1. MinuteStart(t) \in Nat /\ MinuteStart(t) <= t
  BY Minutes DEF MinuteStart
<1>2. \A s \in S : start[s] \in Nat
  BY TimeAssumption DEF TypeOK, Time
<1> QED
  BY <1>1, <1>2, TimeAssumption DEF Sound

\* The stats are kept under the minute they were queried in.
LEMMA StoreStatsKeeps ==
    ASSUME IInv, NEW r \in Request, StoreStats(r)
    PROVE  IInv'
<1> DEFINE u == headers[r].policy
           t == now[r]
           b == now[r] \div Minute
<1>1. /\ TypeOK /\ PastOf(r) /\ headers[r] \in Headers /\ u \in User
      /\ phase[r] = "store" /\ used[r] \in SUBSET Request
      /\ Complete(used[r], u, MinuteStart(t), t, storedAt, start, headers)
      /\ Sound(used[r], u, t, storedAt, start, headers)
  BY UserAssumption DEF IInv, PastOf, QueriedOf, StoreStats
<1>2. t \in Time /\ t \in Nat /\ clock \in Nat /\ t \in 0..clock /\ b \in Bucket
  BY <1>1, TimeAssumption, Buckets DEF TypeOK, Time, PastOf
<1>3. /\ UNCHANGED <<clock, headers, start, now, storedAt>>
      /\ used' = used
      /\ statsCache' = [statsCache EXCEPT ![<<u, b>>] =
                           [stats |-> used[r], expiresAt |-> t + Minute]]
      /\ phase' \in {[phase EXCEPT ![r] = "blocked"], [phase EXCEPT ![r] = "upstream"]}
  <2>1. used' = used
    BY <1>1 DEF StoreStats, Judge, TypeOK
  <2> QED
    BY <2>1 DEF StoreStats, Judge, Key
<1>4. [stats |-> used[r], expiresAt |-> t + Minute] \in Entry
  BY <1>1, <1>2, TimeAssumption DEF Entry, Time
<1>5. TypeOK'
  BY <1>1, <1>2, <1>3, <1>4 DEF TypeOK
<1>6. Evolves
  BY <1>3 DEF Evolves
<1>7. Kept'
  <2> SUFFICES ASSUME NEW v \in User, NEW c \in Bucket, statsCache'[<<v, c>>] # None
               PROVE  \E i \in 0..clock' : Entered(statsCache[<<v, c>>], v, c, i)'
    BY DEF Kept
  <2>1. CASE <<v, c>> = <<u, b>>
    <3>1. v = u /\ c = b
      BY <2>1
    <3>2. statsCache'[<<v, c>>] = [stats |-> used[r], expiresAt |-> t + Minute]
      BY <1>1, <1>2, <1>3, <2>1 DEF TypeOK
    <3>3. Minute * b = MinuteStart(t)
      BY DEF MinuteStart
    <3> QED
      BY <1>1, <1>2, <1>3, <3>1, <3>2, <3>3 DEF Entered
  <2>2. CASE <<v, c>> # <<u, b>>
    <3>1. PICK e : e = statsCache[<<v, c>>]
      OBVIOUS
    <3>2. statsCache'[<<v, c>>] = e
      BY <1>1, <1>3, <2>2, <3>1 DEF TypeOK
    <3>3. \E i \in 0..clock' : Entered(e, v, c, i)'
      BY <1>2, <1>3, <1>6, <3>1, <3>2, KeptStill
    <3> QED
      BY <3>2, <3>3
  <2> QED
    BY <2>1, <2>2
<1>8. PastOf(r)' /\ QueriedOf(r)'
  BY <1>1, <1>3 DEF PastOf, QueriedOf, TypeOK
<1>9. UsedOf(r)'
  <2>1. Sound(used[r], u, MinuteStart(t), storedAt, start, headers)
    BY <1>1, <1>2, WiderWindow
  <2> QED
    BY <1>1, <1>3, <2>1 DEF UsedOf, MinuteStart
<1> QED
  BY <1>1, <1>3, <1>5, <1>6, <1>7, <1>8, <1>9, StepOf DEF TypeOK

\* An entry found was queried in the minute it is found in, and not later.
LEMMA StatsCachedKeeps ==
    ASSUME IInv, NEW r \in Request, StatsCached(r)
    PROVE  IInv'
<1> DEFINE u == headers[r].policy
           b == clock \div Minute
           S == statsCache[<<u, b>>].stats
<1>1. /\ TypeOK /\ PastOf(r) /\ headers[r] \in Headers /\ u \in User
      /\ phase[r] = "arrived"
      /\ clock \in Time /\ clock \in Nat /\ b \in Bucket
  BY UserAssumption, TimeAssumption, Buckets
     DEF IInv, PastOf, StatsCached, TypeOK, Time
<1>2. /\ UNCHANGED <<clock, headers, start, storedAt, statsCache>>
      /\ statsCache[<<u, b>>] # None
      /\ now' = [now EXCEPT ![r] = clock]
      /\ used' = [used EXCEPT ![r] = S]
      /\ phase' \in {[phase EXCEPT ![r] = "blocked"], [phase EXCEPT ![r] = "upstream"]}
  BY DEF StatsCached, Judge, Key
<1>3. statsCache[<<u, b>>] \in Entry /\ S \in SUBSET Request
  BY <1>1, <1>2 DEF TypeOK, Entry
<1>4. PICK t \in 0..clock : Entered(statsCache[<<u, b>>], u, b, t)
  BY <1>1, <1>2 DEF IInv, Kept
<1>5. TypeOK'
  BY <1>1, <1>2, <1>3 DEF TypeOK
<1>6. Evolves
  BY <1>2 DEF Evolves
<1>7. Kept'
  BY <1>1, <1>2, <1>6, CacheStill
<1>8. PastOf(r)' /\ QueriedOf(r)'
  BY <1>1, <1>2 DEF PastOf, QueriedOf, TypeOK
<1>9. UsedOf(r)'
  <2>1. t \in Nat /\ t <= clock /\ MinuteStart(t) = MinuteStart(clock)
    BY <1>1, <1>4 DEF Entered, MinuteStart
  <2>2. Complete(S, u, MinuteStart(clock), clock, storedAt, start, headers)
    <3>1. Complete(S, u, MinuteStart(clock), t, storedAt, start, headers)
      BY <1>4 DEF Entered, MinuteStart
    <3>2. \A s \in Request : start[s] \in Nat
      BY <1>1, TimeAssumption DEF TypeOK, Time
    <3> HIDE DEF S, u
    <3> QED
      BY <1>1, <2>1, <3>1, <3>2, TimeAssumption DEF Complete
  <2>3. Sound(S, u, MinuteStart(clock), storedAt, start, headers)
    BY <1>1, <1>3, <1>4, <2>1, WiderWindow DEF Entered
  <2>4. used'[r] = S /\ now'[r] = clock
    BY <1>1, <1>2 DEF TypeOK
  <2>5. MinuteStart(now[r])' = MinuteStart(clock)
    BY <2>4 DEF MinuteStart
  <2> QED
    BY <1>2, <1>3, <2>2, <2>3, <2>4, <2>5 DEF UsedOf
<1> QED
  BY <1>1, <1>2, <1>5, <1>6, <1>7, <1>8, <1>9, StepOf DEF TypeOK

-----------------------------------------------------------------------------

LEMMA NextIInv == IInv /\ [Next]_vars => IInv'
<1> SUFFICES ASSUME IInv, [Next]_vars PROVE IInv'
  OBVIOUS
<1>1. CASE UNCHANGED vars
  BY <1>1 DEF vars, IInv, TypeOK, PastOf, QueriedOf, UsedOf, Judged, MinuteStart,
     Kept, Entered
<1>2. CASE Tick
  BY <1>2, TickKeeps
<1>3. ASSUME NEW r \in Request,
             \/ Arrive(r) \/ StatsCached(r) \/ StatsMissing(r) \/ Query(r)
             \/ QueryFails(r) \/ StoreStats(r) \/ Store(r) \/ Lose(r)
      PROVE  IInv'
  BY <1>3, ArriveKeeps, OnwardKeeps, StoreKeeps, QueryKeeps, StoreStatsKeeps,
     StatsCachedKeeps
<1> QED
  BY <1>1, <1>2, <1>3 DEF Next

LEMMA Invariant == Spec => []IInv
BY InitIInv, NextIInv, PTL DEF Spec

\* The variables keep their types: no key of the cache is out of its range
\* (engine.go:146-173).
THEOREM TypeCorrect == Spec => []TypeOK
<1>1. IInv => TypeOK
  BY DEF IInv
<1> QED
  BY <1>1, Invariant, PTL

\* A spend limit lags by the current minute at most, however the queries and
\* the cache stores of concurrent requests interleave (engine.go:146-173).
THEOREM NoneMissed == Spec => []NothingMissed
<1>1. IInv => NothingMissed
  BY DEF IInv, UsedOf, Complete, NothingMissed
<1> QED
  BY <1>1, Invariant, PTL

\* No span of another user is counted, none that was not stored and none that
\* is too old (engine.go:146-173, span_store.go:197-217).
THEOREM NoneElse == Spec => []NothingElseCounted
<1>1. IInv => NothingElseCounted
  BY DEF IInv, UsedOf, Sound, NothingElseCounted
<1> QED
  BY <1>1, Invariant, PTL

=============================================================================
