----------------------------- MODULE SpendStats -----------------------------
(***************************************************************************)
(* What a CEL policy knows of a user's spending: the statistics that       *)
(* fillStats (internal/policy/engine.go:146-173) reads for each request    *)
(* from the spans earlier requests have left                               *)
(* (internal/storage/sqlite/span_store.go:197-217), through a cache keyed  *)
(* by the user and the minute, and the asynchronous way of those spans     *)
(* into the table (internal/trace/collector.go:36-122).                    *)
(*                                                                         *)
(* The one policy is `request_count >= Limit` with the action block; cost  *)
(* and tokens are sums over the same spans.  A user stands for the pair of *)
(* user and tenant.  Stats are the set of requests whose spans are counted.*)
(***************************************************************************)
EXTENDS Integers, FiniteSets

CONSTANTS
    Request,   \* requests, each made once
    User,      \* user ids; Anonymous is the absent header
    Anonymous,
    Headers,   \* the identities requests carry: [policy, span], the values of
               \* X-User-Id and of X-Luner-User
    Limit,     \* the policy's limit
    Minute,    \* ticks in a minute
    Hour,      \* ticks in an hour
    None,
    MaxTime    \* bound: the clock stops here

ASSUME TimeAssumption ==
    Minute \in Nat \ {0} /\ Hour \in Nat /\ MaxTime \in Nat
ASSUME UserAssumption ==
    /\ Anonymous \in User
    /\ Headers \subseteq [policy : User, span : User]
ASSUME RequestAssumption == IsFiniteSet(Request) /\ Limit \in Nat

Time   == 0..MaxTime
Bucket == 0..(MaxTime \div Minute)

VARIABLES
    clock,
    phase,      \* new, arrived, query, store, upstream, and the ends: stored,
                \* lost, blocked
    headers,    \* of each request
    start,      \* when ServeHTTP began: the span's StartTime
    now,        \* fillStats' reading of the clock
    used,       \* evalCtx: the requests counted for it, None without stats
    statsCache, \* user and bucket to the stats kept and the time they expire
    storedAt    \* history: when each request's span was inserted

vars == <<clock, phase, headers, start, now, used, statsCache, storedAt>>

Entry == [stats : SUBSET Request, expiresAt : 0..MaxTime + Minute]

Init ==
    /\ clock = 0
    /\ phase = [r \in Request |-> "new"]
    /\ headers = [r \in Request |-> None]
    /\ start = [r \in Request |-> 0]
    /\ now = [r \in Request |-> 0]
    /\ used = [r \in Request |-> None]
    /\ statsCache = [k \in User \X Bucket |-> None]
    /\ storedAt = [r \in Request |-> None]

Tick ==
    /\ clock < MaxTime
    /\ clock' = clock + 1
    /\ UNCHANGED <<phase, headers, start, now, used, statsCache, storedAt>>

Arrive(r) ==
    /\ phase[r] = "new"
    /\ phase' = [phase EXCEPT ![r] = "arrived"]
    /\ start' = [start EXCEPT ![r] = clock]
    /\ \E h \in Headers : headers' = [headers EXCEPT ![r] = h]
    /\ UNCHANGED <<clock, now, used, statsCache, storedAt>>

\* Not the code: one cache entry per user, for all minutes.
KeyOfUser(r, t) == <<headers[r].policy, 0>>

\* statsKey
Key(r, t) == <<headers[r].policy, t \div Minute>>

\* The verdict of the policy; the handler answers 403 or goes upstream.
Judge(r, stats) ==
    /\ used' = [used EXCEPT ![r] = stats]
    /\ phase' = [phase EXCEPT ![r] =
                    IF Cardinality(stats) >= Limit THEN "blocked" ELSE "upstream"]

\* statsCache.Load finds an entry that has not expired.
StatsCached(r) ==
    LET entry == statsCache[Key(r, clock)] IN
    /\ phase[r] = "arrived"
    /\ entry # None
    /\ clock < entry.expiresAt
    /\ now' = [now EXCEPT ![r] = clock]
    /\ Judge(r, entry.stats)
    /\ UNCHANGED <<clock, headers, start, statsCache, storedAt>>

StatsMissing(r) ==
    LET entry == statsCache[Key(r, clock)] IN
    /\ phase[r] = "arrived"
    /\ entry # None => clock >= entry.expiresAt
    /\ now' = [now EXCEPT ![r] = clock]
    /\ phase' = [phase EXCEPT ![r] = "query"]
    /\ UNCHANGED <<clock, headers, start, used, statsCache, storedAt>>

Stored == {s \in Request : storedAt[s] # None}

\* Not the code: the filter on the user is left out.
QueryAllUsers(u, t) == {s \in Stored : start[s] >= t - Hour}

\* SELECT COUNT(*) ... WHERE start_time >= t - 1h, AND user_id = u unless empty
QueryStats(u, t) ==
    {s \in Stored : start[s] >= t - Hour /\ u \in {Anonymous, headers[s].span}}

Query(r) ==
    /\ phase[r] = "query"
    /\ used' = [used EXCEPT ![r] = QueryStats(headers[r].policy, now[r])]
    /\ phase' = [phase EXCEPT ![r] = "store"]
    /\ UNCHANGED <<clock, headers, start, now, statsCache, storedAt>>

\* The query fails: Evaluate goes on with zeroes, nothing is cached.
QueryFails(r) ==
    /\ phase[r] = "query"
    /\ phase' = [phase EXCEPT ![r] = IF Limit = 0 THEN "blocked" ELSE "upstream"]
    /\ UNCHANGED <<clock, headers, start, now, used, statsCache, storedAt>>

\* statsCache.Store under the key of the minute that was read before the query.
StoreStats(r) ==
    /\ phase[r] = "store"
    /\ statsCache' = [statsCache EXCEPT ![Key(r, now[r])] =
                         [stats |-> used[r], expiresAt |-> now[r] + Minute]]
    /\ Judge(r, used[r])
    /\ UNCHANGED <<clock, headers, start, now, storedAt>>

\* The upstream has answered, collectSpan has dispatched the insert, and some
\* time later it commits...
Store(r) ==
    /\ phase[r] = "upstream"
    /\ phase' = [phase EXCEPT ![r] = "stored"]
    /\ storedAt' = [storedAt EXCEPT ![r] = clock]
    /\ UNCHANGED <<clock, headers, start, now, used, statsCache>>

\* ... or there will be no span: the upstream call failed, its body broke off,
\* or the insert was refused.
Lose(r) ==
    /\ phase[r] = "upstream"
    /\ phase' = [phase EXCEPT ![r] = "lost"]
    /\ UNCHANGED <<clock, headers, start, now, used, statsCache, storedAt>>

Next ==
    \/ Tick
    \/ \E r \in Request :
          \/ Arrive(r) \/ StatsCached(r) \/ StatsMissing(r) \/ Query(r)
          \/ QueryFails(r) \/ StoreStats(r) \/ Store(r) \/ Lose(r)

Spec == Init /\ [][Next]_vars

-----------------------------------------------------------------------------

\* Types of the variables.
TypeOK ==
    /\ clock \in Time
    /\ phase \in [Request -> {"new", "arrived", "query", "store", "upstream",
                              "stored", "lost", "blocked"}]
    /\ headers \in [Request -> Headers \cup {None}]
    /\ start \in [Request -> Time]
    /\ now \in [Request -> Time]
    /\ used \in [Request -> (SUBSET Request) \cup {None}]
    /\ statsCache \in [User \X Bucket -> Entry \cup {None}]
    /\ storedAt \in [Request -> Time \cup {None}]

Judged(r) == used[r] # None /\ phase[r] \notin {"query", "store"}

MinuteStart(t) == Minute * (t \div Minute)

\* A span of the same user that was inserted before the minute of the request
\* began, and that started less than an hour ago, is counted: however the
\* queries and the cache stores of concurrent requests interleave, a spend
\* limit lags by at most the current minute (engine.go:146-173).
NothingMissed ==
    \A r, s \in Request :
        /\ Judged(r)
        /\ storedAt[s] # None /\ storedAt[s] < MinuteStart(now[r])
        /\ start[s] >= now[r] - Hour
        /\ headers[r].policy \in {Anonymous, headers[s].span}
        => s \in used[r]

\* Nothing else is: no span of another user, none that was not stored, none
\* that started more than an hour before the minute of the request.
NothingElseCounted ==
    \A r \in Request : Judged(r) =>
        \A s \in used[r] :
            /\ storedAt[s] # None
            /\ start[s] >= MinuteStart(now[r]) - Hour
            /\ headers[r].policy \in {Anonymous, headers[s].span}

=============================================================================
