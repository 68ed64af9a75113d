# luner in TLA+

A verification project for luner, the LLM gateway of this repository: TLA+
modules translated from the source, TLC configurations that check them on small
instances, and TLAPS proofs for every instance. Paths below are relative to the
repository.

## 1. The system

luner is one Go process between applications and LLM providers. An application
posts a chat completion to `/v1/chat/completions`; the handler finds the
provider of the model in the configuration, takes a token from the provider's
bucket, evaluates the policies, looks in the response cache, calls the upstream
(once more after a failure), passes the answer on and leaves a span behind. An
admin API edits the policies, a console reads the spans, a Python SDK puts
identities into the headers.

| Part | State it keeps | Operations | Talks to |
|---|---|---|---|
| Rate limiter, `internal/limiter` | tokens, last refill, a mutex per provider | `Allow` | called by every request; built from the configuration at start-up |
| Response cache, `internal/cache` | map and recency list of items with a TTL, a mutex | `Get`, `Set` | called before and after the upstream call; an observer keeps the metrics |
| Policy engine, `internal/policy` | compiled programs by policy id, stats by user and minute | `Evaluate`, `Reload` | reads the policies and spans tables |
| Policy admin API, `internal/api/policies.go` | none of its own | list, create, get, update, delete, reload | writes the policies table, then `Reload` |
| Span collector, `internal/trace` | none of its own | `CollectLLMSpan` | inserts asynchronously into the spans table |
| Storage, `internal/storage/sqlite` | SQLite tables, schema version | migrations, CRUD, `QueryStats`, `Query` | a pool of connections |
| Configuration, `internal/config` | an atomic pointer to the current configuration | `Load`, `Validate`, `Get`, `Watch` | the file, through fsnotify |
| Request pipeline, `internal/proxy` | per request only | `ServeHTTP`, retry, SSE pass-through | everything above |
| Trace queries, `internal/api/traces.go`, `dashboard.go` | none | list with pages, tree, timeline, summary, costs | the spans table |
| Counters, `internal/metrics` | counters of the process | count, `Snapshot` | incremented by the pipeline, polled by the console |
| Python SDK, `sdk/python` | the current trace context | `init`, `set_user`, `span`, `traced` | headers of the client's requests |
| Web console, `web/src` | filters, rows, forms and flags of the pages; calls under way | load, page, filter, poll, expand, create, delete | the REST API, each call a connection of its own |
| Process, `cmd/luner` | the wiring | start-up, shutdown | everything |

What is hard to test in them, and what has to hold:

- **Rate limiter.** Handlers queue on a mutex and read the clock under it;
  fractions of a token are carried along. The bucket must admit what burst and
  rate allow in every window, and refuse only what exceeds it.
- **Response cache.** A map, a recency list and a gauge are changed together
  on five paths, while items expire lazily and are evicted. They must agree; a hit must be
  the last write of its key and younger than the TTL; only a key that
  `max_items` others overtook may be lost.
- **Policy engine and its admin API.** `ListActive`, the look-up of a compiled
  program, its compilation and its storing are separate steps of a request;
  commit and `Reload` are separate steps of an admin call; an update reads and
  later writes. A verdict must be that of the policies in the table, a deleted
  policy must stay deleted.
- **Spend stats.** Stats are cached by user and minute and stored by whichever
  request finishes last; spans arrive asynchronously or not at all. A limit may
  lag by the minute at most and must count one user only.
- **Request pipeline and retry.** Two attempts, a sleep and the reading of the
  body share one deadline; bodies break off after the status was written;
  concurrent misses set the same key. Each request must be answered, counted
  once, recorded once, and answers shared through the cache must be whole.
- **Configuration.** Writes to the file overlap its reading; editors rename.
  The configuration in force must become the one in the file.
- **Migrations.** A script is a row of statements without a transaction and its
  version is recorded afterwards; the process may be killed between any two.
  Policies must survive and the gateway must come up.
- **Trace queries and console.** Spans of a trace are stored one by one, some
  late and some never; list, detail and dashboard read them at different
  times. A page asks again with every keystroke, press or tick and cancels
  nothing, so that answers overtake each other, fail by halves, or come when
  the page is gone. What is on the screen must belong to the filters, the path
  and the table; no span or policy may get lost from it or come back; no
  page may wait for ever.
- **SDK, shutdown, connection pool** are in the plan below (section 7).

`PROJECT.json` lists the hazards line by line, with the properties that cover
each and, where none does yet, the reason.

## 2. The modules

| Module | Models | Composition |
|---|---|---|
| `TokenBucket` | `Bucket.Allow` | proved about in `ProcessProofs` |
| `CacheContract` | what a caller of the cache may rely on: an abstract specification | implemented by `LRUCache` |
| `LRUCache` | `LRU.Get`, `LRU.Set`, eviction and expiry, the observer's gauge | extends `CacheContract` and implements it by the identity on its variables; `LRUCacheProofs` |
| `PolicyEngine` | `CELEngine.Evaluate`, `getOrCompile`, `Reload`; the handlers of `policies.go`; the policies table | engine, admin API and table composed; `PolicyEngineProofs` |
| `SpendStats` | `fillStats`, `QueryStats`, the asynchronous insert of spans | engine, pipeline and spans table composed; `SpendStatsProofs` |
| `RequestPipeline` | `ServeHTTP` from entry to answer, `ExecuteWithRetry`, the loop over a stream | every other component appears by what it promises; `RequestPipelineProofs` |
| `ConfigReload` | `Loader.Watch` and the editors of the file | watcher and file system composed; `ProcessProofs` |
| `Migration` | `New`, `migrate`, both scripts, kills and restarts | storage and supervisor composed; `ProcessProofs` |
| `FetchView` | what any page of the console promises about the data it fetches: an abstract specification | implemented by the list, the detail and the page of policies |
| `SpanTable` | the spans table as the console meets it | extended by the three modules below |
| `TraceList` | `TraceList.tsx` with `handleListTraces` | instance of `TracePages` |
| `TraceDetail` | `TraceDetail.tsx`, `SpanTree.tsx`, `SpanNode.tsx` with `handleGetTrace` | instance of `TracePages` |
| `TracePages` | the routes of `App.tsx` between list, detail and other pages | composes the two over one table; `TracePagesProofs` |
| `PoliciesPage` | `Policies.tsx` with the admin API and others who use it | page and table composed; `PoliciesPageProofs` |
| `DashboardPage` | `Dashboard.tsx` with `dashboard.go` and `Snapshot` | page, table and counters composed; `DashboardPageProofs` |

Each `MC...` module gives the constants of one of them values for TLC; each
`.cfg` is a run. `ProcessProofs` is about three components that share no state:
it extends the three, and for that reason `TokenBucket` and `ConfigReload` say
`BucketInit`, `ReloadNext` and so on where other modules say `Init` and `Next`.

In modules with concurrency, a step is one access to shared state: a section
under a mutex, one SQL statement, one system call. What a goroutine does
between two of these is local and part of the step before. Local control is a
variable (`phase`, `handler`, `watcher`) whose values are named after the places
in the code. A browser runs one handler at a time, so that an event handler, with
the render and the effects it causes, is one step, and so is an answer with its
`then`, `catch` and `finally`. Definitions headed "Not the code" are small faults
of the kind the properties are there to catch; nothing in `Next` uses them.

### TokenBucket

`Call` is a handler arriving at `b.mu.Lock()` (token.go:26), `Acquire` takes the
lock and reads the clock (26-29), `Admit` and `Refuse` are the two returns with
the refill before them (30-42). Tokens are counted in `1/Unit` of a token, so
the float of the code is exact in the model: rounding is not modelled. `since`
is history: how many requests were admitted at readings from `t` on.

### CacheContract, LRUCache

`Get` has three branches (hit, expired, missing; lru.go:41-59) and `Set` two
(present, lru.go:66-72; new, possibly evicting, 74-83). Both run under `c.mu`,
so each is one step. The list is a sequence of keys, the map a function with
`None`. The variables of the contract (`written`, `usedSince`, `reply`) are
updated by the operations of the abstract module, which `LRUCache` never reads:
`Contract` says that every step of the cache is a step the contract allows.
`ReadHit` needs the last write, unexpired; `ReadMiss` needs the key not to be
promised, which it is while fewer than `Capacity` other keys were used since.

### PolicyEngine

An expression is what it does to the modelled request: match, not match (or
fail at run time, which `Evaluate` treats alike), or not compile. A program is
the expression it came from. `Begin` is `ListActive` (engine.go:75), `CacheHit`
and `CacheMiss` the look-up under the read lock (124-129) with `Try` the
evaluation and the loop (98-120), `CompileError` a policy skipped, `StoreProgram`
the store under the write lock (140-142). `Create`, `UpdateRead`, `UpdateWrite`,
`UpdateGone`, `Delete` and `ReloadPolicies` are the handlers; a committed change
leaves its call at `reload`, where `Reload` ends it. `taint` is history: it
remembers why a request may be excused (it began with a Reload outstanding, a
commit overlapped it, it met a program an overlapped request had stored).
`Heads` is the first row in the order of `ORDER BY priority ASC, created_at
DESC`; two policies created in the same millisecond with the same priority are
left out, SQLite being free in their order.

### SpendStats

Time in ticks, `Minute` and `Hour` in ticks. `StatsCached`/`StatsMissing` is the
look-up in `statsCache` (engine.go:146-161), `Query` the SQL aggregate,
`QueryFails` its error, `StoreStats` the store under the key (167-173); then the
request is judged, goes upstream, and its span is inserted (`Store`) at any
later time or never (`Lose`: collector.go:103-109 logs and goes on). Sums of
cost and tokens are represented by the set of spans they sum over, so that a
span counted too much and one missing do not cancel out.

### RequestPipeline

One action per exit of `ServeHTTP` before the upstream call (`RejectUnparsed`,
`RejectUnrouted`, `Throttle`, `Block`, `CacheHit`, `BuildFails`), the loop of `ExecuteWithRetry` (`Reach`, `Unreachable`, `Respond`, `Break`, with
`Conclude` deciding on another attempt), and one per way of answering
(`BadGateway`, `PassError`, `PassWhole`, `PassBroken`). A stream is passed on
line by line (`PassLine`, handler.go:281-329) to `EndStream` (`[DONE]` or the
end of the body) or `BreakStream` (a read or a write fails); of a line only
its usage is kept. The bucket
and the engine are nondeterministic, the cache may forget at any time (what
`CacheContract` allows). net/http is external: an attempt may reach the
upstream or not, which includes the second attempt, whose body the first has
read. `counted`, `spans` and `metered` are the records a request leaves;
`calls` is history.

### ConfigReload

`BeginWrite`/`EndWrite` is a write in place, seen half done as `Partial` of
its content; `Replace` renames a new file onto the path. `AddWatch`, `Receive`,
`LoadFile` and `Swap` are the steps of `Watch` (watcher.go:51, 57-63, 64,
65-73). A burst of Write events is one unread event. `Valid` stands for `Load`
and `Validate` accepting.

### Migration

`Script` is the list of the statements of each script, those that do not touch
the policies tables (all `IF NOT EXISTS`) gathered in one. `Check`, `Apply` (one
statement), `ApplyFails`, `Exit`, `Record` are the loop of `migrate`
(sqlite.go:97-119) and main's exit; `Crash` is a kill at any point of the
start, `Stop` an orderly end, `Start` what the supervisor does
(`restart: unless-stopped`, docker-compose.yml:23).

### FetchView, SpanTable

`FetchView` knows of a page only the calls it has made and will hear of, the
one whose answer is on the screen, and whether it says that it is loading. It
does not promise an order of answers, for no page keeps one. `SpanTable` has a
column of the spans table as a function on the spans; `Store` is the insert of
`CollectLLMSpan`, at any time. Start and end are rounded to milliseconds one by
one (span_store.go:63-70); spans that start in the same millisecond are left
out, SQLite being free in their order.

### TraceList, TraceDetail, TracePages

A call is made (`Open`, `SetAgent`, `SetUser`, `Turn`, `Refresh`; `Open`,
`GoTo`), read by the gateway from the table of that moment (`Read`), and heard
of (`Receive`, `Fail`), each at its own time. Leaving a page keeps its calls from
being heard; its state goes, as does everything React unmounts. `Selected`,
`Order`, `Item` and `Answer` are `handleListTraces`: the newest
`10 * PageSize` spans, grouped by trace. A trace turns up with its newest span,
so that `Place`, the number of traces that turn up before it, is its index in
the slice `order` of the code; the order of the rows within a page is left out.
`Roots`, `Children`, `Summary` are `buildSpanTree` and `calculateSummary`,
`Rows` is what the recursion of `SpanNode` renders under the flags in
`collapsed`: the least set with the roots and, with every row that is expanded,
its children; so is `Above`, what a span hangs on, `Kept` which of these React keeps when the data change. `row` is
history: the link that led to the detail. Of the columns of a row its trace, its count and
its status are kept.

### PoliciesPage

Loads, creates and deletes are under way at once. A create or a delete is sent
(`Submit`, `handleDelete`), committed (`Commit`), and heard of (`ReceiveCreated`,
`ReceiveDeleted`) or reported as failed (`FailCreate`, `FailDelete`), also
before the gateway commits it or after it has; `OtherWrites` is another console.
`listed` counts the rows of a policy, for `onCreate` appends without looking.
The order of rows and the fields of a policy are left out, but for `enabled`, which
decides whether `GET /api/policies` lists it. `removed`, `exposed`, `early`,
`failed` and `disturbed` are history that names the races the page does not
guard against, so that the properties can say that there are no others.

### DashboardPage

A refresh is two calls, each read at its own moment (`ReadSummary`, `ReadCost`)
and settled together (`Settle`, `Promise.allSettled`); `Age` is the window of 24
hours moving on. A poll is sent by a timer (`Fire`) whether the one before has
ended or not; `Snapshot` gathers the counters one after the other while they
are counted, so that an answer is any value between those at the sending (`low`)
and those at the reading. `Restart` is a new process with counters at zero. The two
effects of the page share nothing but its mounting; `watched` picks, for each
behaviour, the one whose calls get on.

## 3. What the runs show

| Run | Instance | Shows |
|---|---|---|
| `token_bucket` | 2 handlers, burst 2, half a token per tick, 6 ticks | `Conforms`, `RefusedOnlyOverRate`: the bucket is exactly the rate and the burst, in every interleaving |
| `lru` | 4 keys, 3 places, TTL 2, 3 ticks, 2 values | `WellFormed` (map, list and gauge agree), `Contract` |
| `policy` | 2 requests and 2 admin calls, all overlapping, 2 policies, 2 changes | `TypeOK`, `FreshUnlessRaced`, `QuietVerdictCorrect`, `DeletedStaysDeleted` |
| `spend` | 3 requests, with and without a user, 2 minutes and a third begun | `NothingMissed`, `NothingElseCounted` |
| `pipeline` | 2 requests, 3 bodies, cache on and off | `SharedAnswersWhole`, `AccountedOnce`, `MeteredOnce`, `RetriedOnlyAfterFailure`, `EveryRequestAnswered` |
| `config_reload` | 3 edits, 3 configurations, 1 refused text | `NoReloadOverlooked`, `SavedInPlaceTakesEffect` |
| `migration` | 2 policies, 3 kills, new and old database | `ServesCompleteSchema`, `NoPolicyLost` |
| `trace_pages` | 5 spans of 2 traces (an orphan and a circle among them), 1 stored late; 4 calls of the list, 3 of the detail, 1 row to a page | list: `RowsOfCurrentQuery`, `NothingOutOfReach`; detail: `SettledShowsItsTrace`, `EverySpanHasItsRow`, `ReopenedWhole`, `BarsInTimeline`; between them `DetailBearsRowOut`, `PagesFetch` (both implement `FetchView`), `TypeOK` |
| `policies_page` | 3 policies, 2 loads, 2 forms, 2 changes, 1 change by others | `DeletedStayHidden`, `TwinsOnlyIfLoadedFirst`, `OneSavePerForm`, `MirrorsTable`, `SaveEnds`, `ListFetches` (implements `FetchView`), `TypeOK` |
| `dashboard` | 4 spans, 2 counters, 2 refreshes, 2 polls at a time, 1 restart | `CardsAgreeWithBars`, `BarsInFrame`, `CountsNeverGoBack`, `CatchesUp`, `TypeOK` |

Where a run does not check `TypeOK`, it is proved (section 6). Every property of
a passing run has a mutant in `PROJECT.json`: a plausible bug in the mapped
definition that the run finds.

**Why the bounds are enough.** Two handlers or requests are the smallest number
with the races in question (one acts between two steps of another); a third
appears in `spend` only, where two concurrent queries and an earlier span
are needed. Two policies give an order and a policy behind a broken one. Three
places and four keys let a key be overtaken by exactly `Capacity` others, by
one fewer, and come back. The clocks run long enough for a drained bucket to
overflow again, for an item to expire and be set while expired, and for a
span to leave the window of a cached entry. Two changes let one overlap the
Reload of another. Three kills reach the first script, the second, and the
start after it. The bodies of `pipeline` are one that may be cached (both
requests may make it, and share its key), one with another key, and a stream;
the lines of a stream are not bounded.

On the console two calls under way are what it takes for one to overtake the
other. The list has a third for the change of page or filter between them, and
a fourth because the way to a detail and back costs a call; the detail has one
for each of two traces and one for a return. One row to a page and four
of five spans to a reading make pages and the limit matter. Two loads, two forms and two changes let
a create and a delete overlap each other and a load, and a form follow one
whose save is still under way; the third policy is there so that a form can be saved
twice. Two polls overlap, and the restart falls between them.

Counters (`MaxTime`, `MaxChanges`, `MaxEdits`, `MaxCrashes`, `MaxCalls`,
`MaxLoads`, `MaxForms`, `MaxOthers`, `MaxTicks`, `MaxPolls`, `MaxCount`,
`MaxLives`) are bounds of the
model; the code has none. Requests of `pipeline` are made once, so that "once"
can be stated for them.

`CHECK_DEADLOCK FALSE` stands where the system comes to rest: all requests
answered (`pipeline`), all judged and stored (`spend`), nobody editing any
more (`config_reload`), no call, form or change left within the bounds
(`trace_pages`, `policies_page`, `dashboard`). Symmetry sets are permutations of model values that no
definition tells apart, and no run with symmetry checks liveness.

## 4. Fairness

- `RequestPipeline`: weak fairness of what the handler does itself, of its
  deadline (`context.WithTimeout`, handler.go:177-182), and, once that has
  passed, of a call or a body ending: net/http returns from both. No fairness of
  the upstream, the network or the client.
- `ConfigReload`: weak fairness of the watcher goroutine and of an editor's
  write ending; none of edits being made.
- `Migration`: weak fairness of the process running and being restarted; kills
  are finitely many.
- `TracePages`, `PoliciesPage`, `DashboardPage`: weak fairness of the page
  hearing how a call ended, one way or the other, because the server closes a
  connection after `write_timeout` (main.go:165, 120 seconds by default,
  config.go:108-109), and of the dashboard's timer. None of anything a user
  does, and none of a call being answered rather than failing.

`TokenBucket`, `LRUCache`, `PolicyEngine` and `SpendStats` are checked for
safety only.

## 5. Where the code and what it says of itself differ

Each of these runs checks one sentence of the repository and TLC refutes it:

| Run | Sentence | What the run shows |
|---|---|---|
| `policy_stale` | README.md:317 "Changes take effect on the next request" | A request that read the table before an update stores the old program after its Reload; every later request is judged by it until the next Reload |
| `migration_killed` | sqlite.go:27 `New` runs pending migrations | After a kill inside 002 every start fails |

Others need no model to be seen, and have no run:

- README.md:401 says that `X-Luner-User` populates `user_id`; policies read
  `X-User-Id` (handler.go:129), and without it see the stats of all users.
- README.md:422 has the usage of a stream in the trace; it is in the metrics
  only (handler.go:264).
- README.md:266 says "Edit `config.yaml` and save"; a file saved by rename
  ends the watch (watcher.go:51).
- README.md:280 has policies that are enabled and disabled in the console;
  there is no such button, and a policy that is not enabled is not listed by
  `GET /api/policies`: created so, it is on the page until the next load.
- README.md:300-302 gives the stats of a policy as those of the last minute;
  the window is an hour (engine.go:163).
- README.md:434 says that only requests with `temperature=0` are served from
  the cache; the handler looks at `stream` only (handler.go:144), and
  temperatures that round to the same decimal share a key (lru.go:104).
- README.md:291 says that `downgrade` swaps the model; only `block` has an
  effect (handler.go:135).
- CHANGELOG.md:131 says that limits are hot-reloadable; the buckets are those of
  start-up (main.go:119-125).
- With the cache disabled a non-streaming answer is passed on without
  `parseAndRecordTokens` (handler.go:265-270): its tokens are in its span and
  not in `luner_tokens_used_total`.
- A negative `max_items` passes `Validate` and leaves a cache of one item
  (lru.go:74, 86-91).
- The tab `timeout` of the list never finds anything, for a span is a success
  or an error (collector.go:124-129); all tabs filter the page that is loaded,
  not the table (TraceList.tsx:42-44); a last page that is full leads on to one
  that is empty (TraceList.tsx:183); the totals know the last `10 * page_size`
  spans only (traces.go:47).
- The detail says "error" until the page is left, also when another trace is
  loaded since, and shows the trace before under the identifier of the next
  while that is loading (TraceDetail.tsx:14-22).
- A span in a circle of parents has no row, though it is in the count.
- The answer to a create closes whichever form is open (Policies.tsx:127); a
  save that fails after its form was closed says nothing.
- The dashboard's time range changes nothing it asks for (Dashboard.tsx:82,
  117-129), its figures "all time" are those of the process, and go back when a
  poll outlasts the next or the gateway is restarted; the number beside Traces
  is asked for once.

## 6. What is proved

TLAPS proves for every value of the constants:

**`ProcessProofs`**, the bucket — `BucketTypeCorrect`, `ConformsAlways`,
`RefusalsJustified`, `BucketInvariant`. `Conforms` is not inductive, for it
does not say what is left in the bucket. The invariant adds both halves of the
accounting: for every start `t` of a window, admitted since `t` plus tokens
left is at most the capacity plus what was earned (`Upper`), and for some `t`,
the last time the bucket was full, it is equal (`Lower`). Refilling keeps both
(`RefillAccounts`), because readings of the clock under the mutex never go back
(`Readings`, `Mutex`). `Upper` gives `Conforms`; `Lower` gives the
justification of a refusal. Assumed: the capacity and the rate are natural
numbers of units, at least one unit to a token.

**`ProcessProofs`**, the watcher — `ReloadTypeCorrect`, `NoneOverlooked`. A
file edited back to the configuration in force while a read of what it held in
between is under way satisfies `NoReloadOverlooked`, and the watcher is about
to break it. `Overtaken` says what saves it: the edit that made what was read
out of date has left an event, which is read only after `Swap`. Assumed: some
content is valid, and what is seen of a half-written content is a content.

**`ProcessProofs`**, the migrations — `MigrationTypeCorrect`, `CompleteSchema`,
`NoneLost`. The invariant says what the tables hold at each statement of the
script under way (`At`, `Running`), what any earlier start may have left
behind, wherever it was killed (`Tables`), and that a recorded version has run
in full (`Versioned`). Assumed: the number of kills is natural.

**`PolicyEngineProofs`** — `TypeCorrect`, `FreshAlways`, `QuietVerdicts`,
`DeletedStay`. `FreshUnlessRaced` needs to know what a request holds in its
hands when it stores a program: as long as nothing was committed since it read
the table, the rows it has yet to try are rows of the table (`Held`), and the
one whose expression is on its way into the cache compiles (`Compiles`). A
commit breaks `Held` for every request in flight, taints them all and leaves
its own Reload outstanding; the Reload empties the cache. `QuietVerdicts` adds
what an untainted request knows (`Quiet`): no Reload is outstanding, the rows
it has yet to try are active ones of the table, and the active ones it has
passed over do not match. Then the row at the head, judged by a fresh program,
is the first that matches (`HeadIsFirst`), because the order of rows is strict
(`OneHead`). `DeletedStay` rests on rows lying under their own ids, all of them
inserted once (`Keyed`). Assumed: finitely many ids, integer priorities, an
initial table whose rows lie under their ids, and expressions that match being
among those that compile.

**`LRUCacheProofs`** — `TypeCorrect`, `Agreement`, `Implements`. `WellFormed`
is inductive beside the types. The contract is not: a miss is allowed when
`Capacity` other keys were used since, and nothing in the cache counts them.
The invariant reads it off the list: the keys before a key have all been used
since it was (`Ordered`), so that the last one is overtaken by all the others
and the one that evicts it, and what is missing and not expired was
(`Overtaken`). The lemmas in front say what removing and prepending do to a
list without duplicates. Assumed: finitely many keys, an integer capacity, a
natural TTL, `None` no item, value or reply.

**`SpendStatsProofs`** — `TypeCorrect`, `NoneMissed`, `NoneElse`. A verdict may
rest on what another request queried. The invariant says of stats on their way,
in a request that has queried (`QueriedOf`) and in the cache (`Kept`), what the
properties say of stats that are used. It outlives the spans stored in between
(`Carry`), for these are stored now and now is not before the minute of the
key, and it outlives the passing from one request to another because the key
holds the minute of the query. Assumed: a minute is at least a tick long, an
hour is natural, and nobody is among the users.

**`RequestPipelineProofs`** — `TypeCorrect`, `SharedWhole`, `Accounted`,
`Once`, `Retried`. The invariant says, for each place a request may be at,
which records it has left by then and which calls it has made (`Shape`), and
whose a body in the cache (`CacheWhole`) or given to a client (`Given`) is. The
latter outlives the step that put it there because a request whose body is
shared has been routed and keeps its payload. Assumed: `CacheKey` maps payloads
to keys, and `None` is no body.

**`PoliciesPageProofs`** — `TypeCorrect`, `DeletedStay`, `OneRowEach`,
`OneSave`, `Mirrors`, `Refinement`. A list is what the calls under way make of
it, so the invariant follows a policy through them: before it is committed
nothing knows of it (`Unwritten`, `FreshIds`); its create is one call, under
way or answered (`Pending`); once it is heard of as deleted nothing under way
names it (`Gone`); and while nothing overlaps, each call is the whole
difference between list and table (`Mirror`). `Refinement` is the safety part
of `FetchView`: initial states map to initial states and each step to a step of
the view or a stutter. Assumed: the bounds are natural numbers and the initial
table is one.

**`TracePagesProofs`** — `TypeCorrect`, `CurrentRows`, `AllInReach`,
`ShowsItsTrace`, `NoSpanLost`, `BarsFit`, `RowsBorneOut`, `OpenedAgain`,
`Refinement`, `Invariant`. What a page shows was decided when its call was sent
and when it was read. The invariant says of each call under way what it asks
for and what its answer holds, and when the last call and the screen agree
(`ListLast`, `DetailLast`). An answer of the list is a page of so many traces
(`Paged`) whose rows say nothing that the table does not bear out (`Sound`);
`Sound` outlives what is stored later, and passes to the answer of the detail
and to its spans (`RowBorneOut`): hence `RowsBorneOut`. `AllInReach` needs that
a page that is not the last is full: the places of the traces are a bijection
onto `0..n - 1`. `NoSpanLost` and `OpenedAgain` are about trees in which
parents form any relation, circles included: each span hangs on a root or on a
circle, and what a span hangs on is a chain. `BarsFit` is arithmetic of rounded
differences. `Refinement` is the safety part of `FetchView` for both pages at
once. Assumed: `SpanAssumption` (in it that no two spans start in the same
millisecond), a page of at least one row, a limit of at least one span, and an
empty filter that is no name.

**`DashboardPageProofs`** — `TypeCorrect`, `CardsAgree`, `Framed`, `NeverBack`,
`Invariant`. The two effects of the page have an invariant each. While a
refresh is under way alone, nothing is shown, and what its calls have brought
is the table as it is, unless it was stirred (`OneMoment`): both calls then
bring the same. That cards and bars of the same spans agree is a fact about
sums: the lemmas in front show that the recursive sum over a finite set does
not depend on the order in which its members are taken (`SumOut`), that sums
add over disjoint sets (`SumUnion`) and by group (`SumByAgent`), and that the
parts of a whole, rounded down one by one, make it up to less than one
thousandth each (`PartsOfWhole`). For the counters, nothing that anybody knows
of the present life is beyond what has been counted (`Counted`), and a poll
under way alone was sent after the answer on the page and will bring no less
(`InTurn`). Assumed: finitely many spans and counters, natural costs, a
positive least length of the axis, and `None` no reading of the counters.

Sums, trees and places are data of any finite size. What is true of all of them
is proved without an induction theorem, by a smallest counterexample: in every
family of subsets of a finite set one is smallest (`SmallestSubset`, from
`WFMin`).

Only model-checked: liveness, which is out of the prover's reach
(`EveryRequestAnswered`, `SavedInPlaceTakesEffect`, `SaveEnds`, `CatchesUp`,
and the fair part of `FetchView` in `PagesFetch` and `ListFetches`). Every
safety property that a passing run checks is proved.

## 7. Not modelled, and the plan

Abstracted throughout: CEL, JSON and YAML parsing, formatting, logging, the
text of metrics, HTTP framing, floating-point rounding. Left out: the tenant
and API key stores (no caller), PostgreSQL and ClickHouse (empty packages),
OpenTelemetry set-up, static assets, demonstrations.

Of the parts that are modelled: the export of a trace, the costs in the list of
traces, the settings page of the console, `CreateBatch` and `DeleteOlderThan`
of the span store (no caller), `parseAndRecordTokens` beyond whether it counts.

The order of the modules was: the bucket, the cache and its contract, the
policy engine (the core: it decides what passes), the spend stats it judges by,
migrations, configuration, the pipeline around them, and then the console's
pages, whose calls run concurrently with all of it. What may follow, in order:

1. `SpanIdentity` and `SdkContext`: identifiers from the SDK's context variable
   through the headers to the primary key of a span; collisions and lost spans.
   So far `Lose` in `SpendStats` lets any insert be lost.
2. `Lifecycle`: the order of shutdown (main.go:183-194) against requests and
   inserts in flight.
3. `ConnPool`: pragmas that are set on one pooled connection, foreign keys, with
   the tenant and API key stores that would use them.
