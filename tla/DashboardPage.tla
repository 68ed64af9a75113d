---------------------------- MODULE DashboardPage ----------------------------
(***************************************************************************)
(* The console's dashboard (web/src/pages/Dashboard.tsx): cards and bars   *)
(* about the spans of the last day, fetched by two calls whenever Refresh  *)
(* is pressed (internal/api/dashboard.go), and counters of the gateway's   *)
(* process, polled by a timer (internal/metrics/snapshot.go).              *)
(*                                                                         *)
(* An answer to a call about spans is the set of the spans it is about.    *)
(* Counters are gathered one by one while a poll is under way, so that     *)
(* each is what it was at some moment between.  A restart of the gateway   *)
(* begins a new life: its counters start from zero, its table is kept.     *)
(* The two effects share nothing but the page they are mounted with; while *)
(* the calls of one are watched, those of the other stay under way.        *)
(* The time range, which no call uses, and the charts, whose data are      *)
(* part of the program, are left out.                                      *)
(***************************************************************************)
EXTENDS SpanTable, Sequences, FiniteSetsExt, SequencesExt

CONSTANTS
    CostOf,     \* the cost of a span
    LeastCost,  \* the least length of the axis of costs: 0.001 dollars
    NoAgent,    \* a span without agent_name
    DayLimit,   \* spans the gateway reads: 10000
    Counter,    \* the counters of the process
    Status,     \* those of requests, by status
    Lost,       \* what a call that failed brings
    InitStored, \* spans that are in the table at first
    MaxTicks, MaxPolls, MaxCount, MaxLives   \* bounds; MaxPolls at a time

ASSUME DashboardAssumption ==
    /\ CostOf \in [Span -> Nat] /\ LeastCost \in Nat \ {0}
    /\ NoAgent \in Agent /\ DayLimit \in Nat
    /\ Status \subseteq Counter /\ IsFiniteSet(Counter)
    /\ None \notin [Counter -> Nat]
    /\ InitStored \subseteq Span
    /\ MaxTicks \in Nat /\ MaxPolls \in Nat /\ MaxCount \in Nat /\ MaxLives \in Nat

VARIABLES
    \* the gateway
    since,      \* the beginning of the last 24 hours
    count,      \* the counters
    life,       \* the number of restarts
    \* the page
    mounted, tick, summary, breakdown, live,
    timers,     \* intervals the browser keeps
    \* the calls
    asked,      \* refreshes under way, by tick
    sumAnswer, costAnswer,   \* their two calls, None until they end
    polls,      \* polls under way, in the order they were sent
    \* history
    overlapped, \* a refresh began before another had settled
    stirred,    \* spans came or went while a refresh was under way
    slow,       \* a poll was sent before another had ended
    liveLife,   \* the life live is about
    watched     \* bound: the effect whose calls get on in this behaviour

cards   == <<tick, summary, breakdown, asked, sumAnswer, costAnswer, overlapped, stirred>>
meters  == <<live, timers, polls, slow, liveLife>>
vars    == <<stored, since, count, life, mounted, cards, meters, watched>>

Zero == [c \in Counter |-> 0]

Init ==
    /\ stored = InitStored /\ since = 0
    /\ count = Zero /\ life = 0
    /\ mounted = FALSE /\ tick = 0
    /\ summary = None /\ breakdown = None /\ live = None
    /\ timers = 0 /\ asked = {} /\ polls = <<>>
    /\ sumAnswer = [n \in 1..MaxTicks |-> None]
    /\ costAnswer = [n \in 1..MaxTicks |-> None]
    /\ overlapped = FALSE /\ stirred = FALSE /\ slow = FALSE
    /\ liveLife = 0
    /\ watched \in {"cards", "meters"}

-----------------------------------------------------------------------------
(* The gateway: handleDashboardSummary, handleCostBreakdown. *)

\* The newest DayLimit spans of the last 24 hours.
Day ==
    LET recent == {s \in stored : Start(s) >= since}
    IN  {s \in recent : Cardinality({t \in recent : Start(t) > Start(s)}) < DayLimit}

CostSum(D) == SumFunctionOnSet(CostOf, D)

DashboardSummary(D) ==
    [total_traces |-> Cardinality({TraceOf[s] : s \in D}),
     total_spans  |-> Cardinality(D),
     total_cost   |-> CostSum(D),
     errors       |-> Cardinality({s \in D : StatusOf[s] = "error"})]

CostItem(D, a) ==
    LET mine == {s \in D : AgentOf[s] = a}
    IN  [name |-> a, cost |-> CostSum(mine), count |-> Cardinality(mine)]

by_agent(D) == {CostItem(D, a) : a \in {AgentOf[s] : s \in D} \ {NoAgent}}

-----------------------------------------------------------------------------
(* What the page shows; lengths in thousandths. *)

StatCards(D) ==
    [TRACES      |-> DashboardSummary(D).total_traces,
     SPANS       |-> DashboardSummary(D).total_spans,
     TOTAL_COST  |-> DashboardSummary(D).total_cost,
     AVG_LATENCY |-> IF D = {} THEN 0
                     ELSE SumFunctionOnSet([s \in D |-> Duration(s)], D) \div Cardinality(D),
     ERROR_RATE  |-> IF D = {} THEN 0
                     ELSE (DashboardSummary(D).errors * 1000) \div Cardinality(D)]

\* LiveStat, TokensByType.
LiveStat(c) == IF live = None THEN None ELSE live[c]

\* CostByAgent.
AgentBar(items, i) ==
    (i.cost * 1000) \div Max({j.cost : j \in items} \cup {LeastCost})

\* Not the code: the bars are measured against one of them.
totalOfOne == live[CHOOSE c \in Status : TRUE]

\* RequestsByStatus: nothing is drawn while the total is zero.
total == SumFunctionOnSet(live, Status)
StatusBar(c) == (live[c] * 1000) \div total

-----------------------------------------------------------------------------
(* Cards and bars. *)

\* The effect of tick.
Fetch ==
    /\ tick < MaxTicks
    /\ tick' = tick + 1
    /\ asked' = asked \cup {tick'}
    /\ summary' = None /\ breakdown' = None
    /\ overlapped' = (asked # {} \/ (overlapped /\ mounted))
    /\ stirred' = FALSE
    /\ UNCHANGED <<sumAnswer, costAnswer>>

\* Not the code: what there was stays until the answers come.
RefreshKeeping ==
    /\ mounted
    /\ tick < MaxTicks
    /\ tick' = tick + 1
    /\ asked' = asked \cup {tick'}
    /\ overlapped' = (asked # {} \/ overlapped)
    /\ stirred' = FALSE
    /\ UNCHANGED <<stored, since, count, life, mounted, summary, breakdown,
                   sumAnswer, costAnswer, meters>>

Refresh ==
    /\ mounted
    /\ Fetch
    /\ UNCHANGED <<stored, since, count, life, mounted, meters>>

\* Either call is answered from the table as it is at that moment, or lost.
ReadSummary(n) ==
    /\ n \in asked /\ sumAnswer[n] = None
    /\ sumAnswer' \in {[sumAnswer EXCEPT ![n] = x] : x \in {Day, Lost}}
    /\ UNCHANGED <<stored, since, count, life, mounted, tick, summary, breakdown,
                   asked, costAnswer, overlapped, stirred, meters>>

ReadCost(n) ==
    /\ n \in asked /\ costAnswer[n] = None
    /\ costAnswer' \in {[costAnswer EXCEPT ![n] = x] : x \in {Day, Lost}}
    /\ UNCHANGED <<stored, since, count, life, mounted, tick, summary, breakdown,
                   asked, sumAnswer, overlapped, stirred, meters>>

\* allSettled: both at once, those that were answered.
Settle(n) ==
    /\ n \in asked /\ sumAnswer[n] # None /\ costAnswer[n] # None
    /\ asked' = asked \ {n}
    /\ summary' = IF sumAnswer[n] = Lost THEN summary ELSE sumAnswer[n]
    /\ breakdown' = IF costAnswer[n] = Lost THEN breakdown ELSE costAnswer[n]
    /\ sumAnswer' = [sumAnswer EXCEPT ![n] = None]
    /\ costAnswer' = [costAnswer EXCEPT ![n] = None]
    /\ UNCHANGED <<stored, since, count, life, mounted, tick, overlapped, stirred, meters>>

-----------------------------------------------------------------------------
(* Counters. *)

Poll == [low |-> count, life |-> life, answer |-> None]

\* The timer goes off, whether the poll before has ended or not.
Fire ==
    /\ timers > 0
    /\ Len(polls) < MaxPolls
    /\ polls' = Append(polls, Poll)
    /\ slow' = (polls # <<>>)
    /\ UNCHANGED <<stored, since, count, life, mounted, cards, live, timers, liveLife>>

\* Snapshot, in the life in which the poll was sent.
ReadPoll(i) ==
    /\ i \in DOMAIN polls
    /\ polls[i].answer = None /\ polls[i].life = life
    /\ \E a \in [Counter -> 0..MaxCount] :
        /\ \A c \in Counter : a[c] \in polls[i].low[c]..count[c]
        /\ polls' = [polls EXCEPT ![i].answer = a, ![i].low = Zero]
    /\ UNCHANGED <<stored, since, count, life, mounted, cards, live, timers, slow, liveLife>>

\* Not the code: the page shows what was counted since the answer before.
HearDifference(i) ==
    /\ i \in DOMAIN polls /\ polls[i].answer # None
    /\ live' = [c \in Counter |-> polls[i].answer[c] - (IF live = None THEN 0 ELSE live[c])]
    /\ liveLife' = polls[i].life
    /\ polls' = RemoveAt(polls, i)
    /\ UNCHANGED <<stored, since, count, life, mounted, cards, timers, slow>>

Hear(i) ==
    /\ i \in DOMAIN polls /\ polls[i].answer # None
    /\ live' = polls[i].answer
    /\ liveLife' = polls[i].life
    /\ polls' = RemoveAt(polls, i)
    /\ UNCHANGED <<stored, since, count, life, mounted, cards, timers, slow>>

\* Not the code: a failure ends the polling.
FailPollStops(i) ==
    /\ i \in DOMAIN polls
    /\ polls' = RemoveAt(polls, i)
    /\ timers' = 0
    /\ UNCHANGED <<stored, since, count, life, mounted, cards, live, slow, liveLife>>

\* Nothing is said of a poll that failed.
FailPoll(i) ==
    /\ i \in DOMAIN polls
    /\ polls' = RemoveAt(polls, i)
    /\ UNCHANGED <<stored, since, count, life, mounted, cards, live, timers, slow, liveLife>>

-----------------------------------------------------------------------------

Open ==
    /\ ~mounted /\ mounted' = TRUE
    /\ Fetch
    /\ timers' = timers + 1
    /\ polls' = <<Poll>>
    /\ slow' = FALSE
    /\ UNCHANGED <<stored, since, count, life, live, liveLife>>

\* Not the code: the timer is not cleared.
LeaveTicking ==
    /\ mounted /\ mounted' = FALSE
    /\ summary' = None /\ breakdown' = None /\ live' = None
    /\ asked' = {} /\ polls' = <<>>
    /\ sumAnswer' = [n \in 1..MaxTicks |-> None]
    /\ costAnswer' = [n \in 1..MaxTicks |-> None]
    /\ overlapped' = FALSE /\ stirred' = FALSE /\ slow' = FALSE
    /\ liveLife' = 0
    /\ UNCHANGED <<stored, since, count, life, tick, timers>>

\* The effects' clean-up: the timer is cleared; answers are not heard.
Leave ==
    /\ mounted /\ mounted' = FALSE
    /\ summary' = None /\ breakdown' = None /\ live' = None
    /\ asked' = {} /\ polls' = <<>>
    /\ sumAnswer' = [n \in 1..MaxTicks |-> None]
    /\ costAnswer' = [n \in 1..MaxTicks |-> None]
    /\ timers' = timers - 1
    /\ overlapped' = FALSE /\ stirred' = FALSE /\ slow' = FALSE
    /\ liveLife' = 0
    /\ UNCHANGED <<stored, since, count, life, tick>>

-----------------------------------------------------------------------------
(* What goes on around the page. *)

\* A span is stored.
Insert(s) ==
    /\ Store(s)
    /\ stirred' = (asked # {} \/ stirred)
    /\ UNCHANGED <<since, count, life, mounted, tick, summary, breakdown, asked,
                   sumAnswer, costAnswer, overlapped, meters>>

\* The oldest span of the last day becomes older than a day.
Age ==
    /\ \E s \in stored : Start(s) >= since
    /\ since' = 1 + Min({Start(s) : s \in {x \in stored : Start(x) >= since}})
    /\ stirred' = (asked # {} \/ stirred)
    /\ UNCHANGED <<stored, count, life, mounted, tick, summary, breakdown, asked,
                   sumAnswer, costAnswer, overlapped, meters>>

Count(c) ==
    /\ count[c] < MaxCount
    /\ count' = [count EXCEPT ![c] = @ + 1]
    /\ UNCHANGED <<stored, since, life, mounted, cards, meters>>

Restart ==
    /\ life < MaxLives
    /\ life' = life + 1
    /\ count' = Zero
    /\ UNCHANGED <<stored, since, mounted, cards, meters>>

PollEnds == \E i \in 1..MaxPolls : Hear(i) \/ FailPoll(i)

CardsStep ==
    \/ Refresh \/ Age
    \/ \E n \in 1..MaxTicks : ReadSummary(n) \/ ReadCost(n) \/ Settle(n)
    \/ \E s \in Span : Insert(s)

MetersStep ==
    \/ Fire \/ PollEnds \/ Restart
    \/ \E i \in 1..MaxPolls : ReadPoll(i)
    \/ \E c \in Counter : Count(c)

Next ==
    /\ \/ Open \/ Leave
       \/ watched = "cards" /\ CardsStep
       \/ watched = "meters" /\ MetersStep
    /\ UNCHANGED watched

\* A timer goes on ticking; the gateway closes a connection after
\* write_timeout.
Fairness ==
    /\ WF_vars(watched = "meters" /\ Fire /\ UNCHANGED watched)
    /\ WF_vars(watched = "meters" /\ PollEnds /\ UNCHANGED watched)

Spec == Init /\ [][Next]_vars /\ Fairness

-----------------------------------------------------------------------------
(* Properties. *)

TypeOK ==
    /\ stored \subseteq Span
    /\ count \in [Counter -> 0..MaxCount] /\ life \in 0..MaxLives
    /\ asked \subseteq 1..tick
    /\ \A n \in asked : mounted
    /\ \A i \in DOMAIN polls : polls[i].low \in [Counter -> 0..MaxCount]
    /\ live # None => mounted /\ live \in [Counter -> 0..MaxCount]
    /\ timers = IF mounted THEN 1 ELSE 0

\* Cards and bars that are there are about the spans of one moment after the
\* last Refresh, unless a refresh was pressed before another had settled or
\* spans came or went between its two calls; then they agree: what the
\* agents cost and the spans they ran are the card's totals, less the spans
\* that name no agent.
CardsAgreeWithBars ==
    summary # None /\ breakdown # None /\ ~overlapped /\ ~stirred
        => LET items == by_agent(breakdown)
               bare  == {s \in summary : AgentOf[s] = NoAgent}
               all   == StatCards(summary)
               costs == SumFunctionOnSet([i \in items |-> i.cost], items)
               runs  == SumFunctionOnSet([i \in items |-> i.count], items)
           IN  /\ asked = {}
               /\ all.TOTAL_COST = costs + CostSum(bare)
               /\ all.SPANS = runs + Cardinality(bare)

\* What is drawn has something to divide by and stays inside its frame.
BarsInFrame ==
    /\ summary # None => StatCards(summary).ERROR_RATE \in 0..1000
    /\ breakdown # None =>
           \A i \in by_agent(breakdown) : AgentBar(by_agent(breakdown), i) \in 0..1000
    /\ live # None /\ total > 0 =>
           SumFunctionOnSet([c \in Status |-> StatusBar(c)], Status)
               \in (1001 - Cardinality(Status))..1000

\* The figures "of all time" do not go back while one looks at them, but for
\* a restart of the gateway or a poll that outlasted the period of the timer.
CountsNeverGoBack ==
    [][live # None /\ live' # None /\ liveLife' = liveLife /\ ~slow
          => \A c \in Counter : live'[c] >= live[c]]_vars

\* Once the gateway is quiet, a page that stays open, and whose polls come
\* to be answered, shows its counters: no failure ends the polling.
CatchesUp ==
    watched = "meters" /\ <>[]mounted /\ <>[][\A i \in 1..MaxPolls : ~FailPoll(i)]_vars
        => <>[](\A c \in Counter : LiveStat(c) = count[c])

=============================================================================
