------------------------------ MODULE TraceList ------------------------------
(***************************************************************************)
(* The page of traces (web/src/pages/TraceList.tsx) against the gateway's  *)
(* GET /api/traces (internal/api/traces.go).                               *)
(*                                                                         *)
(* A browser runs one handler at a time: an event handler, with the        *)
(* render and the effects it causes, is one step, and so is an answer with *)
(* its then, catch and finally.  Between two steps the gateway reads its   *)
(* table for any call, spans are stored, and answers overtake each other:  *)
(* every call is a connection of its own.                                  *)
(*                                                                         *)
(* A row of the table is its trace, its spans and its status; the other    *)
(* columns, the order of the rows of a page and the layout are left out.   *)
(* A filter is Untyped or a name.                                          *)
(***************************************************************************)
EXTENDS SpanTable

CONSTANTS
    Untyped,    \* an empty filter
    PageSize,   \* rows to a page: 20
    SpanLimit,  \* spans the gateway reads for a page: 10 * PageSize
    MaxCalls    \* bound: calls to GET /api/traces

VARIABLES
    mounted,      \* the page is open
    traces, total, page, agentFilter, userFilter, status, loading, error,
    made,         \* calls made so far, the last one's number
    asked,        \* the calls of this visit that are under way
    query,        \* what each call asks for
    answer,       \* what the gateway read for it, None before that
    shown,        \* history: the call whose answer traces is, 0 for none
    shownQuery,   \* history: what it asked for
    overtaken     \* history: an answer passed that of an earlier call

form  == <<page, agentFilter, userFilter, status>>
rows  == <<traces, total, shown, shownQuery>>
calls == <<made, asked, query, answer, overtaken>>
page_ == <<mounted, form, rows, loading, error, calls>>
vars  == <<stored, page_>>

Row    == [trace : Trace, span_count : Nat, status : {"success", "error"}]
Query  == [page : 1..MaxCalls, agent : Agent \cup {Untyped}, user : User \cup {Untyped}]
Filter == {"all", "success", "error", "timeout"}

-----------------------------------------------------------------------------
(* The gateway: handleListTraces. *)

Matches(q, s) ==
    /\ q.agent \in {Untyped, AgentOf[s]}
    /\ q.user \in {Untyped, UserOf[s]}

\* The newest SpanLimit spans the filters let through.
Selected(q) ==
    LET found == {s \in stored : Matches(q, s)}
    IN  {s \in found : Cardinality({t \in found : Start(t) > Start(s)}) < SpanLimit}

Of(spans, t) == {s \in spans : TraceOf[s] = t}

\* A trace turns up with its newest span; Place counts those before it.
Order(spans) == {TraceOf[s] : s \in spans}

Sooner(spans, t, u) == \E s \in Of(spans, t) : \A r \in Of(spans, u) : Start(s) > Start(r)

Place(spans, u) == Cardinality({t \in Order(spans) : Sooner(spans, t, u)})

\* Not the code: every span read is counted for every trace.
ItemOfAll(spans, t) ==
    [trace |-> t, span_count |-> Cardinality(spans), status |-> "success"]

Item(spans, t) ==
    [trace      |-> t,
     span_count |-> Cardinality(Of(spans, t)),
     status     |-> IF \E s \in Of(spans, t) : StatusOf[s] = "error"
                    THEN "error" ELSE "success"]

Answer(q) ==
    LET spans == Selected(q)
        start == (q.page - 1) * PageSize
        page_items == {t \in Order(spans) :
                          Place(spans, t) \in start..(start + PageSize - 1)}
    IN  [traces |-> {Item(spans, t) : t \in page_items},
         total  |-> Cardinality(Order(spans))]

-----------------------------------------------------------------------------
(* What the page shows. *)

visible    == {r \in traces : status \in {"all", r.status}}
totalPages == IF total = 0 THEN 1 ELSE (total + PageSize - 1) \div PageSize

PrevEnabled == ~loading /\ page > 1
\* Not the code: a full page is taken for the last one.
NextAfterMore == ~loading /\ Cardinality(traces) > PageSize

NextEnabled == ~loading /\ Cardinality(traces) >= PageSize

-----------------------------------------------------------------------------
(* The page. *)

Init ==
    /\ mounted = FALSE
    /\ traces = {} /\ total = 0 /\ shown = 0 /\ shownQuery = None
    /\ page = 1 /\ agentFilter = Untyped /\ userFilter = Untyped /\ status = "all"
    /\ loading = FALSE /\ error = FALSE
    /\ made = 0 /\ asked = {} /\ overtaken = FALSE
    /\ query = [n \in 1..MaxCalls |-> None]
    /\ answer = [n \in 1..MaxCalls |-> None]

\* load, as the effect calls it after a render with these values.
load(p, a, u) ==
    /\ made < MaxCalls
    /\ made' = made + 1
    /\ asked' = asked \cup {made'}
    /\ query' = [query EXCEPT ![made'] = [page |-> p, agent |-> a, user |-> u]]
    /\ loading' = TRUE
    /\ error' = FALSE
    /\ overtaken' = (overtaken /\ asked # {})
    /\ UNCHANGED answer

Open ==
    /\ ~mounted
    /\ mounted' = TRUE
    /\ load(1, Untyped, Untyped)
    /\ UNCHANGED <<stored, form, rows>>

SetAgent(v) ==
    /\ mounted /\ v # agentFilter
    /\ agentFilter' = v
    /\ page' = 1
    /\ load(1, v, userFilter)
    /\ UNCHANGED <<stored, mounted, userFilter, status, rows>>

\* Not the code: the effect does not depend on the user filter.
SetUserUnheard(v) ==
    /\ mounted /\ v # userFilter
    /\ userFilter' = v
    /\ page' = 1
    /\ UNCHANGED <<stored, mounted, agentFilter, status, rows, loading, error, calls>>

SetUser(v) ==
    /\ mounted /\ v # userFilter
    /\ userFilter' = v
    /\ page' = 1
    /\ load(1, agentFilter, v)
    /\ UNCHANGED <<stored, mounted, agentFilter, status, rows>>

SetStatus(s) ==
    /\ mounted /\ s # status
    /\ status' = s
    /\ UNCHANGED <<stored, mounted, page, agentFilter, userFilter, rows, loading, error, calls>>

Turn(p) ==
    /\ page' = p
    /\ load(p, agentFilter, userFilter)
    /\ UNCHANGED <<stored, mounted, agentFilter, userFilter, status, rows>>

Prev == mounted /\ PrevEnabled /\ Turn(page - 1)
Next_ == mounted /\ NextEnabled /\ Turn(page + 1)

Refresh ==
    /\ mounted
    /\ load(page, agentFilter, userFilter)
    /\ UNCHANGED <<stored, mounted, form, rows>>

\* The gateway reads the spans for a call.
Read(n) ==
    /\ n \in asked /\ answer[n] = None
    /\ answer' = [answer EXCEPT ![n] = Answer(query[n])]
    /\ UNCHANGED <<stored, mounted, form, rows, loading, error, made, asked, query, overtaken>>

\* The call is over: what it asked and what came of it are forgotten.
Over(n) ==
    /\ asked' = asked \ {n}
    /\ query' = [query EXCEPT ![n] = None]
    /\ answer' = [answer EXCEPT ![n] = None]
    /\ overtaken' = (overtaken \/ \E m \in asked : m < n)
    /\ loading' = FALSE
    /\ UNCHANGED <<stored, mounted, form, made>>

Receive(n) ==
    /\ n \in asked /\ answer[n] # None
    /\ traces' = answer[n].traces
    /\ total' = answer[n].total
    /\ shown' = n
    /\ shownQuery' = query[n]
    /\ Over(n)
    /\ UNCHANGED error

\* A status that is not ok, or a connection that breaks.
Fail(n) ==
    /\ n \in asked
    /\ error' = TRUE
    /\ Over(n)
    /\ UNCHANGED rows

\* Unmounted, the component is gone; calls under way are not heard any more.
Leave ==
    /\ mounted
    /\ mounted' = FALSE
    /\ traces' = {} /\ total' = 0 /\ shown' = 0 /\ shownQuery' = None
    /\ page' = 1 /\ agentFilter' = Untyped /\ userFilter' = Untyped /\ status' = "all"
    /\ loading' = FALSE /\ error' = FALSE
    /\ asked' = {} /\ overtaken' = FALSE
    /\ query' = [n \in 1..MaxCalls |-> None]
    /\ answer' = [n \in 1..MaxCalls |-> None]
    /\ UNCHANGED <<stored, made>>

Type ==
    \/ \E v \in Agent \cup {Untyped} : SetAgent(v)
    \/ \E v \in User \cup {Untyped} : SetUser(v)

\* Everything that happens while the page stays open.
Step ==
    \/ Type
    \/ \E s \in Filter : SetStatus(s)
    \/ Prev \/ Next_ \/ Refresh
    \/ \E n \in 1..MaxCalls : Read(n) \/ Receive(n) \/ Fail(n)

-----------------------------------------------------------------------------
(* Properties. *)

Settled == mounted /\ asked = {} /\ ~error

\* Once every call is over, the table is the answer to a call that asked for
\* the very page and filters on the screen, unless an answer overtook an
\* earlier one or the last call failed: no change of page or filter is left
\* without a call of its own, and none keeps an older table.
RowsOfCurrentQuery ==
    Settled /\ ~overtaken
        => shownQuery = [page |-> page, agent |-> agentFilter, user |-> userFilter]

\* Next looks at the number of rows, not at the total: nevertheless it leads
\* on whenever a later page has traces, so that none is out of reach.
NothingOutOfReach ==
    Settled /\ ~overtaken /\ page < totalPages => NextEnabled

=============================================================================
