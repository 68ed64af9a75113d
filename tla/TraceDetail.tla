----------------------------- MODULE TraceDetail -----------------------------
(***************************************************************************)
(* The page of one trace (web/src/pages/TraceDetail.tsx) with its tree of  *)
(* spans (web/src/components/SpanTree.tsx, SpanNode.tsx), against the      *)
(* gateway's GET /api/traces/{trace_id} (internal/api/traces.go).          *)
(*                                                                         *)
(* The component stays mounted when only the trace in the path changes, as *)
(* it does when one goes back to another detail in the browser's history.  *)
(* A node of the tree keeps its own expanded flag, and loses it when it is *)
(* unmounted; collapsed is the set of the nodes that are mounted and not   *)
(* expanded.  Steps are those of TraceList.                                *)
(***************************************************************************)
EXTENDS SpanTable

CONSTANT MaxCalls   \* bound: calls to GET /api/traces/{trace_id}

VARIABLES
    traceId,      \* the trace in the path, None while the page is closed
    data,         \* the spans of the last answer, {} for null
    loading, error, collapsed,
    made, asked,  \* calls made; calls of this visit under way
    query,        \* the trace each call asks for
    answer,       \* the spans the gateway found, None before it looked
    shown,        \* history: the call whose answer data is, 0 for none
    overtaken     \* history: an answer passed that of an earlier call

calls   == <<made, asked, query, answer, overtaken>>
content == <<data, collapsed, shown>>
page    == <<traceId, content, loading, error, calls>>
vars    == <<stored, page>>

SetMax(S) == CHOOSE x \in S : \A y \in S : y <= x
SetMin(S) == CHOOSE x \in S : \A y \in S : x <= y

-----------------------------------------------------------------------------
(* The gateway: buildSpanTree, calculateTimeline, calculateSummary. *)

\* Not the code: only a span without a parent is a root.
RootsWithoutParent(D) == {s \in D : ParentOf[s] = None}

Roots(D)    == {s \in D : ParentOf[s] \notin D}
Children(D, s) == {c \in D : ParentOf[c] = s}

\* Not the code: the trace ends with the span that started last.
EndOfLastStarted(D) == End(CHOOSE s \in D : \A t \in D : Start(t) <= Start(s))

TraceStart(D)    == SetMin({Start(s) : s \in D})
TraceEnd(D)      == SetMax({End(s) : s \in D})
TotalDuration(D) == TraceEnd(D) - TraceStart(D)
RelativeStart(D, s) == Start(s) - TraceStart(D)

Summary(D) ==
    [total_spans |-> Cardinality(D),
     duration    |-> TotalDuration(D),
     status      |-> IF \E s \in D : StatusOf[s] = "error" THEN "error" ELSE "success"]

-----------------------------------------------------------------------------
(* What the page shows. *)

Display ==
    CASE loading   -> "Loading"
      [] ~loading /\ error -> "error"
      [] ~loading /\ ~error /\ data = {} -> "nothing"
      [] OTHER     -> "detail"

\* The rows of a tree of which the nodes in C are collapsed: the roots and,
\* below every row that is expanded, its children.
Drawn(D, C, R) ==
    /\ Roots(D) \subseteq R
    /\ \A s \in R \ C : Children(D, s) \subseteq R

Rows(D, C) == {s \in D : \A R \in SUBSET D : Drawn(D, C, R) => s \in R}

\* The bar of a span as a part of the timeline: its left edge and its width
\* in thousandths, a width under five being drawn as five.
safe(D) == IF TotalDuration(D) > 0 THEN TotalDuration(D) ELSE 1

Bar(D, s) ==
    LET width == (Duration(s) * 1000) \div safe(D)
    IN  [left  |-> (RelativeStart(D, s) * 1000) \div safe(D),
         width |-> IF width < 5 THEN 5 ELSE width]

\* A node is the same component as before if it hangs on the same nodes.
Parents(D, s) == {ParentOf[s]} \cap D

Above(D, s) ==
    {x \in D : \A U \in SUBSET D :
        Parents(D, s) \subseteq U /\ (\A y \in U : Parents(D, y) \subseteq U) => x \in U}

\* The flags that outlive a render which makes D the data.
Kept(D, C) ==
    {s \in C : /\ s \in Rows(D, C)
               /\ s \in data /\ Above(data, s) = Above(D, s)}

-----------------------------------------------------------------------------
(* The page. *)

Init ==
    /\ traceId = None
    /\ data = {} /\ shown = 0 /\ collapsed = {}
    /\ loading = FALSE /\ error = FALSE
    /\ made = 0 /\ asked = {} /\ overtaken = FALSE
    /\ query = [n \in 1..MaxCalls |-> None]
    /\ answer = [n \in 1..MaxCalls |-> None]

\* The effect for a trace: it asks, and resets nothing.
Fetch(t) ==
    /\ made < MaxCalls
    /\ made' = made + 1
    /\ asked' = asked \cup {made'}
    /\ query' = [query EXCEPT ![made'] = t]
    /\ overtaken' = (overtaken /\ asked # {})
    /\ traceId' = t
    /\ UNCHANGED answer

Open(t) ==
    /\ traceId = None
    /\ Fetch(t)
    /\ loading' = TRUE
    /\ UNCHANGED <<stored, content, error>>

\* Not the code: the effect runs once.
GoToUnheard(t) ==
    /\ traceId \notin {None, t}
    /\ traceId' = t
    /\ UNCHANGED <<stored, content, loading, error, calls>>

\* The path changes to another trace.
GoTo(t) ==
    /\ traceId \notin {None, t}
    /\ Fetch(t)
    /\ UNCHANGED <<stored, content, loading, error>>

\* handleGetTrace lists the spans of the trace.
Read(n) ==
    /\ n \in asked /\ answer[n] = None
    /\ answer' = [answer EXCEPT ![n] = SpansOf(query[n])]
    /\ UNCHANGED <<stored, traceId, content, loading, error, made, asked, query, overtaken>>

Over(n) ==
    /\ asked' = asked \ {n}
    /\ query' = [query EXCEPT ![n] = None]
    /\ answer' = [answer EXCEPT ![n] = None]
    /\ overtaken' = (overtaken \/ \E m \in asked : m < n)
    /\ loading' = FALSE
    /\ UNCHANGED <<stored, traceId, made>>

\* Not the code: flags are kept by the tree, not by its nodes.
ReceiveKeepsFlags(n) ==
    /\ n \in asked /\ answer[n] \notin {None, {}}
    /\ data' = answer[n]
    /\ shown' = n
    /\ Over(n)
    /\ UNCHANGED <<collapsed, error>>

Receive(n) ==
    /\ n \in asked /\ answer[n] \notin {None, {}}
    /\ data' = answer[n]
    /\ shown' = n
    /\ collapsed' = IF error THEN {} ELSE Kept(answer[n], collapsed)
    /\ Over(n)
    /\ UNCHANGED error

\* Not the code: an error does not end the loading.
FailKeepsLoading(n) ==
    /\ n \in asked
    /\ error' = TRUE
    /\ collapsed' = {}
    /\ asked' = asked \ {n}
    /\ UNCHANGED <<stored, traceId, data, shown, loading, made, query, answer, overtaken>>

\* Not found, another status that is not ok, or a connection that breaks.
\* The message takes the place of the tree, which is unmounted.
Fail(n) ==
    /\ n \in asked
    /\ error' = TRUE
    /\ collapsed' = {}
    /\ Over(n)
    /\ UNCHANGED <<data, shown>>

\* Not the code: nodes that are hidden keep their flag.
ToggleHidden(s) ==
    /\ Display = "detail"
    /\ s \in Rows(data, collapsed) /\ Children(data, s) # {}
    /\ collapsed' = IF s \in collapsed THEN collapsed \ {s} ELSE collapsed \cup {s}
    /\ UNCHANGED <<stored, traceId, data, shown, loading, error, calls>>

\* The button of a row; the nodes below it go or come back, expanded.
Toggle(s) ==
    /\ Display = "detail"
    /\ s \in Rows(data, collapsed) /\ Children(data, s) # {}
    /\ LET now == IF s \in collapsed THEN collapsed \ {s} ELSE collapsed \cup {s}
       IN  collapsed' = now \cap Rows(data, now)
    /\ UNCHANGED <<stored, traceId, data, shown, loading, error, calls>>

Leave ==
    /\ traceId # None
    /\ traceId' = None
    /\ data' = {} /\ shown' = 0 /\ collapsed' = {}
    /\ loading' = FALSE /\ error' = FALSE
    /\ asked' = {} /\ overtaken' = FALSE
    /\ query' = [n \in 1..MaxCalls |-> None]
    /\ answer' = [n \in 1..MaxCalls |-> None]
    /\ UNCHANGED <<stored, made>>

\* Everything that happens while the page stays open.
Step ==
    \/ \E t \in Trace : GoTo(t)
    \/ \E n \in 1..MaxCalls : Read(n) \/ Receive(n) \/ Fail(n)
    \/ \E s \in Span : Toggle(s)

-----------------------------------------------------------------------------
(* Properties. *)

\* Once every call is over, the spans are those of the trace in the path,
\* unless an answer overtook an earlier one or a call of this visit failed,
\* although nothing is reset when the path changes.
SettledShowsItsTrace ==
    traceId # None /\ asked = {} /\ ~error /\ ~overtaken
        => data # {} /\ \A s \in data : TraceOf[s] = traceId

\* Every span of the answer has a row unless a node above it is collapsed, or
\* it hangs on a circle of parents: a span whose parent is missing, because
\* its insert is late or failed, is not lost.
EverySpanHasItsRow ==
    Display = "detail" =>
        \A s \in data : s \in Rows(data, collapsed)
            <=> /\ Above(data, s) \cap collapsed = {}
                /\ \E x \in {s} \cup Above(data, s) : ParentOf[x] \notin data

\* A node that is opened again shows all there is below it.
ReopenedWhole ==
    [][\A s \in collapsed : Toggle(s) =>
            \A c \in data : s \in Above(data, c) => c \in Rows(data, collapsed)']_vars

\* Start, end and duration are rounded down one by one, and yet every bar
\* stays within the timeline, but for the least width of a bar.
BarsInTimeline ==
    \A s \in data : /\ Bar(data, s).left >= 0
                    /\ Bar(data, s).left + Bar(data, s).width <= 1000 + 5

=============================================================================
