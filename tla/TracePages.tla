----------------------------- MODULE TracePages ------------------------------
(***************************************************************************)
(* The console's way between the list of traces, the details of a trace    *)
(* and its other pages (web/src/App.tsx): the routes mount one page at a   *)
(* time, so that going to another unmounts the one that was open.          *)
(* Composition of TraceList and TraceDetail over one table of spans.       *)
(***************************************************************************)
EXTENDS SpanTable

CONSTANTS
    InitStored,       \* what an earlier life of the gateway may have stored
    Untyped, PageSize, SpanLimit,
    MaxListCalls, MaxDetailCalls   \* bounds

ASSUME PagesAssumption ==
    /\ InitStored \subseteq SUBSET Span
    /\ Untyped \notin Agent \cup User
    /\ PageSize \in Nat \ {0} /\ SpanLimit \in Nat \ {0}
    /\ MaxListCalls \in Nat /\ MaxDetailCalls \in Nat

VARIABLES
    \* TraceList
    mounted, traces, total, page, agentFilter, userFilter, status,
    loading, error, made, asked, query, answer, shown, shownQuery, overtaken,
    \* TraceDetail
    traceId, data, detailLoading, detailError, collapsed, detailMade,
    detailAsked, detailQuery, detailAnswer, detailShown, detailOvertaken,
    \* history: the row whose link led to the detail that is open, None if
    \* the detail was opened by its address
    row

List   == INSTANCE TraceList WITH MaxCalls <- MaxListCalls
Detail == INSTANCE TraceDetail WITH
              MaxCalls <- MaxDetailCalls, loading <- detailLoading,
              error <- detailError, made <- detailMade, asked <- detailAsked,
              query <- detailQuery, answer <- detailAnswer,
              shown <- detailShown, overtaken <- detailOvertaken

listPage   == <<mounted, traces, total, page, agentFilter, userFilter, status, loading,
                error, made, asked, query, answer, shown, shownQuery, overtaken>>
detailPage == <<traceId, data, detailLoading, detailError, collapsed, detailMade,
                detailAsked, detailQuery, detailAnswer, detailShown, detailOvertaken>>
vars       == <<stored, listPage, detailPage, row>>

Init ==
    /\ stored \in InitStored
    /\ List!Init
    /\ Detail!Init
    /\ row = None

\* The link of the navigation, or the way back from a detail.
GoToList ==
    /\ ~mounted
    /\ List!Open
    /\ IF traceId = None THEN UNCHANGED detailPage ELSE Detail!Leave
    /\ row' = None

\* The link in a row of the list; the table is hidden while it is loading.
FollowLink ==
    /\ mounted /\ ~loading
    /\ \E r \in List!visible :
        /\ Detail!Open(r.trace)
        /\ row' = r
    /\ List!Leave

\* A detail opened by its address; the trace need not be there.
OpenAddress(t) ==
    /\ ~mounted
    /\ Detail!Open(t)
    /\ UNCHANGED <<listPage, row>>

\* Any other page of the console.
GoElsewhere ==
    \/ List!Leave /\ UNCHANGED <<detailPage, row>>
    \/ Detail!Leave /\ row' = None /\ UNCHANGED listPage

Insert(s) == Store(s) /\ UNCHANGED <<listPage, detailPage, row>>

Next ==
    \/ \E s \in Span : Insert(s)
    \/ List!Step /\ UNCHANGED <<detailPage, row>>
    \/ Detail!Step /\ UNCHANGED <<listPage, row>>
    \/ GoToList \/ FollowLink \/ GoElsewhere
    \/ \E t \in Trace : OpenAddress(t)

\* A call ends: the gateway closes a connection after write_timeout.
ListHears ==
    /\ \E n \in 1..MaxListCalls : List!Receive(n) \/ List!Fail(n)
    /\ UNCHANGED <<detailPage, row>>
DetailHears ==
    /\ \E n \in 1..MaxDetailCalls : Detail!Receive(n) \/ Detail!Fail(n)
    /\ UNCHANGED <<listPage, row>>

Spec == Init /\ [][Next]_vars /\ WF_vars(ListHears) /\ WF_vars(DetailHears)

-----------------------------------------------------------------------------
(* Properties. *)

\* One page at a time, each in a state its handlers can bring about.
TypeOK ==
    /\ stored \subseteq Span
    /\ mounted => traceId = None
    /\ traces \subseteq List!Row /\ total \in Nat
    /\ Cardinality(traces) <= PageSize
    /\ page \in 1..(made + 1)
    /\ traceId \in Trace \cup {None}
    /\ data \subseteq stored
    /\ collapsed \subseteq Detail!Rows(data, collapsed)
    /\ collapsed # {} => Detail!Display = "detail"

\* See TraceList and TraceDetail.
RowsOfCurrentQuery   == List!RowsOfCurrentQuery
NothingOutOfReach    == List!NothingOutOfReach
SettledShowsItsTrace == Detail!SettledShowsItsTrace
EverySpanHasItsRow   == Detail!EverySpanHasItsRow
ReopenedWhole        == Detail!ReopenedWhole
BarsInTimeline       == Detail!BarsInTimeline

\* The detail behind a row never says less than the row did: it has at least
\* as many spans, and an error is not gone, although the list sees the spans
\* through its filters and its limit and both are read at different times.
DetailBearsRowOut ==
    /\ row # None /\ Detail!Display = "detail"
    /\ \A s \in data : TraceOf[s] = row.trace
    => /\ Detail!Summary(data).total_spans >= row.span_count
       /\ row.status = "error" => Detail!Summary(data).status = "error"

\* Both pages keep the promises of FetchView.
ListView   == INSTANCE FetchView WITH
                  last <- made, waiting <- loading
DetailView == INSTANCE FetchView WITH
                  last <- detailMade, asked <- detailAsked,
                  shown <- detailShown, waiting <- detailLoading

PagesFetch == ListView!FetchesAndHears /\ DetailView!FetchesAndHears

=============================================================================
