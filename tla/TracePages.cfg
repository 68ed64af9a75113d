\* The list and the details of two traces, one row to a page; one insert is
\* late, four calls of the list, three of the detail.
SPECIFICATION Spec
CONSTANTS
    a = a
    b = b
    root = root
    child = child
    leaf = leaf
    lone = lone
    ring = ring
    elsewhere = elsewhere
    agent = agent
    user = user
    other = other
    None = None
    Untyped = Untyped
    Span <- MCSpan
    Trace <- MCTrace
    Agent = {agent}
    User = {user, other}
    TraceOf <- MCTraceOf
    ParentOf <- MCParentOf
    AgentOf <- MCAgentOf
    UserOf <- MCUserOf
    StatusOf <- MCStatusOf
    Began <- MCBegan
    Ended <- MCEnded
    Ms = 2
    InitStored <- MCInitStored
    PageSize = 1
    SpanLimit = 4
    MaxListCalls = 4
    MaxDetailCalls = 3
INVARIANTS
    TypeOK
    RowsOfCurrentQuery
    NothingOutOfReach
    SettledShowsItsTrace
    EverySpanHasItsRow
    BarsInTimeline
    DetailBearsRowOut
CHECK_DEADLOCK FALSE
PROPERTIES
    ReopenedWhole
    PagesFetch
