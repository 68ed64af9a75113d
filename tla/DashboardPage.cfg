\* Two refreshes, two polls at a time, one restart.
SPECIFICATION Spec
CONSTANTS
    a = a
    b = b
    s1 = s1
    s2 = s2
    s3 = s3
    s4 = s4
    planner = planner
    writer = writer
    nobody = nobody
    user = user
    None = None
    Lost = Lost
    Span <- MCSpan
    Trace = {a, b}
    Agent = {planner, writer, nobody}
    User = {user}
    TraceOf <- MCTraceOf
    ParentOf <- MCParentOf
    AgentOf <- MCAgentOf
    UserOf <- MCUserOf
    StatusOf <- MCStatusOf
    Began <- MCBegan
    Ended <- MCEnded
    Ms = 1
    CostOf <- MCCostOf
    LeastCost = 1
    NoAgent = nobody
    DayLimit = 3
    Counter = {"200", "200-cache"}
    Status = {"200", "200-cache"}
    InitStored <- MCStored
    MaxTicks = 2
    MaxPolls = 2
    MaxCount = 2
    MaxLives = 1
INVARIANTS
    TypeOK
    CardsAgreeWithBars
    BarsInFrame
CHECK_DEADLOCK FALSE
PROPERTIES
    CountsNeverGoBack
    CatchesUp
