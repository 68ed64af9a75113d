SPECIFICATION Spec
CONSTANTS
    r1 = r1
    r2 = r2
    ask = ask
    other = other
    stream = stream
    k1 = k1
    k2 = k2
    None = None
    Request <- MCRequest
    Payload <- MCPayload
    Streamed <- MCStreamed
    CacheKey <- MCCacheKey
    Key <- MCKey
\* All requests are answered.
CHECK_DEADLOCK FALSE
INVARIANTS
    SharedAnswersWhole
    AccountedOnce
    MeteredOnce
    RetriedOnlyAfterFailure
PROPERTIES
    EveryRequestAnswered
