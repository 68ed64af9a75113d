SPECIFICATION BucketSpec
CONSTANTS
    h1 = h1
    h2 = h2
    Handler <- MCHandler
    Unit <- MCUnit
    Capacity <- MCCapacity
    Rate <- MCRate
    MaxTime <- MCMaxTime
INVARIANTS
    Conforms
PROPERTIES
    RefusedOnlyOverRate
