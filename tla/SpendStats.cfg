SPECIFICATION Spec
CONSTANTS
    r1 = r1
    r2 = r2
    r3 = r3
    alice = alice
    bob = bob
    nobody = nobody
    None = None
    Request <- MCRequest
    User <- TwoUsers
    Anonymous = nobody
    Headers <- BothHeaders
    Limit = 2
    Minute = 2
    Hour = 3
    MaxTime = 4
CHECK_DEADLOCK FALSE
SYMMETRY MCSymmetry
INVARIANTS
    NothingMissed
    NothingElseCounted
