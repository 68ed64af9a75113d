SPECIFICATION Spec
CONSTANTS
    k1 = k1
    k2 = k2
    k3 = k3
    k4 = k4
    v1 = v1
    v2 = v2
    None = None
    Key <- MCKey
    Value <- MCValue
    Capacity <- MCCapacity
    TTL <- MCTTL
    MaxTime <- MCMaxTime
SYMMETRY MCSymmetry
INVARIANTS
    WellFormed
PROPERTIES
    Contract
