SPECIFICATION Spec
CONSTANTS
    p1 = p1
    p2 = p2
    Policy <- MCPolicy
    MaxCrashes = 3
INVARIANTS
    ServesCompleteSchema
PROPERTIES
    NoPolicyLost
