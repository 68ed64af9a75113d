SPECIFICATION Spec
CONSTANTS
    p1 = p1
    p2 = p2
    Policy <- MCPolicy
    MaxCrashes = 1
PROPERTIES
    ComesUp
