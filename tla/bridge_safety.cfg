SPECIFICATION Spec
CONSTANTS
    Ops <- AllOps
    MinDelay = 1
    MaxDelay = 2
    MaxAsks = 1
INVARIANTS TypeOK AtMostOnce
