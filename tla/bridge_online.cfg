SPECIFICATION Spec
CONSTANTS
    Ops <- SwitchOps
    MinDelay = 1
    MaxDelay = 3
    MaxAsks = 1
INVARIANTS OnlineMeansLinked OnlineWhenReady BackoffBounded
