SPECIFICATION Spec
CONSTANTS
    Ops <- MqttOnly
    MinDelay = 1
    MaxDelay = 2
    MaxAsks = 1
INVARIANT SentAsAsked
CHECK_DEADLOCK FALSE
