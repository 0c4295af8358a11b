SPECIFICATION DeviceSpec
CONSTANTS
    Ops <- WebOps
    MinDelay = 1
    MaxDelay = 1
    MaxAsks = 1
PROPERTIES AutoReconnect QueueDrains
