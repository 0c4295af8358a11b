SPECIFICATION LiveSpec
CONSTANTS
    Apps = {web, timer}
    Ops <- BridgeOps
    Faults <- DeviceFaults
    MaxServices = 2
    MaxConns = 2
    MaxScanReqs = 1
    web = web
    timer = timer
PROPERTY AttemptResolves
