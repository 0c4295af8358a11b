SPECIFICATION Spec
CONSTANTS
    Apps = {web, timer}
    Ops <- AllOps
    Faults <- AllFaults
    MaxServices = 2
    MaxConns = 3
    MaxScanReqs = 1
    web = web
    timer = timer
INVARIANTS TypeOK StateIsBacked HandshakeUsesThisLink NoLeftovers
PROPERTY LifecycleSpec
