SPECIFICATION Spec
CONSTANTS
    MTU = 20
    MaxPackets = 10
    RawSize = 256
    EncSize = 512
    DataLens <- MCDataLens
INVARIANTS TypeOK FragmentsFit Partition RefusesOnlyTooLong RoundTrip RequestsFit
CHECK_DEADLOCK FALSE
