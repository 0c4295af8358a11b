SPECIFICATION Spec
CONSTANTS
    Writers = {btc, web}
    RingSize = 2
    MaxLines = 5
INVARIANTS TypeOK PageIsTheTail FullPageFormed
CHECK_DEADLOCK FALSE
