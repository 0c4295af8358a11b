SPECIFICATION LiveSpec
INVARIANTS TypeOK BitIsTheStation
PROPERTIES KeepsTrying BootFinishes SearchesUnlessEarly
CHECK_DEADLOCK FALSE
