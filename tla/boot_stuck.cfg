SPECIFICATION LiveSpec
PROPERTY BootSearches
CHECK_DEADLOCK FALSE
