SPECIFICATION Spec
CONSTANTS
    MaxBlocks = 4
    UPB = 2
    MaxTx = 3
    Setups <- DeepTruncation
    Corrupt = Corrupt
    NULL = NULL
INVARIANTS UpdatesAreStored
CHECK_DEADLOCK FALSE
