SPECIFICATION Spec
CONSTANTS
    MaxBlocks = 3
    UPB = 2
    MaxTx = 3
    Setups <- WritesAndTruncation
    Corrupt = Corrupt
    NULL = NULL
INVARIANTS StoredFileReads HandleReads UpdatesAreStored
PROPERTIES ImplementsAtomicFile
CHECK_DEADLOCK FALSE
