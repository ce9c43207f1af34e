SPECIFICATION FairSpec
CONSTANTS
    TotalBlocks = 7
    InodeTableStart = 1
    InodeTableBlocks = 1
    InodesPerBlock = 2
    JournalStart = 2
    JournalBlocks = 4
    MaxTxBlocks = 2
    Byte <- MCByte
    Workload <- GroupWorkload
    DirectWrites <- OneDirectWrite
    Faults = {"power"}
    MaxSeq = 2
    MaxFaults = 2
INVARIANTS ReadsWhatMountReads
PROPERTIES ImplementsStore JournalRetires
