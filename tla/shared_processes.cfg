SPECIFICATION FairSpec
CONSTANTS
    Threads = {"t1", "t2", "t3"}
    ProcessOf <- TwoProcesses
    Blocks <- MCBlocks
    Kinds = {"read", "alloc", "free"}
    CounterValues = 4
    MayRemount = TRUE
    MaxMounts = 2
INVARIANTS OwnedIsMarked
PROPERTIES MutexIsPassedOn NoDoubleAllocation OperationsComplete
