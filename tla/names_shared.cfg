SPECIFICATION Spec
CONSTANTS
    Procs = {p, q}
    Paths <- Shared
    Links = {}
    Targets <- SharedTargets
    Ends = {0, 2}
    MaxInodes = 3
    EntriesPerBlock = 1
    DirectBlocks = 2
    DataBlocks = 3
    MaxOpenFiles = 1
    MaxMappings = 1
    MaxSymlinkDepth = 2
    MaxGeneration = 2
    MayDie = TRUE
INVARIANTS NamesAreBacked 
PROPERTIES ReuseIsDetected
SYMMETRY Twins
