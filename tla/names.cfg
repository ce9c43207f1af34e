SPECIFICATION Spec
CONSTANTS
    Procs = {p}
    Paths <- Tree
    Links <- TreeLinks
    Targets <- TreeTargets
    Ends = {0, 1}
    MaxInodes = 4
    EntriesPerBlock = 1
    DirectBlocks = 2
    DataBlocks = 4
    MaxOpenFiles = 1
    MaxMappings = 1
    MaxSymlinkDepth = 3
    MaxGeneration = 2
    MayDie = FALSE
INVARIANTS LinksAreNames OneTree BlocksAccounted DirectoriesHold HandlesAreCurrent ResolvesAsWalked
PROPERTIES FailureIsInvisible
