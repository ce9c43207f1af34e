SPECIFICATION Spec
CONSTANTS
    File = {"f", "r"}
    Readable = {"f", "r"}
    Writable = {"f"}
    Flags <- IOFlags
    Data <- IOData
    Seeks <- IOSeeks
    Sizes = {0, 1, 3}
    Ranges <- MCRanges
    Stores = {2}
    PrivateMark = 9
    Contents <- MCContents
    BlockSize = 2
    MaxFileBlocks = 3
    DataBlocks = 3
    MaxOffset = 7
    MaxOpenFiles = 1
    MaxMappings = 1
    MayFail = TRUE
INVARIANTS SeeksAreSums ReadsAreExact PrivateStaysPrivate
PROPERTIES WritesAreExact SyncsAreExact NothingMappedIsLost
