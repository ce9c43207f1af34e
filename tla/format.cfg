SPECIFICATION Spec
CONSTANTS
    TotalBlocks = 6
    BitmapBlocks = 2
    MaxFormats = 2
    Faults = {"death", "power", "error"}
INVARIANTS FormatIsDurable
