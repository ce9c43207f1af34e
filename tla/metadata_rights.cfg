SPECIFICATION Spec
CONSTANTS
    Caller <- AllCallers
    Formatter <- Ann
    Node = {"/", "f"}
    Dir = {"/"}
    Above <- FlatAbove
    Parent <- FlatParent
    Requests = {}
    Masks = {511}
    Modes = {39, 488}
    Uids = {2}
    Gids = {3}
    Times = {}
    Day = 2
    MinTime <- Earliest
    MaxTime = 7
    MaxClock = 0
    MayJump = FALSE
    MayFail = FALSE
INVARIANTS ClassesAreExclusive
PROPERTIES RightsComeFromOwners
