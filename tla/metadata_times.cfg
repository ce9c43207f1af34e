SPECIFICATION Spec
CONSTANTS
    Caller <- Owners
    Formatter <- Ann
    Node = {"/", "f"}
    Dir = {"/"}
    Above <- FlatAbove
    Parent <- FlatParent
    Requests = {{"r"}, {"w"}}
    Masks = {}
    Modes = {511}
    Uids = {}
    Gids = {}
    Times <- FarTimes
    Day = 2
    MinTime <- Earliest
    MaxTime = 7
    MaxClock = 2
    MayJump = TRUE
    MayFail = TRUE
INVARIANTS AgesAreInRange ReadingShows
PROPERTIES ChangesAreDated
