SPECIFICATION Spec
CONSTANTS
    Procs = {p, q, r}
    Kinds = {"direct", "journal", "readlink"}
    Mounts = {"first", "alone"}
    MaxOps = 2
    MaxMounts = 1
    MayDie = TRUE
INVARIANTS NothingIsUndone
CHECK_DEADLOCK FALSE
SYMMETRY Alike
