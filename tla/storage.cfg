SPECIFICATION Spec
CONSTANTS
    BlockSize = 2
    DirectBlocks = 1
    PtrsPerBlock = 2
    DataStart = 10
    DataBlocks = 10
    MaxInodes = 3
    Absent = Absent
    Bytes = {1}
    Sizes = {3, 9, 15}
    Writes <- MCWrites
    MaxGeneration = 2
    CounterValues = 16
    Resumes = "allocates"
INVARIANTS NoCrossLinks BitmapIsExact MappedUpToSize LeaksStayLeaks StaysMountable
PROPERTIES ImplementsFileArray GenerationsNeverRepeat
CHECK_DEADLOCK FALSE
