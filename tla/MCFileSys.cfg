SPECIFICATION FileSysSpec
CONSTANTS
    Threads = {t1, t2}
    Names = {f, g}
    OldNames = {f, NULL}
    NumSectors = 10
    SectorSize = 2
    NumDirEntries = 2
    Straddle = 0
    Sizes = {1, 3}
    Reads <- MCReads
    Writings <- MCWritings
    Vals = {1}
    MaxOps = 3
    MaxCrashes = 1
    NULL = NULL
INVARIANTS Consistent FilesIntact AssertionsHold
SYMMETRY Symmetry
CHECK_DEADLOCK FALSE
