SPECIFICATION Spec
CONSTANTS
    Files <- MCFiles
    PageSize = 2
    NumPhysPages = 11
    UserStackSize = 2
    NoffHeaderSize = 10
    StackSize = 3
    MEMSIZE = 16
    MaxExecs = 2
INVARIANTS LoadedAsInterpreted FlatAsInterpreted
CHECK_DEADLOCK FALSE
