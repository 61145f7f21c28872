SPECIFICATION Spec
CONSTANTS
    WordBits = 4
    JumpBits = 3
    NumGPRegs = 4
    PageSize = 4
    NumPhysPages = 6
    Threads = {"a", "b"}
    PageTables <- MCPageTables
    Programs <- MCPrograms
    Starts <- MCStarts
    Bytes <- MCBytes
    Results = {0, 9}
INVARIANT InStep
PROPERTIES ArithmeticExact PreciseExceptions DisassemblyAgrees
CHECK_DEADLOCK FALSE
