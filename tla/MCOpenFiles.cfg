\* Two threads, two files, five handles (the console's and two more).
SPECIFICATION Spec
CONSTANTS
    Threads = {t1, t2}
    Main = t1
    Names = {a, b}
    MAX_OPEN_FILES = 5
    MaxFd = 8
    MaxCalls = 4
    NULL = NULL
INVARIANTS
    FilesReached
    HandlesAreDescriptors
PROPERTY ReadsReturn
CHECK_DEADLOCK FALSE
