SPECIFICATION Spec
CONSTANTS
    NULL = NULL
    Main = main
    Threads = {main, a, b, c}
    NumIds = 2
    NumPhysPages = 5
    SharedPages = 1
    StackPages = 1
    MaxExecs = 3
INVARIANTS JoinWaits IdsUnique FramesSeparateUntilForkedExit
CHECK_DEADLOCK FALSE
