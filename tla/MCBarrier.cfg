SPECIFICATION BarrierSpec
CONSTANTS
    NULL = NULL
    Threads = {a, b, c, d}
INVARIANT NobodyLeavesEarly
CHECK_DEADLOCK FALSE
