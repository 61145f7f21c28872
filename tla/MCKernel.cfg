SPECIFICATION Spec
CONSTANTS
    Main = main
    Threads = {main, a, b, c}
    Sems = {s}
    InitialValue <- MCInitialValue
    Devices = {disk}
    DeviceSem <- MCDeviceSem
    Timer = TimerInt
    NULL = NULL
    MaxValue = 2
INVARIANTS OnePlacePerThread NoUseAfterDelete NoLostWakeup HaltOnlyWhenStuck
PROPERTIES ReadyThreadRuns ImplementsSemaphore
