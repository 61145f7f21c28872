SPECIFICATION Spec
CONSTANTS
    SystemTick = 1
    ConsoleTime = 4
    RotationTime = 3
    SeekTime = 4
    TimerDelays = {2, 4}
    SectorsPerTrack = 3
    NumTracks = 2
    Inputs <- MCInputs
    EOF = EOF
    MaxRequests = 3
    MaxPolls = 1
INVARIANTS PendingExact EchoInOrder SectorUnderHead
PROPERTY ComesToHalt
CHECK_DEADLOCK FALSE
