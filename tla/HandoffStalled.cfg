SPECIFICATION FairSpec
CONSTANTS
    N = 1
    Kind <- PsmoOnly
    QueueSize = 1
    Oversize <- NoOversize
    Blank <- NoBlank
    MaxCycles = 3
    MaxRestarts = 0
PROPERTY PeriodicallyWritten
CHECK_DEADLOCK FALSE
