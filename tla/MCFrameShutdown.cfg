CONSTANTS
    FRAME_CHANNEL_CAPACITY = 2
    MAX_IN_FLIGHT = 2
    Recordings = {FALSE}
    Faults = FALSE
    MaxSteps = 0
    MaxBatches = 6
    MaxCommands = 1
SPECIFICATION FairSpec
PROPERTIES ShutdownReturns
CHECK_DEADLOCK FALSE
