CONSTANTS
    FRAME_CHANNEL_CAPACITY = 2
    MAX_IN_FLIGHT = 2
    Recordings = {TRUE, FALSE}
    Faults = TRUE
    MaxSteps = 3
    MaxBatches = 5
    MaxCommands = 2
SPECIFICATION FairSpec
INVARIANTS NothingLost InOrder InFlightExact SteppingNeverFull
PROPERTIES FaultShown
CHECK_DEADLOCK FALSE
