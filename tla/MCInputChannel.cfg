CONSTANTS
    WINDOW = 2
    BATCH = 2
    First = 1
    Buttons <- Numbered
    MaxSent <- Uneven
    InFlight = 2
SPECIFICATION FairSpec
INVARIANTS TypeOK NeverRefused PendingCovers
PROPERTIES ReliableStreams EventuallyAcknowledged
CHECK_DEADLOCK FALSE
