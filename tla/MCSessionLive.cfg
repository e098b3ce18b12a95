CONSTANTS
    PREDICTION_WINDOW = 1
    RETAINED_INPUTS = 1
    InputDelay = 1
    Neutral = n
    Buttons = {n}
    None = None
    HASH_INTERVAL = 9
    CAPACITY = 2
    EVENT_BUDGET = 32
    Heartbeats = {FALSE}
    MaxFrame = 5
    MaxRequests <- One
    Stops = {0}
    MaxQueue = 2
SPECIFICATION FairSpec
INVARIANTS PausedTogether
PROPERTIES BothPlayOn EndTogether
CHECK_DEADLOCK FALSE
