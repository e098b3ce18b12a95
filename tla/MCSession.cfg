CONSTANTS
    PREDICTION_WINDOW = 1
    RETAINED_INPUTS = 1
    InputDelay = 1
    Neutral = n
    Buttons = {n, a}
    None = None
    HASH_INTERVAL = 1
    CAPACITY = 3
    EVENT_BUDGET = 32
    Heartbeats = {TRUE, FALSE}
    MaxFrame = 3
    MaxRequests <- Never
    Stops = {}
    MaxQueue = 3
SPECIFICATION Spec
INVARIANTS TypeOK NoFalseAlarm SameMachine
PROPERTIES OneGame
CHECK_DEADLOCK FALSE
