CONSTANTS
    PREDICTION_WINDOW = 1
    RETAINED_INPUTS = 1
    InputDelay = 1
    Neutral = n
    Buttons = {n}
    None = None
    MaxFrame = 6
    Ends = {TRUE, FALSE}
    MaxRequests <- Again
SPECIFICATION Spec
INVARIANTS TypeOK NoFalseAlarm PausedTogether SameBarrier
CHECK_DEADLOCK FALSE
