CONSTANTS
    PREDICTION_WINDOW = 2
    RETAINED_INPUTS = 1
    InputDelay = 0
    Neutral = n
    Buttons = {n}
    None = None
    MaxFrame = 6
    Ends = {TRUE, FALSE}
    MaxRequests <- Single
SPECIFICATION Spec
INVARIANTS PauseAccepted
CHECK_DEADLOCK FALSE
