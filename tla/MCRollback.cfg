CONSTANTS
    PREDICTION_WINDOW = 2
    RETAINED_INPUTS = 1
    InputDelay = 1
    Neutral = n
    Buttons = {n, a}
    None = None
    Player = 0
    MaxFrame = 3
SPECIFICATION Spec
INVARIANTS TypeOK NeverAborts ReleasedTrue NoStaleFrame RetainedBound RollbackInv
PROPERTIES ReleasedFinal
CHECK_DEADLOCK FALSE
