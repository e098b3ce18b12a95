CONSTANTS
    PREDICTION_WINDOW = 1
    RETAINED_INPUTS = 1
    InputDelay = 1
    Neutral = n
    Buttons = {n}
    None = None
    MaxFrame = 3
    Ends = {TRUE}
    MaxRequests <- Again
SPECIFICATION FairSpec
PROPERTIES PauseTakesEffect PlayResumes
CHECK_DEADLOCK FALSE
