CONSTANTS
    Paths <- SavePaths
    Folders <- SaveFolders
    Holder <- SaveHolder
    Above <- SaveAbove
    Absent <- SaveAbsent
    Data = {a, b}
    Blank = a
    None = None
    MAX_HISTORY = 1
    MAX_PENDING_HISTORY = 1
    Limit <- SaveLimit
SPECIFICATION Spec
INVARIANTS NeverTorn HistoryKeepsLast SuspendResumes
PROPERTIES SuccessSurvives ResumeKeepsBattery
CHECK_DEADLOCK FALSE
