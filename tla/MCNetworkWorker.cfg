CONSTANTS
    OUTBOUND_CAPACITY = 1
    INBOUND_CAPACITY = 1
    MaxSends <- Uneven
    Prompt = TRUE
SPECIFICATION FairSpec
INVARIANTS TypeOK CloseArrives PrimaryCause NoSilentEnd
PROPERTIES EndsTogether
CHECK_DEADLOCK FALSE
