SPECIFICATION FairSpec
CONSTANTS
    scan = scan
    auth = auth
    Callers = {c}
    Ids <- MCIds
    None = None
    InitFails = TRUE
    WS_NUM_MESSAGES = 1
    MaxDelay = 2
    Work <- MCWork
CHECK_DEADLOCK FALSE
INVARIANTS TypeOK NoOversleep  StopMeansStopped
PROPERTIES EventsTaken 
