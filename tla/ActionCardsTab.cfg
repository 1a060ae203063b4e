SPECIFICATION CardsFairSpec
CONSTANTS
    task = task
    rfi = rfi
    r1 = r1
    r2 = r2
    r3 = r3
    Actions <- OneAction
    Requests <- ThreeRequests
    Registered <- OneAction
    Compensable <- OneAction
    UndoWindow = 1
    MaxTime = 2
    MayDrop = TRUE
INVARIANTS
    OnceFromOneTab
    BusyIsOneRequest
    
PROPERTIES DrivesTheQueue BusyClears
CHECK_DEADLOCK FALSE
