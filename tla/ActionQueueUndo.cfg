\* One internal action and three requests: undo, discard and approve race.
SPECIFICATION Spec
CONSTANTS
    task = task
    rfi = rfi
    bogus = bogus
    r1 = r1
    r2 = r2
    r3 = r3
    Actions <- OneAction
    Requests <- ThreeRequests
    Registered <- OneAction
    Compensable <- OneAction
    UndoWindow = 1
    MaxTime = 3
SYMMETRY Symmetric3
INVARIANTS TypeOK NoFalseClaim UndoFollowsRecord UndoInWindow AutoRunsOnce RepeatsAreUnrecorded
CHECK_DEADLOCK FALSE
