\* One internal, one external and one unregistered action, two requests; no clock.
SPECIFICATION FairSpec
CONSTANTS
    task = task
    rfi = rfi
    bogus = bogus
    r1 = r1
    r2 = r2
    r3 = r3
    Actions <- AllActions
    Requests <- TwoRequests
    Registered <- TwoActions
    Compensable <- OneAction
    UndoWindow = 0
    MaxTime = 0
PROPERTIES RunsOnlyWhenApproved StartedIsSettled UndoIsSettled
CHECK_DEADLOCK FALSE
