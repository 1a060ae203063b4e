\* Two task actions and two requests on one project with one task.
SPECIFICATION TaskSpec
CONSTANTS
    a1 = a1
    a2 = a2
    r1 = r1
    r2 = r2
    r3 = r3
    seed = seed
    p = p
    q = q
    Actions <- TwoActions
    Requests <- TwoRequests
    Registered <- TwoActions
    Compensable <- TwoActions
    UndoWindow = 0
    MaxTime = 0
    Seeds <- OneSeed
    Projects <- OneProject
    Allowed <- TableStatuses
    Suggested <- ToolStatuses
    SeedNumbers <- FirstNumbers
    MaxEdits = 1
SYMMETRY Interchangeable
INVARIANTS UndoneCreationStaysGone
PROPERTIES LoneUndoRestores NumberIsTakenOnlyByARace
CHECK_DEADLOCK FALSE
