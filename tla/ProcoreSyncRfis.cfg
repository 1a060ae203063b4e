SPECIFICATION Spec
CONSTANTS
    a1 = a1
    a2 = a2
    b1 = b1
    A = A
    B = B
    s1 = s1
    s2 = s2
    Items = {a1, a2, b1}
    ScopeOf <- TwoScopeOf
    ExternalId <- TwoIds
    CursorCol = "updated_at"
    PageSize = 1
    Scopes = {A, B}
    Syncs = {s1}
    LinkedFirst = {A}
    Batches <- Alone
    MaxTime = 3
    MaxFailures = 2
INVARIANTS
    NothingFetchedIsDropped
PROPERTY CursorNeverGoesBack
