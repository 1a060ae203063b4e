SPECIFICATION Spec
CONSTANTS
    a1 = a1
    a2 = a2
    b1 = b1
    A = A
    B = B
    s1 = s1
    s2 = s2
    Items = {a1, b1}
    ScopeOf <- SmallScopeOf
    ExternalId <- SmallIds
    CursorCol = "updated_at"
    PageSize = 2
    Scopes = {A, B}
    Syncs = {s1}
    LinkedFirst = {A, B}
    Batches <- SmallAlone
    MaxTime = 3
    MaxFailures = 0
INVARIANT NoProjectIsStarved
