SPECIFICATION FairSpec
CONSTANTS
    a1 = a1
    a2 = a2
    b1 = b1
    A = A
    B = B
    s1 = s1
    s2 = s2
    Items = {a1, b1}
    ScopeOf <- SmallScopeOf
    ExternalId <- SmallIds
    CursorCol = "none"
    PageSize = 1
    Scopes = {A, B}
    Syncs = {s1, s2}
    LinkedFirst = {A}
    Batches <- SmallAlone
    MaxTime = 2
    MaxFailures = 1
PROPERTY Converges
