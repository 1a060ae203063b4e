SPECIFICATION DerivedSpec
CONSTANTS
    list = list
    hold = hold
    co = co
    i1 = i1
    i2 = i2
    i3 = i3
    line = line
    punch1 = punch1
    ann = ann
    bob = bob
    r1 = r1
    r2 = r2
    None = None
    Requests = {r1, r2}
    Rows = {list, i1, i2, i3, hold, co, line, punch1}
    MaxCalls = 4
    List = list
    Items = {i1, i2, i3}
    Milestones = {hold, co}
    TypeOf <- Types
    Trigger <- Triggers
    Members <- TwoPrimaries
    Patches <- MilestonePatches
    Counters <- ListCounters
    Today = 50
    Warranties <- WarrantySets
    PunchLists <- Punch
    Lines = {line}
    Punches = {punch1}
    Edits <- LineEdits
    FirstMilestones <- FirstOnes
SYMMETRY Symmetry
INVARIANTS GatePassedOnce ReadyMeansGatesAgree
PROPERTIES LoneRollupHeals LoneCertificateIsTrue LoneRefreshAddsUp
CHECK_DEADLOCK FALSE
