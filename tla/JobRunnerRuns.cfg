SPECIFICATION FairSpec
CONSTANTS
    m1 = m1
    s1 = s1
    s2 = s2
    here = here
    there = there
    Runs <- ThreeRuns
    Manual = {m1}
    Jobs = {"snapshot", "purge"}
    Enabled = {"snapshot", "purge"}
    JobOf <- ThreeJobOf
    LockKey <- LockKeys
    Instances = {here, there}
    HomeOf <- ThreeHomeOf
    PoolSize = 3
INVARIANTS
    OneRunner
    RowTellsTheRun
PROPERTIES SkipsOnlyBehindARun CallsEnd ImplementsLock
CHECK_DEADLOCK FALSE
