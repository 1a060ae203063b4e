SPECIFICATION AlertSpec
CONSTANTS
    w1 = w1
    night = night
    again = again
    boss = boss
    mate = mate
    None = None
    Runs = {night, again}
    LockOf <- TwoLocks
    Subjects = {w1}
    JobFor <- OneWarranty
    Users = {boss, mate}
    Admins = {boss}
    Days = {0, 90, 91}
    Measures = {90, 200}
    MaxActs = 2
INVARIANTS ClashesOnlyWithoutLock OneTierPerUser RulesDifferOnLastDay
PROPERTIES CommitAgrees
CHECK_DEADLOCK FALSE
