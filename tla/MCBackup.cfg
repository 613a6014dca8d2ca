SPECIFICATION FairSpec
CONSTANTS
    Runs = {r1, r2}
    NoRun = NoRun
    PageLimit = 2
    Threshold = 2
    MaxEvents = 4
    MaxCommit = 2
    MaxGrowth = 1
    MaxGrown = 5
    MaxCrashes = 1
CHECK_DEADLOCK FALSE
INVARIANTS TypeOK PageContinuesFile CompleteOnSuccess StallsArePaid 
PROPERTIES LockFreed IsACopy
