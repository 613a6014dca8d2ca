SPECIFICATION Spec
CONSTANTS
    Tx = {t1, t2}
    Admin = {a1}
    Kind = {k1}
    Key = {}
    MaxQueued = 1
    MaxEventsPerTx = 2
    MaxReadsPerTx = 2
    MaxProjectionsPerTx = 0
    MaxEventsPerTxRead = 3
    MaxOpenTx = 2
    Asked = {"pause", "resume"}
    MayCrash = TRUE
    MayClose = TRUE
    MaxVersion = 0
SYMMETRY Symmetric
INVARIANTS
    TypeOK
    DecisionsHold
    PauseInPlace
PROPERTIES
    EndsWithItsCommit
    StillWhilePaused
    IsAnEventLog
