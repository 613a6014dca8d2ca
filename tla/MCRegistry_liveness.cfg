SPECIFICATION DrivenSpec
CONSTANTS
    Tx = {t1, t2}
    Admin = {a1}
    Kind = {}
    Key = {p1}
    MaxQueued = 1
    MaxEventsPerTx = 0
    MaxReadsPerTx = 0
    MaxProjectionsPerTx = 1
    MaxEventsPerTxRead = 2
    MaxOpenTx = 2
    Asked = {"pause", "projections", "deleteProjections"}
    MayCrash = FALSE
    MayClose = FALSE
    MaxVersion = 1
INVARIANTS
    DecisionsHold
PROPERTIES
    PauseComes
    CommitAnswered
