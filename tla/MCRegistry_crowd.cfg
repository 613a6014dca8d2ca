SPECIFICATION Spec
CONSTANTS
    Tx = {t1, t2, t3}
    Admin = {a1}
    Kind = {k1, k2}
    Key = {}
    MaxQueued = 1
    MaxEventsPerTx = 1
    MaxReadsPerTx = 1
    MaxProjectionsPerTx = 0
    MaxEventsPerTxRead = 2
    MaxOpenTx = 2
    Asked = {"deleteEvents"}
    MayCrash = TRUE
    MayClose = FALSE
    MaxVersion = 0
SYMMETRY Symmetric
INVARIANTS
    DecisionsHold
    NoGap
