SPECIFICATION Spec
CONSTANTS
    Tx = {t1}
    Admin = {a1}
    Kind = {k1}
    Key = {}
    MaxQueued = 2
    MaxEventsPerTx = 1
    MaxReadsPerTx = 1
    MaxProjectionsPerTx = 0
    MaxEventsPerTxRead = 1
    MaxOpenTx = 0
    Asked = {"deleteEvents"}
    MayCrash = TRUE
    MayClose = FALSE
    MaxVersion = 0
PROPERTIES
    PositionsGoOn
