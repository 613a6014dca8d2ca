SPECIFICATION Spec
CONSTANTS
    Tx = {t1}
    Key = {k1, k2}
    BadKey = badKey
    Payload = {x, y}
    NoPayload = noPayload
    BigPayload = bigPayload
    MaxProjectionsPerWrite = 2
    MaxProjectionsPerTx = 2
    MaxReadsPerTx = 1
    MaxEventsPerTx = 1
    MaxItems = 2
    MaxVersion = 2
SYMMETRY Symmetric
INVARIANTS
    TypeOK
    ErrorsEnd
    NetIsSequence
    AppliedOnce
