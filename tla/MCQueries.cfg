SPECIFICATION Spec
CONSTANTS
    Type = {T1, T2}
    Name = {n1}
    Value = {v1, v2}
    BadText = BadText
    Payload = {1}
    NoPayload = NoPayload
    MaxIdentifiers = 2
    MaxMetadata = 1
    MaxEventSize = 6
    MaxQueryItems = 2
    MaxQueryItemValues = 2
    MaxEventsPerTxRead = 1
    DefaultEventsPerPage = 1
    MaxEventsPerPage = 1
    Nil = Nil
    Afters = {1}
    Limits = {0, 1, 2}
    MaxSent = 2
    MaxTerms = 2
    MaxPositions = 2
SYMMETRY Symmetric
INVARIANTS
    TypeOK
    TablesMirrorLog
    PagesMissNothing
    ReadsOwnWrites
    ConditionsAgree
