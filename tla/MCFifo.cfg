SPECIFICATION Spec
CONSTANTS
    Req = {r1, r2, r3, r4}
    MaxQueued = 2
INVARIANTS
    TypeOK
    OneTurn
    InTicketOrder
PROPERTIES
    CapIsExact
    NoWorkAfterClose
    EveryoneLeaves
    IsALine
CHECK_DEADLOCK FALSE
