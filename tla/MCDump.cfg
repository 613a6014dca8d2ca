SPECIFICATION Spec
CONSTANTS
    BadText = BadText
    Type = {T1}
    Name = {n1, n2}
    Value = {v1}
    Time = {t1}
    Payload = {x}
    Absent = Absent
    OtherForm = OtherForm
    MaxTags = 2
    Batch = 2
    Numbers = {0, 1, 2, 3}
    Repeats = {"same name"}
    MaxMembers = 2
    MaxValues = 2
    MaxLines = 3
SYMMETRY Symmetry
CHECK_DEADLOCK FALSE
INVARIANTS TypeOK NothingDropped SummaryIsTrue OwnDumpsPass
