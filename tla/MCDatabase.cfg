SPECIFICATION Spec
CONSTANTS
    Proc = {p1, p2}
    Nil = Nil
    Version = {0, 1, 2}
    Batch = 1
    MaxDump = 2
    MaxLast = 2
SYMMETRY Symmetry
INVARIANTS TypeOK FileIsWhole ReportsHold
