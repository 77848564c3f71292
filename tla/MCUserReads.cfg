SPECIFICATION Spec
CONSTANTS
    Users = {u1, u2}
    Unparsable = {x}
    Lists = {l1, l2}
    Gets = {g1}
    Resolution = 2
    MaxClock = 2
    NoTime = NoTime
SYMMETRY MCSymmetry
INVARIANTS
    ReadsTypeOK
    ListIsWhole
    ListsAgree
    ReadsShowTheCreates
CHECK_DEADLOCK FALSE
