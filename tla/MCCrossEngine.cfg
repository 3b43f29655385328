\* Two entities, one of which may be empty; the source moves, reads may raise.
CONSTANTS
    NTargets = 2
    NEntities = 2
    AllowEmpty = {2}
    Keys = {k1}
    Values = {v1, v2}
    Bad = Bad
    Absent = Absent
    Deleted = Deleted
    None = None
    MaxWrites = 1
SPECIFICATION Spec
SYMMETRY ValueSymmetry
CHECK_DEADLOCK FALSE
INVARIANTS
    TypeOK
    PassedMeansIdentical
    DisagreementIsWarehouseSide
