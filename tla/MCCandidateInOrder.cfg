\* Events arrive in commit order; two runs may execute at once.
CONSTANTS
    Keys = {k1, k2}
    NBatches = 2
    MaxChanges = 3
    Overlap = FALSE
    TouchFirst = FALSE
    Absent = Absent
    Execs = {e1, e2}
    Partition <- OnePartition
    Repeat = FALSE
    AnyCutoff = FALSE
    NotBuilt = NotBuilt
SPECIFICATION Spec
SYMMETRY KeysAndExecs
CHECK_DEADLOCK FALSE
INVARIANTS
    TypeOK
    PublishedMatchesSource
    SilverMatchesHistory
