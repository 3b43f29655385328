\* A published run is executed again.
CONSTANTS
    Keys = {k1, k2}
    NBatches = 2
    MaxChanges = 3
    Overlap = FALSE
    TouchFirst = TRUE
    Absent = Absent
    Execs = {e1}
    Partition <- OnePartition
    Repeat = TRUE
    AnyCutoff = FALSE
    NotBuilt = NotBuilt
SPECIFICATION Spec
CHECK_DEADLOCK FALSE
PROPERTY
    PublishedIsStable
