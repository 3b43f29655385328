\* One partition lags another, as with the connector's three.
CONSTANTS
    Keys = {k1, k2}
    NBatches = 2
    MaxChanges = 4
    Overlap = FALSE
    TouchFirst = TRUE
    Absent = Absent
    Execs = {e1}
    Partition <- PartitionPerKey
    Repeat = FALSE
    AnyCutoff = FALSE
    NotBuilt = NotBuilt
SPECIFICATION Spec
CHECK_DEADLOCK FALSE
INVARIANT
    PublishedMatchesSource
