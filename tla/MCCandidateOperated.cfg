\* As operated: batches overlap, partitions lag each other, and runs at any
\* cutoff are executed again and again, one execution at a time.
CONSTANTS
    Keys = {k1, k2}
    NBatches = 2
    MaxChanges = 2
    Overlap = TRUE
    TouchFirst = TRUE
    Absent = Absent
    Execs = {e1}
    Partition <- PartitionPerKey
    Repeat = TRUE
    AnyCutoff = TRUE
    NotBuilt = NotBuilt
SPECIFICATION FairSpec
CHECK_DEADLOCK FALSE
PROPERTIES
    ClosedCutoffIsFrozen
    CandidateStaysTrue
    PublishedStands
    EventuallyPublished
