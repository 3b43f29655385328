\* Every form and damage of a message, restarts of the connector, crashes and
\* replays under two run ids, backfills at any time.
CONSTANTS
    k1 = k1
    k2 = k2
    Keys = {k1, k2}
    Absent = Absent
    MaxDay = 2
    Logs <- SourceLogs
    Partitions = {0, 1}
    PartitionOf <- ByKey
    Cutoffs = {1, 2}
    MaxResends = 1
    MaxCrashes = 1
    Nothing = Nothing
SPECIFICATION FairSpec
INVARIANTS
    TypeOK
    NothingLost
    SnapshotReadsPrefix
    SnapshotShowsLastChange
    BackfillCoversCommitted
PROPERTIES
    EventuallyCommitted
    ImplementsArchive
