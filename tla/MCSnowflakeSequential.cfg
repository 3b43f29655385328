\* One promote command at a time, beside validations; any of them may crash.
CONSTANTS
    Promoters = {p1}
    a = a
    b = b
    Contexts <- ThreeContexts
    NViews = 2
    Serialized = TRUE
    Nothing = Nothing
    MaxClock = 3
    MaxCrashes = 1
SPECIFICATION FairSpec
INVARIANTS
    TypeOK
    AllOrNothing
    RecordNeverAhead
    OneRowPerRun
PROPERTIES
    Refines
    PendingResolves
