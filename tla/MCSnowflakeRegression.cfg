\* A crash after the swap, then an older batch.
CONSTANTS
    Promoters = {p1}
    a = a
    b = b
    Contexts <- TwoContexts
    NViews = 2
    Serialized = TRUE
    Nothing = Nothing
    MaxClock = 3
    MaxCrashes = 1
SPECIFICATION Spec
PROPERTIES
    NewerBatchNeverReplaced
