\* Two promote commands interleave with validations; one may crash.
CONSTANTS
    Promoters = {p1, p2}
    a = a
    b = b
    Contexts <- TwoContexts
    NViews = 2
    Serialized = FALSE
    Nothing = Nothing
    MaxClock = 2
    MaxCrashes = 1
SPECIFICATION Spec
SYMMETRY AnyPromoter
INVARIANTS
    ShownIsAccountedFor
PROPERTIES
    PublishedIsFinal
    ReturnedIsRecorded
