\* Loads that fail and are repeated while the snapshot may be rewritten.
CONSTANTS
    NEntities = 2
    NParts = 2
    MaxVersion = 2
    Attempts = 2
    Nothing = Nothing
SPECIFICATION FairSpec
INVARIANTS
    TypeOK
    LoadedIsListed
PROPERTY
    EventuallyLoaded
