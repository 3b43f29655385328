\* Every order of validations and promotions of three contexts, with failures.
CONSTANTS
    a = a
    b = b
    Contexts <- ThreeContexts
    NViews = 3
    Nothing = Nothing
SPECIFICATION DashboardSpec
INVARIANTS
    TypeOK
    RecordMatchesViews
    PublishedInOrder
    DashboardTypeOK
    PanelOfOnePublication
    PanelNeverAhead
PROPERTY
    Refines
