\* Every arrival order of eight events, with replays.
CONSTANTS
    Events <- SomeEvents
    Cutoff = 2
    None = None
SPECIFICATION Spec
INVARIANTS
    TypeOK
    FoldRanksFirst
    StatesAgree
