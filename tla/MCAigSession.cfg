SPECIFICATION SessionSpec
CONSTANTS
    Networks <- MCNetworks
    Structures <- MCStructures
    MaxTrials = 2
    MaxElements = 3
    MaxSize = 5
INVARIANTS
    RewriteTypeOK
    FunctionsPreserved
    CountersExact
    BalancePreserves
    LevelsSound
PROPERTIES
    ImplementsTransform
    ImplementsBalance
    ImplementsStore
CHECK_DEADLOCK FALSE
