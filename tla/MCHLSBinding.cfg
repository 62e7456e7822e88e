SPECIFICATION Spec
CONSTANTS
    Names <- MCNames
    Programs <- MCPrograms
    Junk <- MCJunk
    INT_MIN <- MCIntMin
    INT_MAX = 127
INVARIANTS
    TypeOK
    RegistersInRange
    RootsDistinct
    RepeatFreeIssued
    AsapLevels
    InNumExact
    TerminatorLast
    PlainOperandsReady
PROPERTIES
    ReleasedWithLastOperation
    ImplementsDataflowOrder
    Terminates
