SPECIFICATION RtlSpec
CONSTANTS
    Names <- MCNames
    Programs <- MCPrograms
    Junk <- MCJunk
    INT_MIN <- MCIntMin
    INT_MAX = 127
    RegWidth = 2
    Literals <- MCLiterals
    Environments <- MCEnvironments
    MaxResets = 2
INVARIANTS
    RtlTypeOK
    PhiSeesPredecessor
    NeverFallsThrough
PROPERTIES
    ControlFollowsProgram
    DoneIsFinal
    OneCycleReturns
    ExecutesProgram
