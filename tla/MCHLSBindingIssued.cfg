SPECIFICATION Spec
CONSTANTS
    Names <- MCNames
    Programs <- RepeatPrograms
    Junk <- MCJunk
    INT_MIN <- MCIntMin
    INT_MAX = 127
INVARIANT AllIssued
