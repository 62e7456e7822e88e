SPECIFICATION Spec
CONSTANTS
    Names <- MCNames
    Programs <- LivePrograms
    Junk <- MCJunk
    INT_MIN <- MCIntMin
    INT_MAX = 127
INVARIANT LiveRangesDisjoint
