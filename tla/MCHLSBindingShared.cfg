SPECIFICATION Spec
CONSTANTS
    Names <- MCNames
    Programs <- SharedPrograms
    Junk <- MCJunk
    INT_MIN <- MCIntMin
    INT_MAX = 127
PROPERTY SharedStable
