SPECIFICATION RunSpec
CONSTANTS
    Names <- MCNames
    Files <- DocumentedFiles
    LabelOf <- MCLabelOf
    ArrayOf <- MCArrayOf
    Stray <- MCStray
    Programs <- MCPrograms
    Junk <- MCJunk
    INT_MIN <- MCIntMin
    INT_MAX = 127
INVARIANT Accepted
