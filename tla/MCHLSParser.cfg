SPECIFICATION RunSpec
CONSTANTS
    Names <- MCNames
    Files <- MCFiles
    LabelOf <- MCLabelOf
    ArrayOf <- MCArrayOf
    Stray <- MCStray
    Programs <- MCPrograms
    Junk <- MCJunk
    INT_MIN <- MCIntMin
    INT_MAX = 127
INVARIANTS
    ParserTypeOK
    BlocksDenoteFile
    ErrorIsFirstOffence
    NothingFromRefused
    DesignCloses
PROPERTIES
    ParsesGrammar
    GrammarIsSynthesised
