SPECIFICATION Spec
CONSTANTS
    Functions = {f, g}
    Unknown = Unknown
    Handles = {h1, h2, h3, h4}
    MaxSize = 1
    MaxElements = 3
SYMMETRY HandleSymmetry
INVARIANTS
    StoreTypeOK
    CurrentExists
    Lineage
PROPERTY OthersKept
