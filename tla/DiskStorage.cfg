SPECIFICATION Spec
CONSTANTS
    Keys = {"a", "b"}
    Puts = {p1, p2}
    Gets = {g1, g2}
    TempNames = {t1, t2}
    Chunks = 2
    MaxCrashes = 1
    NoFile = NoFile
    NoName = NoName
SYMMETRY CallSymmetry
INVARIANTS
    BlobsWhole
    ListBracketed
PROPERTIES
    ImplementsBlobStore
