SPECIFICATION Spec
CONSTANTS
    Colon = 2
    RestartInterval = 2
    ByteWidth = 2
    HashBytes = 2
    Graphs <- MCGraphs
    Procs = 3
    MinShard = 2
    DenseSlack = 2
    BlockSize = 1
    CutLabels <- MCCutLabels
    FrameSize = 16
    maxDictExpansionFactor = 1
    maxDictExpansionFloor = 6
    maxColumnRawSize = 60
    maxTotalRawFactor = 2
    maxTotalRawFloor = 80
    Readers = {r1, r2}
    Nil = Nil
SYMMETRY Symmetry
INVARIANTS
    LosslessOrRefused
    AccessorsAgree
    FindNodeExact
    BlobCanonical
