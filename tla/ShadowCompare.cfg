SPECIFICATION MCSpec
CONSTANTS
    n1 = n1
    n2 = n2
    n3 = n3
    n4 = n4
    n5 = n5
    Limits = {0, 1, 2}
    Names = {n1, n2, n3, n4, n5}
    Hashes = {"", "00", "h1"}
    Attrs = {"a0", "a1"}
    Requests <- AllRequests
    Gone = Gone
    Nil = Nil
    Labels <- MCLabels
    CutSets <- MCCutSets
    ForceAt = 3
INVARIANTS
    ResultIsReference
    DistancesTight
    DistancesOverGraph
    ShadowAgrees
    AlignmentExact
    ChangedExact
