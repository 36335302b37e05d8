SPECIFICATION MCSpec
CONSTANTS
    n1 = n1
    n2 = n2
    n3 = n3
    n4 = n4
    n5 = n5
    Limits = {1}
    Names = {n1, n2, n3, n4, n5}
    Hashes = {"", "00", "h1"}
    Attrs = {"a0", "a1"}
    Requests <- Detours
    Gone = Gone
    Nil = Nil
    Labels = {1}
    CutSets = {{}}
    ForceAt = 3
INVARIANT IdenticalOutput
