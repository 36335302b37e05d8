SPECIFICATION MCSpec
CONSTANTS
    Requests = {c1, c2}
    Kinds <- BothStrategiesKinds
    Revisions = {"base", "pr", "same"}
    Trees = {"t1", "t2"}
    TreeOf <- MCTreeOf
    Strategies = {"native", "shell"}
    Implemented = {"native"}
    Excludes = {"none"}
    MaxCorruptions = 0
    Faulty = {}
    NoTree = NoTree
    NoAnswer = NoAnswer
    Corrupt = Corrupt
INVARIANTS
    AnsweredAsAsked
