SPECIFICATION MCFairSpec
CONSTANTS
    Requests = {c1, c2}
    Kinds <- OneStrategyKinds
    Revisions = {"base", "pr", "same"}
    Trees = {"t1", "t2"}
    TreeOf <- MCTreeOf
    Strategies = {"native"}
    Implemented = {"native"}
    Excludes = {"none", "some"}
    MaxCorruptions = 1
    Faulty = {c1}
    NoTree = NoTree
    NoAnswer = NoAnswer
    Corrupt = Corrupt
INVARIANTS
    ComparedFaithful
    AnsweredAsAsked
    SuccessMeansBothGraphs
    ErrorsAreOriginal
    NothingLeftBehind
    SiblingCancelJustified
PROPERTIES
    CallsAnswered
    BypassRepairs
    FetchReturns
