SPECIFICATION FairSpec
CONSTANTS
    c0 = c0
    c1 = c1
    p1 = p1
    p2 = p2
    native = native
    shell = shell
    none = none
    gen = gen
    r1 = r1
    r2 = r2
    w1 = w1
    w2 = w2
    HEAD = HEAD
    NoWorker = NoWorker
    NoGraph = NoGraph
    Corrupt = Corrupt
    Requests = {r1, r2}
    Kinds <- PinnedKinds
    Commits = {c0, c1}
    ChangeRequests = {p1, p2}
    Strategies = {native, shell}
    Implemented = {native}
    Excludes = {none, gen}
    Workers = {w1, w2}
    OriginHead = c0
    MaxCorruptions = 1
    Faulty = {r1}
INVARIANTS
    TreehashesFaithful
    GraphsFaithful
    ServedAsAsked
PROPERTIES
    BypassRecomputes
    CallsServed
