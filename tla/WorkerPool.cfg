SPECIFICATION FairSpec
CONSTANTS
    r1 = r1
    r2 = r2
    stranger = stranger
    NoReq = NoReq
    Requests = {r1, r2, stranger}
    Configured <- ConfiguredRequests
    PoolSize = 1
    MaxCrashes = 1
INVARIANTS
    MutualExclusion
    SlotConservation
    HandedOverClean
PROPERTIES
    OriginStable
    ImplementsWorkerLease
    LeaseReturns
