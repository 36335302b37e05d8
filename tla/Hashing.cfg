SPECIFICATION ItgSpec
CONSTANTS
    Order <- MCOrder
    LabelOf <- MCLabelOf
    Doubled <- MCDoubled
    Inputs <- AllInputs
    Nil = Nil
    SequentialHashTargets = {"@x//:r"}
    CriticalFiles = {"//p:p"}
    CommitTime <- Times
    Others <- Keys
INVARIANTS
    HashTracksInputs
    HashesRepeatable
    NamesComplete
    IncrementalIsFull
    NearestBase
