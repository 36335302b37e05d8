SPECIFICATION ItgSpec
CONSTANTS
    Order <- MCOrder
    LabelOf <- MCLabelOf
    Doubled <- MCDoubled
    Inputs <- CycleInputs
    Nil = Nil
    SequentialHashTargets = {"@w//:f"}
    CriticalFiles = {"//p:p"}
    CommitTime <- Times
    Others <- Keys
INVARIANT UpdatedHashesAreFull
