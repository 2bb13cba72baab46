SPECIFICATION FairSpec
CONSTANTS
    kInnerMax = 2
    kReserve = 4
    kDeclare = 0
    kInnerMergeCost = 1
    Amounts = {2}
    Costs = {1}
    AllowCycles = FALSE
    AllowLateInner = TRUE
    MaxRecords = 0
    MaxMerges = 1
INVARIANTS
    MergedClean
