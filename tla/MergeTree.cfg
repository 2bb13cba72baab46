SPECIFICATION FairSpec
CONSTANTS
    kInnerMax = 2
    kReserve = 2
    kDeclare = 1
    kInnerMergeCost = 1
    Amounts <- MCAmounts
    Costs = {1}
    AllowCycles = FALSE
    AllowLateInner = FALSE
    MaxRecords = 1
    MaxMerges = 2
INVARIANTS TablesSound LeafsExact MergedClean
PROPERTIES MergeIsAtomic MergeReturns
