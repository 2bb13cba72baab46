SPECIFICATION MCSpec
CONSTANTS
    kInnerMax = 2
    kReserve = 0
    kDeclare = 3
    kProfMaxDepth = 1
    Names = {"ok", "out"}
    Clocks = {TRUE}
    Residents = {FALSE}
    Fields = {"cpu"}
    ReReg = {}
    MaxBinds = 3
    MaxErrors = 1
INVARIANTS WindowInBounds WindowCovers JumpsSafe ReportExact
PROPERTIES ResetsInScope
