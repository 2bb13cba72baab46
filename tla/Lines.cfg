SPECIFICATION LineSpec
CONSTANTS
    buff_len = 350
    TitleLens = {0, 179}
    HugeTitleLens = {247, 400}
    NameLens = {0, 34, 35, 100, 101}
    Depths = {0, 1, 5, 6}
    Holdings = {{}, {"cpu"}, {"mem", "user"}, {"cpu", "mem", "vm", "user"}}
    IdDigits = {3}
    Counts <- MCCounts
    TimeDigits = {1, 3, 8}
    HugeTimeDigits = {10}
    Sizes <- MCSizes
    MaxDepth = 5
    DescMax = 100
    Align = 35
INVARIANTS
    InBuffer
    LinesWhole
