SPECIFICATION EntrySpec
CONSTANTS
    buff_len = 60
    Entries = {1, 2}
    Lens = {0, 1, 3, 9}
    Behind = {0, 6}
    MaxTexts = 5
    LLONG_MAX = 1000
    Ticks <- MCTicks
    Batches <- MCBatches
    Levels = {"normal", "fast", "full"}
    Stamps = {2, 5, 30}
    MaxRecords = 4
INVARIANTS NamesKept TitleKept
INVARIANTS SmoothInRange  TimerExact
