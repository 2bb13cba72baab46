SPECIFICATION NamesSpec
CONSTANTS
    buff_len = 60
    Entries = {1, 2}
    Lens = {0, 1, 3, 9}
    Behind = {0, 6}
    MaxTexts = 4
INVARIANTS
    FullIsReplaced
