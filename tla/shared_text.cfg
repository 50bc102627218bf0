SPECIFICATION SharedSpec
CONSTANTS
    Chars = {10, 26085}
    Sizes = {1, 2}
    GapInit = 2
    GapSpare = 1
    GapShare = 64
    Longest = 3
    Edits = 3
    Regions <- MCRegions
    Parses = 1
INVARIANTS TypeOK BudgetKept TreeFollows
PROPERTIES PlainTextSpec
CHECK_DEADLOCK FALSE
