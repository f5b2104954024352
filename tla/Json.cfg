CONSTANTS
    Values <- MCValues
    Bare <- MCBare
    Units <- MCUnits
    Sizes = {0, 1, 2, 3, 4, 5, 6, 7, 8, 9, 10, 11, 12, 13, 14, 15, 16, 17, 18, 19, 20}
    Mallocs = {0, 1, 2, 3, 4, 20}
    default_buffer_size = 6
    CJSON_NESTING_LIMIT = 2
SPECIFICATION MCSpec
INVARIANTS PrintingIsExact ReadingIsExact HeapIsSound  ImplementsForest
CHECK_DEADLOCK FALSE
