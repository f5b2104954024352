CONSTANTS
    Scripts <- MCScripts
    MAX_HEADERS = 3
SPECIFICATION Spec
INVARIANTS ReportsHeaders ParserIsExact
PROPERTY RecoversAfterError
CHECK_DEADLOCK FALSE
