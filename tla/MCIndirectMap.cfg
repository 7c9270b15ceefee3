SPECIFICATION Spec
CONSTANTS
    Direct = 2
    PerBlock = 2
    MaxLength = 18
INVARIANTS
    ReadsBack
    MapBlocksFound
    SizeForecast
CHECK_DEADLOCK FALSE
