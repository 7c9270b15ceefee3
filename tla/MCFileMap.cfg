SPECIFICATION Spec
CONSTANTS
    extentFile = extentFile
    blockFile = blockFile
    Files <- MCFiles
    ExtentFiles <- MCExtentFiles
    BlockCount = 5
    MaxExtent = 2
    InlineMax = 1
    PerLeaf = 2
    Direct = 1
    PerBlock = 1
    Values = {a}
    Zero = Zero
    Other = Other
    InitialLists <- NoBlocks
    AttributeFiles <- MCExtentFiles
    Lengths = {2}
    Offsets = {1, 3}
    MaxLength = 3
    MaxFailures = 1
    DeviceFails = TRUE
INVARIANTS
    TypeOK
    OwnedIsUsed
    OwnedOnce
    NothingLeaks
    BlocksCounted
    
PROPERTIES
    KeepsPromise
CHECK_DEADLOCK FALSE
