SPECIFICATION Spec
CONSTANTS
    extentFile = extentFile
    blockFile = blockFile
    Files <- MCFiles
    ExtentFiles <- MCExtentFiles
    BlockCount = 6
    MaxExtent = 2
    InlineMax = 1
    PerLeaf = 2
    Direct = 1
    PerBlock = 1
    Values = {a}
    Zero = Zero
    Other = Other
    InitialLists <- NoBlocks
    AttributeFiles = {}
    Lengths = {2}
    Offsets = {1, 3}
    MaxLength = 3
    MaxFailures = 1
    DeviceFails = FALSE
INVARIANT MapSurvivesFailure
CHECK_DEADLOCK FALSE
