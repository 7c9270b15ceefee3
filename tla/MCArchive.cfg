SPECIFICATION FairSpec
CONSTANTS
    Absent = Absent
    Paths <- MCPaths
    NameOrder <- MCNameOrder
    BLOCK = 2
    Chunk = 2
    Long <- MCLong
    Spills = {}
    Hides <- MCHides
    Opaque = ".wh..wh..opq"
    Ignored = {".wh..wh.plnk"}
    InlineLimit = 2
    SourceTrees <- MCPackable
    LowerTrees <- MCLowerTrees
    ToolHeaders <- MCToolHeaders
    ToolLabels = {{"all"}}
    UnknownSizes = {1, 2}
    Effort = 3
INVARIANTS TypeOK GotIsSent NothingMissing PackedInOrder RoundTrip LastWord StampStaysOnPath
PROPERTY KeepsLayer Ends
