SPECIFICATION Spec
CONSTANTS
    Absent = Absent
    Paths <- MCPaths
    NameOrder <- MCNameOrder
    BLOCK = 2
    Chunk = 2
    Long <- MCLong
    Spills <- MCLong
    Hides <- MCHides
    Opaque = ".wh..wh..opq"
    Ignored = {".wh..wh.plnk"}
    InlineLimit = 2
    SourceTrees <- MCPackable
    LowerTrees <- MCLowerTrees
    ToolHeaders <- MCToolHeaders
    ToolLabels = {{"all"}}
    UnknownSizes = {1}
    Effort = 1
INVARIANT GotIsSent
