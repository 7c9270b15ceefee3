SPECIFICATION Spec
CONSTANTS
    GroupCount = 2
    BlocksPerGroup = 4
    BlocksCount = 8
    FirstDataBlock = 1
    InodesPerGroup = 1
    RootIno = 1
    FirstIno = 2
    Metadata <- MCMetadata
    Goals <- MCGoals
    MaxFailures = 1
INVARIANTS
    TypeOK
    CountersInStep
    UnusedTailIsUnused
    UninitGroupHasNoData
    ChangedIsDirty
    FlushedImageExact
    NoSpaceOnlyWhenFull
    SilentDropKeepsBitmaps
CHECK_DEADLOCK FALSE
