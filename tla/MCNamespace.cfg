SPECIFICATION Spec
CONSTANTS
    a = a
    b = b
    c = c
    Names <- MCNames
    BadNames <- MCBadNames
    InodeCount = 4
    BlockNames = 1
    MetadataCsum = TRUE
    AncestorSteps = 3
    LinkModulus = 65536
    MaxFailures = 2
    DeviceFails = TRUE
SYMMETRY NamesAlike
INVARIANTS
    TypeOK
    NamesPointAtInodes
    NoNameLost
    LinkCountsExact
    TreeShape
    NothingLeaks
    LeaksBounded
CHECK_DEADLOCK FALSE
