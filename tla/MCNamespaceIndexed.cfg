SPECIFICATION Spec
CONSTANTS
    a = a
    b = b
    c = c
    Names <- MCNames
    BadNames <- MCBadNames
    InodeCount = 5
    BlockNames = 1
    MetadataCsum = TRUE
    AncestorSteps = 5
    LinkModulus = 65536
    MaxFailures = 1
    DeviceFails = FALSE
SYMMETRY NamesAlike
INVARIANT DotdotFollows
CHECK_DEADLOCK FALSE
