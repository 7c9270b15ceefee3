SPECIFICATION Spec
CONSTANTS
    Names <- MCNames
    Need <- MCNeed
    Hash <- PairCollides
    Limit = 10
    Smallest = 1
    DotsNeed = 2
    RootLimit = 2
    NodeLimit = 2
INVARIANTS
    TypeOK
    BlocksAreTiled
    NodesFresh
    FoundThroughIndex
    LeavesInHashOrder
PROPERTIES
    KeepsNames
CHECK_DEADLOCK FALSE
