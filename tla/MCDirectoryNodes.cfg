SPECIFICATION Spec
CONSTANTS
    Names <- MCNames
    Need <- MCNeed
    Hash <- ThreeCollide
    Limit = 10
    Smallest = 1
    DotsNeed = 2
    RootLimit = 2
    NodeLimit = 2
INVARIANT FoundThroughIndex
CHECK_DEADLOCK FALSE
