SPECIFICATION FairSpec
CONSTANTS
    N = 5
    Plans <- FivePlans
    Drawn <- DistinctIds
INVARIANTS
    ChildrenFirst
    WalkComplete
    DependenciesEarlier
    BatchesExact
PROPERTY
    Terminates
\* The functions return.
CHECK_DEADLOCK FALSE
