SPECIFICATION Spec
CONSTANTS
    Services = {"s1", "s2", "s3"}
    Targets = {"t1", "t2", "t3"}
    Rank <- MCRank
    Inputs <- DivideInputs
    NoService = NoService
    NoTarget = NoTarget
    NoProperty = NoProperty
    Unknown = Unknown
INVARIANTS
    TypeOK
    NotOvercommitted
    StrategyFollowed
PROPERTIES
    DividesOverCandidates
CHECK_DEADLOCK FALSE
