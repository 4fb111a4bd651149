SPECIFICATION FairSpec
CONSTANTS
    Services = {"s1", "s2", "s3"}
    Targets = {"t1", "t2", "t3"}
    Rank <- MCRank
    Inputs <- CoverInputs
    NoTarget = NoTarget
    NoProperty = NoProperty
    Unknown = Unknown
    Multiple = 6
INVARIANTS
    TypeOK
    WithinHarmonicBound
PROPERTIES
    CoversByCandidates
    CoverTerminates
CHECK_DEADLOCK FALSE
