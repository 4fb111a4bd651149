SPECIFICATION Spec
CONSTANTS
    Services = {"s1", "s2", "s3"}
    Targets = {"t1", "t2"}
    Resources = {"ports", "gids", "uids"}
    Rank <- MCRank
    Inputs <- UpdateInputs
    Faults = {"open", "write"}
    NoId = NoId
    NoName = NoName
    NoPool = NoPool
    NoTable = NoTable
    Absent = Absent
    Broken = Broken
INVARIANTS
    TypeOK
    GlobalIdsUnique
    IdsCorrect
    FailedRunKeepsFile
PROPERTIES
    ValidIdsRetained
    DepletedOnlyWhenFull
