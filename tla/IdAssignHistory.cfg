SPECIFICATION HistorySpec
CONSTANTS
    Services = {"s1", "s2", "s3"}
    Targets = {"t1", "t2"}
    Resources = {"ports"}
    Rank <- MCRank
    Inputs <- CrowdedInputs
    Faults = {"kill", "open", "write"}
    NoId = NoId
    NoName = NoName
    NoPool = NoPool
    NoTable = NoTable
    Absent = Absent
    Broken = Broken
PROPERTIES
    NoReuseBeforeLimit
    ImplementsRegistry
    RunsTerminate
