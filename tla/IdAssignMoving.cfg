SPECIFICATION Spec
CONSTANTS
    Services = {"s1", "s2", "s3"}
    Targets = {"t1", "t2"}
    Resources = {"uids"}
    Rank <- MCRank
    Inputs <- MovingInputs
    Faults = {}
    NoId = NoId
    NoName = NoName
    NoPool = NoPool
    NoTable = NoTable
    Absent = Absent
    Broken = Broken
INVARIANTS
    MachineIdsUnique
