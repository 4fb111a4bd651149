SPECIFICATION Spec
CONSTANTS
    Machines = {"m1", "m2", "m3"}
    Services = {"s1", "s2", "s3"}
    ServiceModels <- AllModels
    Plans <- AllPlans
    Rank <- NameRank
    Priority <- Priorities
    Capable <- CapableOf
    Buildable <- BuildableOn
    Stateful = {"s1", "s2"}
    MaxAbsent = 1
    Failures <- AllFailures
    Nobody = Nobody
INVARIANTS
    TypeOK
    RoundRobinBalanced
PROPERTIES
    StatefulStays
