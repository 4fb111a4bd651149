SPECIFICATION Spec
CONSTANTS
    Services = {"s1", "s2", "s3"}
    Tokens = {"x", "y"}
    Kinds = {"dependsOn", "connectsTo"}
    Models <- AllModels
    Faults = {"write"}
INVARIANTS
    TypeOK
    GroupsAreQuotient
    NoDanglingEdges
    LinksLeadToPages
CHECK_DEADLOCK FALSE
