\* Three services, three targets, all dependencies and candidates.
CONSTANTS
    s1 = s1
    s2 = s2
    s3 = s3
    t1 = t1
    t2 = t2
    t3 = t3
    Services = {s1, s2, s3}
    Targets = {t1, t2, t3}
    NoNode = NoNode
    NameRank <- MCNameRank
    TableRank <- MCTableRank
    LinkRank <- MCLinkRank
    Inputs <- CutInputs
SPECIFICATION FairSpec
INVARIANTS
    TypeOK
    CutsAreExact
PROPERTIES
    TerminalsSeparated
    CutsAsDivision
    CutEnds
CHECK_DEADLOCK FALSE
