\* Services without dependencies.
CONSTANTS
    s1 = s1
    s2 = s2
    s3 = s3
    s4 = s4
    s5 = s5
    h1 = h1
    h2 = h2
    h3 = h3
    h4 = h4
    Services = {s1, s2, s3, s4, s5}
    Hostnames = {h1, h2, h3, h4}
    NoHost = NoHost
    NoNode = NoNode
    Rank <- MCRank
    Inputs <- IndependentInputs
SPECIFICATION FairSpec
PROPERTIES
    ColoringEnds
CHECK_DEADLOCK FALSE
