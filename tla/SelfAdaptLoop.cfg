SPECIFICATION FairSpec
CONSTANTS
    Machines = {"m1", "m2"}
    Services = {"s1", "s2"}
    CommandLines <- AllOptions
    Faults = {"fail", "hash"}
    Nowhere = Nowhere
    NoManifest = NoManifest
    NoHash = NoHash
    NoOutput = NoOutput
INVARIANTS
    TypeOK
    HashMatchesDeployment
    IdsMatchDeployment
    NoStrayServices
PROPERTIES
    AdaptsToChanges
