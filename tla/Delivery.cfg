CONSTANTS
    Parts = {"landing", "again", "through", "verified", "handed", "rivals", "relinked", "publication"}
    None = None
    Keys = {"k1", "k2", "k3"}
    Readers = {"o1", "o2"}
    Offered <- OfferedPolicies
    Asked <- AskedActions
    MaxGeneration = 2
    MaxRevision = 2
    Numbers = {1, 2}
    DecisionFiles = {"d"}
    FindingFiles = {"f"}
    Repositories = {"r1", "r2"}
    Commands = {"p", "q"}
    PushModes = {"tasks", "findings", "closure"}
    FiledTitles <- MayFile
    MaxIssues = 3
    MaxChanges = 3
    MaxStops = 1
SPECIFICATION AnySpec
INVARIANTS
    
    PublishedOnce
    ConsumedOnce

    
CHECK_DEADLOCK FALSE
