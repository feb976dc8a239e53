CONSTANTS
    None = None
    Callers = {"a", "b"}
    Servers = {"s1", "s2"}
    Home <- HomeOf
    Keys = {"k"}
    Grants = {"g"}
    Contents = {"tree"}
    Dirty = "dirty"
    MaxJobs = 1
    MaxLease = 2
    MaxRevision = 2
    Owners = {"o"}
    Reviewers = {"r"}
    Decisions = {"d"}
    Policies <- PolicyTable
    MaxVersion = 1
    MaxCrashes = 1
SPECIFICATION AnySpec
INVARIANT OneExecution
 
CHECK_DEADLOCK FALSE
