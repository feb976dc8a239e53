CONSTANTS
    t1 = t1
    t2 = t2
    k1 = k1
    k2 = k2
    repo = repo
    r1 = r1
    r2 = r2
    NoSession = NoSession
    NoPolicy = NoPolicy
    Tasks = {t1, t2}
    Checkouts = {k1, k2}
    Repository <- MCRepository
    RepositoryOf <- MCRepositoryOf
    Sessions <- DispatchSessions
    Parent <- DispatchParent
    Expires <- DispatchExpires
    Can <- DispatchCan
    Covers <- DispatchCovers
    Claims <- DispatchClaims
    Policies <- DispatchPolicies
    Channels = {"owner-manual-native-host"}
    Revocable = {"C"}
    Rebindable = {}
    Acceptances = {TRUE}
    MaxFence = 4
    MaxTime = 2
SPECIFICATION Spec
INVARIANTS
    RecoveredHoldsNothing
    StopIsNotOvertaken
PROPERTIES
    WithdrawnIsInert
CHECK_DEADLOCK FALSE
