CONSTANTS
    t1 = t1
    t2 = t2
    k1 = k1
    k2 = k2
    repo = repo
    r1 = r1
    r2 = r2
    NoSession = NoSession
    NoPolicy = NoPolicy
    Tasks = {t1, t2}
    Checkouts = {k1, k2}
    Repository <- MCRepository
    RepositoryOf <- MCRepositoryOf
    Sessions <- SwarmSessions
    Parent <- SwarmParent
    Expires <- SwarmExpires
    Can <- SwarmCan
    Covers <- SwarmCovers
    Claims <- SwarmClaims
    Policies <- SwarmPolicies
    Channels = {}
    Revocable = {"V"}
    Rebindable = {t2}
    Acceptances = {}
    MaxFence = 3
    MaxTime = 2
SPECIFICATION Spec
INVARIANTS
    Exclusive
    SwarmWithinWip
PROPERTIES
    ImplementsFencedClaims
CHECK_DEADLOCK FALSE
