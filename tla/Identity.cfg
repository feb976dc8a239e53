CONSTANTS
    SessionIds = {s1, s2, s3}
    Actions = {a1}
    Resources = {r1, r2}
    NoParent = NoParent
    MaxTime = 2
    None = None
    Projects = {"p1", "p2", "p3"}
    Environments = {"e1"}
    Invitations = {"i1"}
    Assignments = {"s1", "s2"}
    Home <- Homes
    Subject <- Subjects
    Invited <- Invites
    Accounts = {"al", "bo"}
    Founders = {"al"}
    Asks <- AllAsks
    Clients = {c, d}
    RoleSets <- Reviewer
    Lists = {"projects", "p1"}
    Limit = 1
    Until = 1
    MaxCache = 1
    MaxVersion = 2
    MaxClock = 1
    MaxOrdinal = 4
    Releases <- Two
    Grants <- Some
    Scopes = {"organization", "team"}
    Teams <- AnyTeam
    Trusted = {"k"}
    Contents = {"a", "c"}
    Window = 1
    MaxDay = 1
    MaxSigned = 3
    MaxEntries = 4
    MaxPins = 2
    MaxMember = 2
    MaxStage = 1
SPECIFICATION AnySpec
INVARIANTS
    NoAmplification
    RegistryHolds
    TenancyHolds
PROPERTY DenialIsFinal
SYMMETRY ClientsAlike
CHECK_DEADLOCK FALSE
