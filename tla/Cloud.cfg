CONSTANTS
    None = None
    MaxGeneration = 3
    MaxTask = 1
    MaxPublished = 3
    MaxBatch = 2
    MaxPage = 1
    MaxCrashes = 2
    Envelopes <- Colliding
    Signers = {"s", "t"}
    Cursors = {0, 2}
    ReplayFloor = 1
    MaxOpens = 4
    MaxFailures = 2
    Deliveries = {"d", "e"}
    Bodies <- Issues
    Repos = {"r", "s"}
    Projects = {"x", "y"}
    StatusKeys = {1, 2}
    CheckStates = {"queued", "completed"}
    Kinds = {"initialize", "invalid", "notification", "tools/list", "tools/call"}
    Tools = {"identity", "start_loop", "acquire_lease", "propose_review", "request_verification", "correlate_dispatch", "no_such_tool"}
    Profiles = {"plain", "runner", "review", "controller", "bridge", "worker"}
    Slots = 1
    MaxFrames = 2
    Agent = "p"
    Lifetime = 2
    Safety = 1
    Window = 2
    MaxInterval = 2
    MaxTime = 3
    MaxSessions = 3
    MaxRequests = 4
    w1 = w1
    w2 = w2
SPECIFICATION AnySpec
SYMMETRY Alike
INVARIANTS
    NoTombstoneDropped
    InboxIsConsistent
    BridgeKeepsFaith
    FramesAccountedFor
    
PROPERTIES
    ImplementsDurableQueue
CHECK_DEADLOCK FALSE
