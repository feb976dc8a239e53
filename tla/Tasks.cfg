CONSTANTS
    None = None
    p1 = p1
    p2 = p2
    p3 = p3
    p4 = p4
    p5 = p5
    Creators = {p1, p2}
    MaxSeq = 3
    Contenders = {p1, p2, p3}
    Host <- Machines
    MaxTokens = 1
    StealersDie = FALSE
    Procs = {p1, p2, p3, p4, p5}
    Who <- Identities
    Agents = {"root", "worker", "ro"}
    Root = "root"
    ReadOnly = {"ro"}
    Owners = {"root"}
    Tasks = {"t", "u"}
    Criteria = {"c"}
    Commands <- Skills
    Landing <- Policies
    Mortal = TRUE
    MaxLog = 3
    MaxEvents = 2
    Kinds <- Reports
SPECIFICATION AnySpec
SYMMETRY Alike
INVARIANTS
    
    LogIsTrue
    
CHECK_DEADLOCK FALSE
