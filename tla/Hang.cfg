CONSTANTS
    Kinds = {"initialize", "ping"}
    Tools = {"identity"}
    Profiles = {"plain"}
    Slots = 1
    MaxFrames = 3
SPECIFICATION FairSpec
PROPERTY EofReturns
CHECK_DEADLOCK FALSE
