SPECIFICATION FairSpec
CONSTANTS
    None = None
    Streams = 2
    Links = 2
    Limits = {1}
    MaxSent = 1
    MaxFaults = 1
INVARIANTS
    TypeOK
    RevokedCut
    HonestAgentKept
PROPERTIES
    Pipes
    EndsTogether
CHECK_DEADLOCK FALSE
