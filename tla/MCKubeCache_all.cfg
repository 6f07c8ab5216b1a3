SPECIFICATION FairSpec
CONSTANTS
    Kinds = 2
    States <- MCStates
    Feeds = {f}
    Reads = {v}
    MaxScopes = 4
    Cap = 3
    MaxEdits = 1
    MaxFaults = 1
    None = None
    pod1 = pod1
    pod2 = pod2
    pod3 = pod3
    node1 = node1
    node2 = node2
INVARIANTS
    TypeOK
    CopyTrue
PROPERTIES
    FeedCurrent
CHECK_DEADLOCK FALSE
