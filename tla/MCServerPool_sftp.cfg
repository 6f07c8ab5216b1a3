SPECIFICATION FairSpec
CONSTANTS
    r1 = r1
    r2 = r2
    h1 = h1
    h2 = h2
    k1 = k1
    k2 = k2
    None = None
    Requests <- MCRequests
    Hosts <- MCHosts
    Keys <- MCKeys
    Slots = 2
    MaxOps = 1
INVARIANT SftpEvictionReachesAll
CHECK_DEADLOCK FALSE
