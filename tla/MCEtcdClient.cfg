SPECIFICATION FairSpec
CONSTANTS
    Node = {n1, n2}
    LockKey = {lock}
    DataKey = {data}
    Other = other
    NoValue = noValue
    MaxLease = 3
    WatchBufferSize = 1
    MaxBehind = 0
    Faults = {"error", "crash", "close"}
INVARIANTS
    SecureLeads
    MirrorFollows
PROPERTIES
    LeaderFreed
