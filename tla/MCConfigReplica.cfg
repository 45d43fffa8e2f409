SPECIFICATION ReplicaFairSpec
CONSTANTS
    Key = {k1, k2}
    Version = {v1}
    NoVersion = v0
    Writer = {}
    Nobody = Nobody
    NRetry = 1
    OldSeq = 1
    MaxSeq = 3
    PageSize = 1
    Faults = {"error","truncate","break"}
    Apis = {"read", "write"}
    Tls = {"read"}
    BatchSize = 2
    MaxBoots = 2
    LifeFaults = {"pool","listen","crash"}
INVARIANTS
    StartsComplete
    SilentAfterShutdown
PROPERTIES
    Follows
    ReplicaCatchesUp
    ShutdownReturns
\* A server that has been stopped, and writers out of sequence numbers, stop.
CHECK_DEADLOCK FALSE
