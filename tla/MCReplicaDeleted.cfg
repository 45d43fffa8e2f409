SPECIFICATION ReplicaSpec
CONSTANTS
    Key = {k1, k2}
    Version = {v1}
    NoVersion = v0
    Writer = {}
    Nobody = Nobody
    NRetry = 1
    OldSeq = 1
    MaxSeq = 2
    PageSize = 1
    Faults = {}
    Apis = {"read", "write"}
    Tls = {"read"}
    BatchSize = 2
    MaxBoots = 1
    LifeFaults = {}
INVARIANTS
    NoDeletedServed
\* A server that has been stopped, and writers out of sequence numbers, stop.
CHECK_DEADLOCK FALSE
