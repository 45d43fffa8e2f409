SPECIFICATION FairSpec
CONSTANTS
    Key = {k1, k2}
    Version = {v1}
    NoVersion = v0
    Writer = {w1, w2}
    Nobody = Nobody
    NRetry = 2
    MaxSeq = 3
    PageSize = 2
    Faults = {"error", "truncate", "break"}
INVARIANTS
    PendingAboveCommitted
    OneFreshInsert
    NoMissedChange
    NoSendAfterStop
PROPERTIES
    CommitsAreWrites
    DeliveredInOrder
    CallsReturn
\* A pump that has been stopped, and writers out of sequence numbers, stop.
CHECK_DEADLOCK FALSE
