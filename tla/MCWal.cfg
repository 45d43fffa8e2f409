SPECIFICATION FairSpec
CONSTANTS
    Call = {c1, c2, c3}
    QueueSize = 2
    MaxOpens = 3
    Faults = {"error", "torn", "reopen"}
INVARIANTS
    LogInOrder
    CurrentCoversAcks
    AckedIsLogged
PROPERTIES
    WritesReturn
\* The process may be out of calls and of restarts.
CHECK_DEADLOCK FALSE
