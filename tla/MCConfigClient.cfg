SPECIFICATION FairSpec
CONSTANTS
    Cfg = {k1, k2}
    Early = {k1}
    Server = {s1, s2}
    MaxVersion = 2
    Bad <- BadValues
    Faults = {"network", "delete"}
INVARIANTS
    LoadedIsComplete
    ContainersCurrent
PROPERTIES
    Converges
    StopEndsLoop
\* The client stops after StopClient.
CHECK_DEADLOCK FALSE
