SPECIFICATION FairSpec
CONSTANTS
    Cfg = {k1, k2}
    Sel = {sel}
    Opt = {opt}
    NoOpt = noOpt
    Request = {r1}
    MaxVersion = 2
    MaxKeys = 2
    BatchSize = 2
    Kinds = {"save", "delete"}
INVARIANTS
    NoStaleListener
    ListenerUpToDate
    ChannelSuffices
PROPERTIES
    UpdatesWake
    ShutdownEnds
\* The server stops after Shutdown.
CHECK_DEADLOCK FALSE
