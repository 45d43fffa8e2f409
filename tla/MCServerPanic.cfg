SPECIFICATION Spec
CONSTANTS
    Cfg = {k1, k2}
    Sel = {sel}
    Opt = {}
    NoOpt = noOpt
    Request = {r1}
    MaxVersion = 2
    MaxKeys = 2
    BatchSize = 2
    Kinds = {"save", "delete"}
SYMMETRY ServerSymmetry
INVARIANTS
    NoPanic
\* The server stops after Shutdown.
CHECK_DEADLOCK FALSE
