SPECIFICATION Spec
CONSTANTS
    Thread = {t1, t2}
    MaxInt32 = 2
    NoRewindBelow = 1
    Counts = {0, 2, 3}
    ClockGoesBack = TRUE
    MaxTime = 2
CONSTRAINT FewIssued
SYMMETRY ThreadSymmetry
INVARIANTS
    Unique
PROPERTIES
    Increasing
    EarlierAreSafe
\* A thread may spin until a time beyond the bound.
CHECK_DEADLOCK FALSE
