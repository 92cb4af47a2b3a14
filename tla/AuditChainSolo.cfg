CONSTANTS
    Procs = {p1}
    Threads = {t1, t2}
    Contents = {c1, c2}
    BadShape = BadShape
    BadHash = BadHash
    NoThread = NoThread
    Damage = {"content", "shape"}
    ClockStepsBack = TRUE
    MaxRows = 3
    MaxTime = 1
SPECIFICATION Spec
SYMMETRY Symmetry
CHECK_DEADLOCK FALSE
INVARIANTS FullWalkIsExact SinceWalkCoversThreshold
PROPERTIES ImplementsLog
