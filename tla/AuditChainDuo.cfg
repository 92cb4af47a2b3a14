CONSTANTS
    Procs = {p1, p2}
    Threads = {t1}
    Contents = {c1}
    BadShape = BadShape
    BadHash = BadHash
    NoThread = NoThread
    Damage = {"hash"}
    ClockStepsBack = FALSE
    MaxRows = 3
    MaxTime = 0
SPECIFICATION Spec
SYMMETRY Symmetry
CHECK_DEADLOCK FALSE
INVARIANTS ForksOnlyBetweenProcesses AckedRowsAreDurable
