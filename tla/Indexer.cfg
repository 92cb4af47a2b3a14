SPECIFICATION Spec
CONSTANTS
    t1 = t1
    t2 = t2
    Tables = {t1, t2}
    Cols = {"c1"}
    Kinds = {"k1", "k2"}
    FloorCols <- MCFloorCols
    RunOptions <- TwoOptions
    Absent = Absent
    MaxDdl = 1
    MaxFailures = 1
    MaxOps = 2
INVARIANTS
    TypeOK
    CacheMatchesTable
    TagsMatchTable
PROPERTIES
    FinishedRunMirrorsSource
    OperatorRowsAreTheOperators
    StoreCatchesUp
