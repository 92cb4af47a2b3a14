SPECIFICATION Spec
CONSTANTS
    t1 = t1
    Tables = {t1}
    Cols = {"c1"}
    Kinds = {"k1", "k2"}
    FloorCols <- MCFloorCols
    RunOptions <- FullOptions
    Absent = Absent
    MaxDdl = 1
    MaxFailures = 0
    MaxOps = 1
PROPERTIES
    ReindexKeepsCuration
