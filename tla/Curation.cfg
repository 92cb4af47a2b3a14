SPECIFICATION MCSpec
CONSTANTS
    Absent = Absent
    None = None
    Bad = Bad
    Refused = Refused
    s1 = s1
    t1 = t1
    t2 = t2
    e1 = e1
    e2 = e2
    m1 = m1
    j1 = j1
    j2 = j2
    p1 = p1
    p2 = p2
    Procs = {p1, p2}
    Tables <- MCTables
    Entities <- MCEntities
    Cols = {"id", "ref"}
    Metrics <- MCMetrics
    Joins <- MCJoins
    Rank <- MCRank
    Shapes <- MCShapes
    Schemas <- MCSchemas
    Fks <- MCFks
    FkPrimary <- MCFks
    FkOwnKey = {}
    MediumFrequency = 1
    Statements <- MCStatements
    EntityAnswers <- MCEntityAnswers
    MetricAnswers <- MCMetricAnswers
    Trees <- MCTrees
    Manifests <- MCManifests
    RelName <- MCRelName
    MinManifest = 10
    MinMetricManifest = 11
    MaxCommands = 2
    MaxDdl = 1
    MaxDeaths = 1
    MaxCalls = 1
INVARIANTS
    ApplyLeavesGraphCurrent
    CheckIsExact
    CleanImportLands
    ExportedFilesParse
PROPERTIES
    DbtRowsStayDbt
SYMMETRY MCSymmetry
CHECK_DEADLOCK FALSE
