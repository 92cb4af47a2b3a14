SPECIFICATION Spec
CONSTANTS
    MaxHops = 6
    Entity <- MCEntity
    Anchor = "a"
    TimeEntities = {"a", "c"}
    NoRow = NoRow
    Categories <- MCCategories
    FloorCategories <- MCFloor
    Cases <- AllCases
INVARIANTS
    JoinsAreTopological
    NoGuessedJoin
    PlanIsUnionOfChains
    ReleasedIsClean
CHECK_DEADLOCK FALSE
