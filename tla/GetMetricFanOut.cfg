SPECIFICATION Spec
CONSTANTS
    MaxHops = 6
    Entity <- MCEntity
    Anchor = "a"
    TimeEntities = {"a", "c"}
    NoRow = NoRow
    Categories <- MCCategories
    FloorCategories <- MCFloor
    Cases <- FanOutCases
INVARIANTS
    InheritanceKeepsRowCount
CHECK_DEADLOCK FALSE
