SPECIFICATION Spec
CONSTANTS
    Tables = {1, 2, 3, 4, 5}
    Cols = {"a", "b"}
    Entities = {"e1", "e2"}
    Keys <- MCKeys
    Joins <- MCJoins
    Versions <- MCVersions
    Stores <- MCStores
    Calls <- MCCalls
    Absent = Absent
    MaxHops = 3
    Limit = 1
    MaxCalls = 1
    MaxChanges = 2
    MaxFaults = 1
INVARIANTS
    MaskingFollowsTags
    PathsAreShortest
    QuietReplyIsExact
CHECK_DEADLOCK FALSE
