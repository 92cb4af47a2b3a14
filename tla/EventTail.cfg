CONSTANTS
    Writers = {w1}
    Inodes = {i1, i2, i3}
    None = None
    MaxTokens = 3
    MaxEvents = 4
    Since = 2
    ReuseInodes = FALSE
SPECIFICATION TailSpec
CHECK_DEADLOCK FALSE
INVARIANTS PollingLosesNothing
PROPERTIES ActiveEventsAreDelivered
