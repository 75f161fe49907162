SPECIFICATION TasksSpec
CONSTANTS
    MaxPaths = 2
    Stops = {"road", "depart", "park", "off_road"}
    ThreePointTurn = TRUE
    MaxRoutes = 1
    MaxRequests = 1
    MaxFaults = 1
    MaxTakeovers = 1
INVARIANT QueueCheckHolds
CHECK_DEADLOCK FALSE
