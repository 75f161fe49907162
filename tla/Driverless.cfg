SPECIFICATION TasksSpec
CONSTANTS
    MaxPaths = 2
    Stops = {"road", "depart", "park", "off_road"}
    ThreePointTurn = TRUE
    MaxRoutes = 2
    MaxRequests = 1
    MaxFaults = 1
    MaxTakeovers = 1
INVARIANTS
    RestOfMission
    PlansForCurrentTask
CHECK_DEADLOCK FALSE
