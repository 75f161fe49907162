SPECIFICATION FairSpec
CONSTANTS
    OnRoad = {m1}
    OffRoad = {p}
    Reset = Reset
    None = None
    NumDests = 4
    Stops = {1, 3}
    MaxRetryTimes = 1
    RerouteTicks = 2
    MaxId = 1
INVARIANTS
    RouteOfMission
PROPERTIES
    NewRouteNewId
    PendingIsRoutedOrReplaced
    ResetIsKept
    RequestIsServed
