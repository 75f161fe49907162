SPECIFICATION Spec
CONSTANTS
    CruiseIters = 2
    AlccIters = 2
    MaxCruiseFlag = 3
    MaxAlccFlag = 2
    Modes = {FALSE, TRUE}
    Assists = {"LCC", "ACC", "NOA"}
    Faults = {"map", "extend", "target", "projection", "collect", "schedule", "job"}
    MaxRoutes = 2
    MaxL4Routes = 4
    MaxCommands = 2
INVARIANTS
    TypeOK
    GetIsValid
    AlccNeverPlansOnNoaResult
    CommandReachesItsTask
    RouteChangeKept
PROPERTIES
    JobGivenUpOnlyInHandover
    SpeedRouteFollowsPath
