SPECIFICATION FairSpec
CONSTANTS
    CruiseIters = 2
    AlccIters = 2
    MaxCruiseFlag = 3
    MaxAlccFlag = 2
    Modes = {FALSE, TRUE}
    Assists = {"LCC", "ACC", "NOA"}
    Faults = {"job"}
    MaxRoutes = 2
    MaxL4Routes = 3
    MaxCommands = 1
PROPERTIES
    HandoverEnds
    RouteChangeAdopted
    CommandServed
