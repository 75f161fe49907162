SPECIFICATION Spec
CONSTANTS
    Iters = 1
    MaxFlag = 2
    MaxPrepare = 2
    Wishes = {"LEFT"}
    Sides = {"LEFT"}
INVARIANTS
    StateAgrees
    PrepareIsBounded
    EndedStaysEnded
    StandstillClears
PROPERTIES
    CrossingIsKept
    SideIsKept
