\* Timers of five and four frames and an integral that fills in four: modes
\* are switched by counting in both directions and integrals saturate.
CONSTANTS
    AccCounterThreshold = 5
    DecCounterThreshold = 4
    EnableClosedLoopAcc = TRUE
    Windup = 4
SPECIFICATION Spec
INVARIANTS
    TypeOK
    IntegralOfThisMode
PROPERTIES
    ModeHasDwelt
    CommandIsFollowed
