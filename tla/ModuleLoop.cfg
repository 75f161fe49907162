SPECIFICATION FairSpec
CONSTANTS
    MaxFrames = 4
    Faults = {"preprocess", "standby", "input", "dispatch"}
INVARIANTS
    StatesHandedOn
    TrajectoriesPublishedInOrder
PROPERTIES
    IterationsEnd
