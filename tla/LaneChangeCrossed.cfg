SPECIFICATION Spec
CONSTANTS
    AlccIters = 2
    MaxAlccFlag = 2
    MaxPrepare = 2
    PrepareWhenBranchInvalid = TRUE
PROPERTY NoReturnAfterCrossing
