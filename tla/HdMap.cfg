SPECIFICATION FairSpec
CONSTANTS
    MaxMaps = 3
    MaxPatches = 2
    MaxLosses = 1
    Transforms = {1, 2}
INVARIANTS
    LatestPatchOnMap
PROPERTIES
    NewestMapIsAdopted
    PatchReachesMap
