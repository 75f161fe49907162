SPECIFICATION FairSpec
CONSTANTS
    MaxMaps = 3
    MaxLosses = 1
PROPERTIES
    NewestMapIsAdopted
    HdMapReturns
