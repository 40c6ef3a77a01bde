CONSTANTS
    mid = mid
    left = left
    right = right
    Order <- JrOrder
    DefaultAddress = 41
    Address <- JrAddress
    SPAD_MAP_ROW_COUNT = 2
    SPAD_ROW_SIZE = 2
    SPAD_MAX_COUNT = 3
    SPAD_APERTURE_START_INDEX = 1
    Nvms <- MCNvms
    MaxFaults = 1
    MaxResets = 2
SPECIFICATION FairSpec
INVARIANTS
    TypeOK
    HeardByOne
    OkMeansReady
    
PROPERTY
    ComesUp
