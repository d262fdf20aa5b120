SPECIFICATION FairSpec
CONSTANTS
    Capacity = 2
    MaxScans = 1
PROPERTY ScanReported
