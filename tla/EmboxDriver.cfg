SPECIFICATION FairSpec
CONSTANTS
    Capacity = 2
    MaxScans = 3
INVARIANTS ScanSound AgreeWhenQuiet
PROPERTIES AbortsOwnScan ScanReportedUnlessLost
