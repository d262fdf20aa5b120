SPECIFICATION WorldSpec
CONSTANTS
    sta = sta
    Stations = {sta}
    SNonces = {1, 2}
    NoKey = NoKey
    None = None
    Confs <- ApConfs
    Malformed = FALSE
    MaxANonce = 2
    MaxGtk = 4
    MaxCtr = 5
    MaxSNonce = 2
INVARIANTS Agreement CompletedHasPtk GroupKeyShared
PROPERTY ImplementsAgreement
