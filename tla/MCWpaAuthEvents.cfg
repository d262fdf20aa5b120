SPECIFICATION Spec
CONSTANTS
    Stations = {s}
    SNonces = {1, 2}
    NoKey = NoKey
    None = None
    Confs <- StationConfs
    Malformed = TRUE
    MaxANonce = 2
INVARIANTS TypeOK Settled
PROPERTY InstallsConfirmed
