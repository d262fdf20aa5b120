SPECIFICATION FairSpec
CONSTANTS
    Stations = {s, t}
    SNonces = {1}
    NoKey = NoKey
    None = None
    Confs <- GroupConfs
    Malformed = FALSE
    MaxANonce = 2
INVARIANT CountsWaiting
PROPERTIES RekeyEnds HandshakeEnds
