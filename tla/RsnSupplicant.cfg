SPECIFICATION Spec
CONSTANTS
    ANonces = {a, b}
    GTKs = {g, h}
    NoKey = NoKey
    MaxSNonce = 3
    MaxCounter = 3
INVARIANTS PtkInstalledOnce GtkNotReinstalled PortNeedsFreshKey NegotiationTimed
