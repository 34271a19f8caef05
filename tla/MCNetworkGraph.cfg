CONSTANTS
    Kinds = {Router}
    MaxNetworks = 1
    MaxComponents = 2
    MaxPorts = 2
    MaxConnections = 2
SPECIFICATION Spec
INVARIANT TypeOK
INVARIANT IdsResolve
INVARIANT PortLinkSound
