CONSTANTS
    Kinds = {Router}
    MaxNetworks = 2
    MaxComponents = 2
    MaxPorts = 1
    MaxConnections = 1
SPECIFICATION Spec
INVARIANT IdsResolve
INVARIANT PortLinkSound
