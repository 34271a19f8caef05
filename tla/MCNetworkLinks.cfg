CONSTANTS
    Kinds = {Router}
    MaxNetworks = 1
    MaxComponents = 1
    MaxPorts = 2
    MaxConnections = 2
SPECIFICATION Spec


PROPERTY ImplementsNetworkLinks
