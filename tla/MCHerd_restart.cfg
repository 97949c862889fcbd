SPECIFICATION Spec
CONSTANTS
    a = a
    b = b
    Nobody = nobody
    Instances <- MCInstances
    Types <- MCTypes
    TypeOf <- MCTypeOf
    Settings <- MCSettings
    Shapes <- MCShapes
    InitFiles <- SharedFlat
    Drafts <- NewSettings
    Ports <- MCPorts
    ScanBase = 20
    ScanSpan = 2
    Contested = {10}
    Faults = {}
    MaxServers = 2
    MaxRegs = 3
PROPERTIES RestartsOwn
