SPECIFICATION Spec
CONSTANTS
    a = a
    b = b
    Nobody = nobody
    Instances <- MCInstances
    Types <- MCTypes
    TypeOf <- MCTypeOf
    Settings <- MCSettings
    Shapes <- MCShapes
    InitFiles <- FaultFiles
    Drafts <- NoDrafts
    Ports <- MCPorts
    ScanBase = 20
    ScanSpan = 2
    Contested = {10}
    Faults = {"register", "attach", "unregister", "timeout", "die", "early"}
    MaxServers = 2
    MaxRegs = 3
INVARIANTS TypeOK UniqueAddress NumbersCoverDevices NoOrphanDevice FrontEndsFollowRows ServedPortsAdvertised
PROPERTIES BookSpec DisableStops
