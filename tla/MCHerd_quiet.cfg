SPECIFICATION Spec
CONSTANTS
    a = a
    b = b
    Nobody = nobody
    Instances <- MCInstances
    Types <- MCTypes
    TypeOf <- MCTypeOf
    Settings <- MCSettings
    Shapes <- MCShapes
    InitFiles <- QuietFiles
    Drafts <- NoDrafts
    Ports <- MCPorts
    ScanBase = 20
    ScanSpan = 1
    Contested = {20}
    Faults = {"stop", "timeout", "die"}
    MaxServers = 3
    MaxRegs = 3
INVARIANTS RowsAreRegistered PortRemembered ErrorsAttributed RunningIsEnabled
PROPERTIES DisableTouchesOwn FixedPortsFirst
