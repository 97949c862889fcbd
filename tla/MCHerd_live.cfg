SPECIFICATION FairSpec
CONSTANTS
    a = a
    b = b
    Nobody = nobody
    Instances <- MCInstances
    Types <- MCTypes
    TypeOf <- MCTypeOf
    Settings <- MCSettings
    Shapes <- MCShapes
    InitFiles <- OneScan
    Drafts <- NewSettings
    Ports <- MCPorts
    ScanBase = 20
    ScanSpan = 2
    Contested = {10}
    Faults = {"early", "timeout", "build"}
    MaxServers = 2
    MaxRegs = 2
INVARIANTS WindowsApart
PROPERTIES SwitchReturns StartupCompletes
