SPECIFICATION Spec
CONSTANTS
    Types <- MCTypes
    PortNames <- MCPorts
    Entries <- MCEntries
    MaxEntries = 3
INVARIANTS CheckPredicts
CHECK_DEADLOCK FALSE
