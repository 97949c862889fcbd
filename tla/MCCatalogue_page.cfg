SPECIFICATION FairSpec
CONSTANTS
    a = a
    good = good
    draft = draft
    sim = sim
    c1 = c1
    c2 = c2
    Nobody = nobody
    Absent = absent
    Torn = torn
    Instances <- MCInstances
    Clients <- MCClients
    Bodies <- AnyDriver
    Drivers <- MCDrivers
    DriverOf <- MCDriverOf
    KindOf <- MCKindOf
    Passing <- MCPassing
    Templates <- JustAdded
    InitDisk <- SomeFiles
    Faults = {"write", "supervisor", "build", "crash", "admin"}
INVARIANTS TypeOK SwitchIsReal NoOrphanProcess EnabledPasses RowsMatchFiles AddInheritsNothing
PROPERTIES RequestsEnd
