SPECIFICATION Spec
CONSTANTS
    Clients = {c1, c2}
    Faults = {"query"}
    Platforms = {"scm"}
PROPERTIES RestartLaunches
