SPECIFICATION FairSpec
CONSTANTS
    Clients = {c1, c2}
    Faults = {"command", "leave"}
    Platforms = {"systemd", "launchd", "scm"}
INVARIANTS OneDriver
PROPERTIES SupervisorSpec StopSticks CallsReturn
