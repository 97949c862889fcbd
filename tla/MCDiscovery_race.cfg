SPECIFICATION Spec
CONSTANTS
    Loops = {v4, v6}
    Ports = {1}
    Insts = {"i"}
    NoName = "noname"
    None = None
    Beats <- MCBeats
    TTL = 0
INVARIANTS MutexGuardsSet
