CONSTANTS
    MaxPorts = 2
    Mem = {m1}
    Tasks = {t1}
    CtlBufs = 3
    MaxPlugs = 1
    MaxFlips = 0
    MaxProbes = 1
    NoMem = NoMem
SPECIFICATION Spec
CHECK_DEADLOCK FALSE
INVARIANT FoundIsThere
