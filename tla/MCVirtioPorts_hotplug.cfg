CONSTANTS
    MaxPorts = 2
    Mem = {m1, m2}
    Tasks = {t1, t2}
    CtlBufs = 3
    MaxPlugs = 2
    MaxFlips = 1
    MaxProbes = 1
    NoMem = NoMem
SPECIFICATION Spec
SYMMETRY Symmetry
CHECK_DEADLOCK FALSE
INVARIANTS TypeOK  KrefExact GuestKnowsPorts HostKnowsOpen
