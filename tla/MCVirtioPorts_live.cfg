CONSTANTS
    MaxPorts = 2
    Mem = {m1}
    Tasks = {t1}
    CtlBufs = 3
    MaxPlugs = 1
    MaxFlips = 2
    MaxProbes = 2
    NoMem = NoMem
SPECIFICATION FairSpec
CHECK_DEADLOCK FALSE
PROPERTIES PortsAppear OpenReturns
