CONSTANTS
    Tasks = {t1}
    Cells = {c1, c2}
    InBufs = {b1, b2}
    Pages = 1
    OutSize = 2
    CtlBufs = 2
    MaxCalls = 2
    Settings <- RefusedSettings
    NoTask = NoTask
    NoCell = NoCell
    NoBuf = NoBuf
SPECIFICATION FairSpec
PROPERTY IoctlReturns
