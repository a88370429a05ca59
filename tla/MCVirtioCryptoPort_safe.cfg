CONSTANTS
    Tasks = {t1, t2}
    Cells = {c1, c2, c3}
    InBufs = {b1, b2}
    Pages = 1
    OutSize = 2
    CtlBufs = 1
    MaxCalls = 3
    Settings <- SafeSettings
    NoTask = NoTask
    NoCell = NoCell
    NoBuf = NoBuf
SPECIFICATION Spec
SYMMETRY Symmetry
CHECK_DEADLOCK FALSE
INVARIANTS TypeOK AnswerIsOwn InBufsOnce QueuedIsAllocated  SleepersWoken FullIsFull
