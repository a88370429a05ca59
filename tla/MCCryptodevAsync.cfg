CONSTANTS
    Tasks = {t1, t2}
    Workers = {w1, w2}
    Items = {a, b}
    DefRing = 1
    MaxRing = 2
    MayFail = TRUE
    NoItem = NoItem
SPECIFICATION FairSpec
INVARIANTS TypeOK LinkedOnce JobsNoticed NoLostWakeup
PROPERTIES JobsComplete
