CONSTANTS
    Threads = {t1, t2, t3}
    Sessions = {s1, s2}
    Sids = {i1, i2}
    Wild = {i1, i2}
    IvSizes = {1, 2}
    NoThread = NoThread
    NoSession = NoSession
    NoSid = NoSid
SPECIFICATION Spec
SYMMETRY Symmetry
INVARIANTS TypeOK UsedSessionIsLive IvWithinSession NothingLost
PROPERTIES FreedWhenUnused ImplementsTable
