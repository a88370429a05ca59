CONSTANTS
    Threads = {t1, t2}
    Sessions = {s1, s2}
    Sids = {i1, i2}
    Wild = {}
    IvSizes = {1, 2}
    NoThread = NoThread
    NoSession = NoSession
    NoSid = NoSid
SPECIFICATION FairSpec
INVARIANT HeldSidsAreLive
PROPERTY IoctlReturns
