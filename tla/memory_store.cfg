\* One session, one tool, two hashes, marks that live two ticks.
CONSTANTS
    s1 = s1
    t1 = t1
    Sessions = {s1}
    Tools = {t1}
    Hashes = {"H1", "H2"}
    NoHash = "none"
    TTL = 2
    MaxNow = 8
SPECIFICATION MemorySpec
INVARIANT MemoryTypeOK
PROPERTY KeepsStorePromise
