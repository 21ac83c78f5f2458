\* One process with its marks in memory, which expire.
CONSTANTS
    h1 = h1
    h2 = h2
    h3 = h3
    s1 = s1
    t1 = t1
    none = none
    NoSession = none
    NoTool = none
    NoHash = "none"
    Hops = {h1, h2, h3}
    Sessions <- MCSessions
    Tools <- MCTools
    Hashes <- MCHashes
    Contents <- MCContents
    ContentHash <- MCContentHash
    FindingsOf <- MCFindingsOf
    Requests <- MCFewRequests
    Rules <- MCRules
    OnError = "fail_closed"
    TTL = 2
    Shared = FALSE
    MaxFaults = 0
    MaxCrashes = 0
SPECIFICATION Spec
SYMMETRY HopSymmetry
INVARIANTS
    DriftIsReported
    PoisonIsRemembered
    RemovedToolIsRefused
