\* Two replicas' worth of hops over Redis, no expiry, one fault, one crash.
CONSTANTS
    h1 = h1
    h2 = h2
    h3 = h3
    s1 = s1
    t1 = t1
    none = none
    NoSession = none
    NoTool = none
    NoHash = "none"
    Hops = {h1, h2, h3}
    Sessions <- MCSessions
    Tools <- MCTools
    Hashes <- MCHashes
    Contents <- MCContents
    ContentHash <- MCContentHash
    FindingsOf <- MCFindingsOf
    Requests <- MCRequests
    Rules <- MCRules
    OnError = "fail_closed"
    TTL = 0
    Shared = TRUE
    MaxFaults = 1
    MaxCrashes = 1
SPECIFICATION Spec
SYMMETRY HopSymmetry
INVARIANTS
    TypeOK
    PoisonIsRemembered
    RemovedToolIsRefused
    AuditAccountsForTaint
PROPERTY PinIsKept
