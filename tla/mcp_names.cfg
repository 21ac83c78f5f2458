CONSTANTS
    Calls = {c1, c2}
    x1 = x1
    m1 = m1
    m2 = m2
    i2 = i2
    none = none
    NoSession = none
    NoTool = none
    NoHash = none
    Malformed = Malformed
    NoText = NoText
    NotAnObject = NotAnObject
    Sessions <- MCSessions
    Tools <- MCTools
    Hashes <- MCHashes
    TTL = 0
    Contents <- MCContents
    ContentHash <- MCContentHash
    FindingsOf <- MCFindingsOf
    Rules <- MCRules
    OnError = "fail_closed"
    Agents <- MCAgents
    Services <- MCPrefixServices
    Jobs <- MCPrefixJobs
    Catalogs <- MCPrefixCatalogs
    Results <- MCResults
    MaxFaults = 0
SPECIFICATION Spec
INVARIANT RemovedWhateverItsName
CHECK_DEADLOCK FALSE
