\* One HTTP hop and one hop of a gRPC stream; one fault.
CONSTANTS
    h1 = h1
    h2 = h2
    h3 = h3
    s1 = s1
    t1 = t1
    none = none
    web = web
    stream = stream
    NoSession = none
    NoTool = none
    NoHash = "none"
    Hops = {h1, h2}
    Calls <- MCCalls
    Transport <- MCTransport
    CallOf <- MCCallOf
    Sessions <- MCSessions
    Tools <- MCTools
    Hashes <- MCHashes
    Contents <- MCContents
    ContentHash <- MCContentHash
    FindingsOf <- MCFindingsOf
    Requests <- MCStopRequests
    Rules <- MCRules
    OnError = "fail_closed"
    TTL = 0
    Shared = TRUE
    MaxFaults = 1
    MaxCrashes = 0
SPECIFICATION FairInspectorSpec
INVARIANTS
    InspectorTypeOK
    CutOnlyWhenTimeIsUp
    CleanExitAnsweredHttp
    AnsweredIsAudited
    AnsweredTaintIsStored
PROPERTIES
    RunReturns
    EveryHopReturns
CHECK_DEADLOCK FALSE
