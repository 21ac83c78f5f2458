CONSTANTS
    MaxChunks = 2
    Exchanges <- MCExchanges
SPECIFICATION FairSpec
INVARIANTS
    LlmTypeOK
    NothingLeavesUninspected
    BlockIsClean
    RepliesAreOrdered
    BodyComesBackIntact
PROPERTY WhatIsSentComesBack
CHECK_DEADLOCK FALSE
