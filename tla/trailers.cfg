CONSTANTS
    MaxChunks = 2
    Exchanges <- MCExchanges
SPECIFICATION Spec
INVARIANT BodyPrecedesTrailers
CHECK_DEADLOCK FALSE
