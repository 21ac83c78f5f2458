\* A token is expanded and a finding runs from the text into its payload.
CONSTANTS
    Marker = Marker
    Length = 5
    Plain = 2
    Passes <- MCPasses
    Decodes <- MCDecodes
    Folds <- MCFolds
    MaxEdits = 1
    MaxFindings = 1
SPECIFICATION Spec
INVARIANT SpanMapsToWhatProducedIt
CHECK_DEADLOCK FALSE
