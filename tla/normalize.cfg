\* Three edits over every kind of pass, then a finding of a detector.  Six
\* bytes hold a JSON string with an escape between its brackets.
CONSTANTS
    Marker = Marker
    Length = 6
    Plain = 2
    Passes <- MCPasses
    Decodes <- MCDecodes
    Folds <- MCFolds
    MaxEdits = 3
    MaxFindings = 1
SPECIFICATION Spec
INVARIANTS
    NormalizeTypeOK
    
    RedactionIsExact
CHECK_DEADLOCK FALSE
