\* Bundles of up to three rules out of eight, hops with up to three findings;
\* three detectors; dictionaries of up to three terms, texts of five bytes;
\* three overlapping matches; every single mistake in numbers of their full
\* length; corpora of up to two cases, or of 200 labels,
\* before and after a change.
CONSTANTS
    Bundles <- MCBundles
    Inputs <- MCInputs
    Names <- MCNames
    Places = {"S1"}
    Lists <- MCLists
    Unnamed = "none"
    Dictionaries <- MCDictionaries
    Alphabet <- MCAlphabet
    MaxText = 5
    Detectors <- MCDetectors
    TypesOf <- MCTypesOf
    Backed <- MCBacked
    LastPart = 1
    TextLength = 4
    MaxMatches = 3
    AccountWindow = 1
    Patterns <- MCPatterns
    Kinds <- MCKinds
    Corpora <- MCCorpora
    Subset = "fast"
    OtherSubset = "ml"
    Tolerance = 50
SPECIFICATION AlgorithmsSpec
INVARIANTS
    OrderDoesNotMatter
    FindingsOnlyTighten
    MalformedDecidesNothing
    RunsInOrder
    FindsEveryOccurrence
    SuppressionIsSafe
    SingleErrorsCaught
    PassKeepsPassingCases
    PassLosesLittle
CHECK_DEADLOCK FALSE
