SPECIFICATION Spec
CONSTANTS
    Words <- MCWords
    Inputs <- MCInputs
    MaxArticles = 4
CHECK_DEADLOCK FALSE
INVARIANTS
    MergesAreSupported
    NoUnnoticedDuplicate
    SourcesMeetAtBars
