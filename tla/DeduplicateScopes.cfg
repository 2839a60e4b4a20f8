SPECIFICATION Spec
CONSTANTS
    Words <- MCWords
    Inputs <- MCInputs
    MaxArticles = 2
CHECK_DEADLOCK FALSE
INVARIANT SourcesStayApart
