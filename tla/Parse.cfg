SPECIFICATION Spec
CONSTANTS
    Words <- MCWords
    Lower <- MCLower
    Instant <- MCInstant
    Number <- MCNumber
    ImageTypes <- MCImageTypes
    SourceURL <- MCSourceURL
    NoTime = noTime
    Documents <- MCDocuments
    MaxDepth = 4
    MaxNodes = 8
CHECK_DEADLOCK FALSE
INVARIANTS
    StackMirrorsDecoder
    LimitsAreExact
    ItemsAreAccountedFor
    ListsAreComplete
