SPECIFICATION FairSpec
CONSTANTS
    Starts <- MCStarts
    Releases <- MCReleases
    Names <- MCNames
    Scripts <- MCScripts
    Unwrapped <- MCUnwrapped
    MaxVersion = 2
    Blank = blank
    NoRow = noRow
    NoOne = noOne
    s1 = s1
    s2 = s2
    sql1 = sql1
    sql2 = sql2
    sql3 = sql3
    sql4 = sql4
    initial = initial
    renamed = renamed
    next = next
    blank = blank
    noRow = noRow
    noOne = noOne
CHECK_DEADLOCK FALSE
INVARIANTS
    LedgerIsSchema
    CheckedIsCurrent
PROPERTIES
    ImplementsHistory
    StartsReturn
