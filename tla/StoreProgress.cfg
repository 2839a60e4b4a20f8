SPECIFICATION ProgressSpec
CONSTANTS
    Articles <- MCArticles
    Feeds <- ProgressFeeds
    InitialFeeds <- ProgressFeeds
    KeyValues <- MCKeyValues
    Histories <- MCHistories
    Bodies <- MCBodies
    Times <- MCTimes
    Writes <- ProgressWrites
    Calls <- Trio
    MaxConns = 2
    Blank = blank
    None = none
    NoRow = noRow
    a1 = a1
    a2 = a2
    f1 = f1
    f2 = f2
    f3 = f3
    h1 = h1
    h2 = h2
    v = v
    b1 = b1
    b2 = b2
    c1 = c1
    c2 = c2
    c3 = c3
    blank = blank
    none = none
    noRow = noRow
CHECK_DEADLOCK FALSE
PROPERTIES
    EveryTransactionEnds
    EveryCallReturns
