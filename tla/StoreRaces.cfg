SPECIFICATION RacesSpec
CONSTANTS
    Articles <- MCArticles
    Feeds <- MCFeeds
    InitialFeeds <- MCInitialFeeds
    KeyValues <- MCKeyValues
    Histories <- MCHistories
    Bodies <- MCBodies
    Times <- MCTimes
    Writes <- MCWrites
    Calls <- Trio
    MaxConns = 3
    Blank = blank
    None = none
    NoRow = noRow
    a1 = a1
    a2 = a2
    f1 = f1
    f2 = f2
    f3 = f3
    h1 = h1
    h2 = h2
    v = v
    b1 = b1
    b2 = b2
    c1 = c1
    c2 = c2
    c3 = c3
    blank = blank
    none = none
    noRow = noRow
CHECK_DEADLOCK FALSE
SYMMETRY CallSymmetry
INVARIANTS
    TypeOK
    LocksAreExclusive
    ScopesAgree
    AckedIsDurable
    NothingHalfWritten
    RetrievalWindow
    RejectionIsFinal
    DeadlockNeedsKeyDisorder
PROPERTIES
    BindingsNeverChange
    ImplementsRegistry
