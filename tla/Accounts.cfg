SPECIFICATION MCSpec
CONSTANTS
    Users <- MCUsers
    Subjects <- MCSubjects
    Feeds <- MCFeeds
    Sites <- MCSites
    SubscriptionIds <- MCSubscriptionIds
    Articles <- MCArticles
    Values <- MCValues
    Times <- MCTimes
    Writes <- MCWrites
    Calls <- MCCalls
    Blank = blank
    NoRow = noRow
    u1 = u1
    u2 = u2
    s1 = s1
    s2 = s2
    f1 = f1
    f2 = f2
    x = x
    y = y
    i1 = i1
    i2 = i2
    a = a
    v1 = v1
    v2 = v2
    c1 = c1
    c2 = c2
    c3 = c3
    c4 = c4
    blank = blank
    noRow = noRow
CHECK_DEADLOCK FALSE
SYMMETRY CallSymmetry
INVARIANTS
    TypeOK
    AccountRowsAreTraced
    AcksHold
    RefusalsAreFinal
    SeenWindow
PROPERTIES
    AccountBindingsNeverChange
