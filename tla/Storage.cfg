SPECIFICATION FairSpec
CONSTANTS
    a1 = a1
    c1 = c1
    c2 = c2
    m1 = m1
    MapServers = {m1}
    Accounts = {a1}
    NoAccount = NoAccount
    Characters = {c1, c2}
    NoChar = NoChar
    Owner <- OwnerOfBoth
    Bag <- MCBag
    Pieces = {1, 2}
    Limit <- MCLimit
INVARIANTS SavedTogether CleanIsSaved OpenIsMarked
PROPERTIES NotOverwritten ClosedIsSaved
CHECK_DEADLOCK FALSE
