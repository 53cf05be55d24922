SPECIFICATION ReconnectSpec
CONSTANTS
    a1 = a1
    a2 = a2
    c1 = c1
    c2 = c2
    c3 = c3
    m1 = m1
    m2 = m2
    k1 = k1
    k2 = k2
    MapServers = {m1, m2}
    Accounts = {a1}
    NoAccount = NoAccount
    Characters = {c1, c2, c3}
    NoChar = NoChar
    Conns = {k1}
    Owner <- OwnerOfThree
    Start = m1
    Roster <- TwoChars
    CharFifo = 2
    MapFifo = 2
    Orderly = TRUE
    Booted = TRUE
    Limits <- AnyOrder
INVARIANTS OfferIsBacked KeyMatchesSession
PROPERTIES SavesNeverGoBack SelectionIsAnswered ServersFindEachOther
CHECK_DEADLOCK FALSE
