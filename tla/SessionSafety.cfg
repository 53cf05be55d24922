SPECIFICATION Spec
CONSTANTS
    a1 = a1
    a2 = a2
    c1 = c1
    c2 = c2
    c3 = c3
    m1 = m1
    m2 = m2
    k1 = k1
    k2 = k2
    MapServers = {m1}
    Accounts = {a1, a2}
    NoAccount = NoAccount
    Characters = {c1, c2}
    NoChar = NoChar
    Conns = {k1, k2}
    Owner <- OwnerOfEach
    Start = m1
    Roster <- TwoAccounts
    CharFifo = 2
    MapFifo = 2
    Orderly = FALSE
    Booted = FALSE
    Limits <- OnlyChurn
INVARIANTS BelongsTogether OnlyOwnCharacters AdmittedByLogin LoginOpensOneSession
CHECK_DEADLOCK FALSE
SYMMETRY Symmetry
