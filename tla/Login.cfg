SPECIFICATION AccSpec
CONSTANTS
    n1 = n1
    n2 = n2
    n3 = n3
    s1 = s1
    s2 = s2
    k1 = k1
    k2 = k2
    Names = {n1, n2, n3}
    NoName = NoName
    CharServers = {s1, s2}
    NoServer = NoServer
    Main = s1
    MAX_SERVERS = 2
    Clients = {k1, k2}
    StartAccounts <- MCAccounts
    StartGMs = {1}
    Limits <- MCLimits
    Owners = {1}
    CharSlots = {1, 2}
    StartMembers <- MCStartMembers
    VarNames = {1, 2}
    ACCOUNT_REG2_NUM = 2
INVARIANTS OfferedServersKnow IdsNameOneAccount VariablesAgree
PROPERTIES LoginIsAnswered
CHECK_DEADLOCK FALSE
