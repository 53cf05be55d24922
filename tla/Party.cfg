SPECIFICATION TalkSpec
CONSTANTS
    a1 = a1
    a2 = a2
    c1 = c1
    c2 = c2
    c3 = c3
    m1 = m1
    m2 = m2
    MapServers = {m1, m2}
    Accounts = {a1, a2}
    NoAccount = NoAccount
    Characters = {c1, c2, c3}
    NoChar = NoChar
    Owner <- MCOwner
    Home <- MCHome
    MAX_PARTY = 3
    ShareLevel = 0
    Limits <- MCLimits
    GameMasters = {a1}
    Texts = {"hi", "HEY"}
    LameTexts = {"HEY"}
    AccountVars = {"x", "y"}
    VarValues = {0, 1}
    ACCOUNT_REG_NUM = 1
    ChatSpamFlood = 6
    ChatLamePenalty = 2
    PacketSpamFlood = 2
INVARIANTS CopiesAgree ShareIsFair AnswersAreTrue AccountVariablesAgree
CHECK_DEADLOCK FALSE
