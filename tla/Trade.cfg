SPECIFICATION Spec
CONSTANTS
    a = a
    b = b
    c = c
    potion = potion
    sword = sword
    Players = {a, b, c}
    NoPlayer = NoPlayer
    Items = {potion, sword}
    NoItem = NoItem
    Stackable = {potion}
    MaxInventory = 2
    MaxAmount = 2
    MaxZeny = 2
    TradeMax = 2
    Bags <- MCBags
    Limit <- MCLimit
    Purses <- MCPurses
    Around <- MCAround
INVARIANTS PartnersMutual LockedIsBacked
PROPERTIES OnlyByAgreement IsAnExchange
CHECK_DEADLOCK FALSE
