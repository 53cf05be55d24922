SPECIFICATION Spec
CONSTANTS
    keeper = keeper
    pet = pet
    smith = smith
    nobody = nobody
    Parents = {keeper}
    Puppets = {pet}
    Shops = {smith}
    ParentOf <- TheParent
    Touchy = {keeper}
    Labels <- TwoLabels
    Clocked = keeper
    MaxEventTimer = 1
    MaxQueue = 1
    MaxCalls = 1
    MaxTime = 8
    Lag = 1
    Bounds <- Some
INVARIANTS DialogsGoOn NothingOfTheFreed
CHECK_DEADLOCK FALSE
