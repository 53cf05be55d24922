CONSTANTS
    none = none
    Items <- MCItems
    Data <- MCData
    EQUIPs <- MCEQUIPs
    MAX_INVENTORY = 2
    MAX_AMOUNT = 2
    MAX_ZENY = 3
    MaxWeight = 4
    MaxFloor = 1
    Groups <- MCGroups
    Shops <- MCShops
    Casters <- MCCasters
SPECIFICATION Spec
VIEW View
INVARIANTS EquipmentAgrees ClientKnows
