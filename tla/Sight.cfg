CONSTANTS
    p = p
    q = q
    md = md
    nd = nd
    fitem = fitem
    field = field
    house = house
    Players = {p, q}
    Mobs = {md}
    Npcs = {nd}
    Items = {fitem}
    Maps = {field, house}
    Xs <- MCXs
    Ys <- MCYs
    Unwalkable <- MCUnwalkable
    AREA_SIZE = 1
    BLOCK_SIZE = 2
    SavePoint <- MCSavePoint
    Destinations <- MCDestinations
    Groups <- MCGroups
SYMMETRY EitherPlayer
SPECIFICATION Spec
INVARIANTS NothingOfTheGone
PROPERTIES NobodyIsMissed
