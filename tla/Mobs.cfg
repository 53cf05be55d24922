SPECIFICATION LiveSpec
CONSTANTS
    boss = boss
    one = one
    two = two
    player = player
    Mobs = {boss, one}
    Respawning = {boss}
    Players = {player}
    Nobody = Nobody
    MaxHp = 2
    Reentrant = FALSE
INVARIANTS MovesOnTimers
PROPERTIES KilledComeBack
CHECK_DEADLOCK FALSE
