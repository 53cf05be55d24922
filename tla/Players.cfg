SPECIFICATION FightSpec
CONSTANTS
    MaxLevel = 255
    JobCap = 10
    BaseStep = 2
    JobStep = 1
    MaxParameter = 7
    Skills = {brawling, luck, quest}
    QuestSkills = {quest}
    PoolSkills = {brawling, luck}
    MaxRaise <- Raises
    sword = sword
    charm = charm
    Gear = {sword, charm}
    Strength <- Strengths
    Magic <- Magics
    Effects = {haste}
    EarlySkills = {brawling}
    SkillPool = quest
    MaxCharges = 2
    MaxHp = 3
    MaxPoison = 2
    Levels = {1, 20, 255}
    Values = {0, 3}
    Gains = {1, 4}
    Bounds <- FewSteps
    battle_config <- Config
    me = me
    friend = friend
    Friends = {friend}
    Builds <- Few
    Species <- Mob
    Servants <- Beasts
    Mutations <- Mutants
    Distances = {0, 3}
INVARIANTS StatusPointsAccounted StatusIsCurrent RewardsAreFair
CHECK_DEADLOCK FALSE
