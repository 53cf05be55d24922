\* Two files, three backups, autosaves, ends, starts and two kills at any step.
SPECIFICATION FairSpec
CONSTANTS
    NFiles = 2
    Backups = 3
    MaxClock = 3
    MaxKills = 2
    OneWriter = TRUE
INVARIANTS NewestInPlace BackupsInOrder
PROPERTIES ChangesReachDisk
CHECK_DEADLOCK FALSE
