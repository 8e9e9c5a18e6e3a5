\* Two saves and two lock holders, no cooldown; fair.
SPECIFICATION LiveSpec
CONSTANTS
    Holder = {fire, death}
    NoHolder = NoHolder
    COOLDOWN = 0
    MaxLocks = 2
    MaxSaves = 2
    MaxTime = 1
INVARIANT ShownUnlockedIsUnlocked
PROPERTY SimulationResumes
