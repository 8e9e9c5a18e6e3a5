\* Three saves that overlap, one lock holder, clock up to twice the cooldown.
SPECIFICATION Spec
CONSTANTS
    Holder = {fire}
    NoHolder = NoHolder
    COOLDOWN = 1
    MaxLocks = 1
    MaxSaves = 3
    MaxTime = 2
INVARIANTS TypeOK ErrorCodeIsCurrent SuccessIsWritten EveryoneAnswered
PROPERTY CooldownKept
