SPECIFICATION FairSpec
CONSTANTS
    job = job
    critical = critical
    both = both
    loop = loop
    nap = nap
    work = work
    must = must
    cleanup = cleanup
    once = once
    tick = tick
    NONE = NONE
    Element <- MCElement
    Kind <- MCKind
    Parts <- MCParts
    Delay <- MCDelay
    MaxDelay = 2
    MaxAdvance = 1
    MaxRuns = 1
INVARIANTS TypeOK EveryWaitIsWoken FinallyOnce
PROPERTIES VoidAlarmsAreSilent SoftStopEnds
