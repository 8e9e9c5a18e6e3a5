\* A simulation that lags and catches up at every speed, and a player who pauses;
\* fractional multipliers, server ticks longer than the step, and a tick an
\* earlier zone may have left behind.
SPECIFICATION AdaptiveSpec
CONSTANTS
    Sim = {}
    Handle = {}
    MultiplierType = {DEFAULT, LOW_PERFORMANCE}
    DEFAULT = DEFAULT
    D = 2
    Scale <- FastScale
    MAX_GAME_CLOCK_TICK_STEP = 1
    MaxElapsed = 2
    MaxServerTicks = 3
    MaxPauses = 0
    Reduced = LOW_PERFORMANCE
    ReducedThreshold = 1
    ReducedDuration = 1
    NoTick = NoTick
    StaleTicks <- AnEarlierTick
CONSTRAINT NotFarBack
VIEW Read
PROPERTY SwitchesConsistently
