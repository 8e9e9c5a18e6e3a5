\* Two Sims that request speeds, two kinds of pause requests; fractional
\* multipliers and server ticks longer than the step.
SPECIFICATION Spec
CONSTANTS
    Sim = {bella, mortimer}
    Handle = {travel, buildbuy}
    MultiplierType = {DEFAULT}
    DEFAULT = DEFAULT
    D = 2
    Scale <- HalfScale
    MAX_GAME_CLOCK_TICK_STEP = 1
    MaxElapsed = 2
    MaxServerTicks = 2
    MaxPauses = 1
SYMMETRY Alike
VIEW Read
INVARIANTS TypeOK UnpauseUnpauses HouseholdSpeedIsBacked TimeOffByRecounting
PROPERTY PausesHold
