\* A multiplier of one and a half.
SPECIFICATION Spec
CONSTANTS
    Sim = {}
    Handle = {}
    MultiplierType = {DEFAULT}
    DEFAULT = DEFAULT
    D = 2
    Scale <- HalfScale
    MAX_GAME_CLOCK_TICK_STEP = 5
    MaxElapsed = 1
    MaxServerTicks = 12
    MaxPauses = 0
INVARIANT GameTimeKept
