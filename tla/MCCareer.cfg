SPECIFICATION Spec
CONSTANTS
    astronaut = astronaut
    chef = chef
    space = space
    ranger = ranger
    kitchen = kitchen
    NONE = NONE
    Career <- MCCareer
    Track <- MCTrack
    Week = 4
    Shift <- MCShift
    LateAfter <- MCLateAfter
    JobStartDelay = 0
    CanBeFired = {chef}
    StartTrack <- MCStartTrack
    Levels <- MCLevels
    Branches <- MCBranches
    Default <- MCDefault
    MaxOvertime = 1
    MaxListeners = 1
    MaxAstray = 1
    MaxLoads = 1
INVARIANTS TypeOK PaidOncePerShift SessionWillEnd RetiredHasNoCareer
