\* A commodity that stays or goes at convergence, decaying both ways.
SPECIFICATION Spec
CONSTANTS
    MinValue = 0
    MaxValue = 5
    DecayRate = 2
    DefaultConvergence = 0
    InitialValue = 5
    StateBounds <- MCStateBounds
    BuffAddThreshold <- MCTopThreshold
    DistressThreshold = 1
    FailureThreshold <- MCFailureThreshold
    OffLotThreshold <- MCOffLotThreshold
    OffLotValue = 3
    Core = FALSE
    RemoveOnConvergence = {TRUE, FALSE}
    ValueChoices = {0, 3}
    ConvergenceChoices = {0, 5}
    MaxNested = 4
INVARIANTS
    TypeOK
    AlarmOnEarliest
    CallbacksInPlace
    StateFollowsValue
    BuffIsOfCurrentState
    DistressIsReal
VIEW Read
