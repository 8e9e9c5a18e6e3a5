\* A commodity that is set to its convergence value.
SPECIFICATION Spec
CONSTANTS
    MinValue = 0
    MaxValue = 5
    DecayRate = 2
    DefaultConvergence = 0
    InitialValue = 5
    StateBounds <- MCStateBounds
    BuffAddThreshold <- MCTopThreshold
    DistressThreshold = 1
    FailureThreshold <- MCFailureThreshold
    OffLotThreshold <- MCOffLotThreshold
    OffLotValue = 3
    Core = FALSE
    RemoveOnConvergence = {TRUE}
    ValueChoices = {0, 3, 5}
    ConvergenceChoices = {}
    MaxNested = 4
INVARIANTS
    RemovedLeavesNothing
