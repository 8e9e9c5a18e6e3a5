\* A Sim, an object and a part of it, two elements, five requests; fair, so that
\* safety and liveness are checked on the same instance.
CONSTANTS
    NoObj = NoObj
    Obj = {sim, crib, part}
    Sims = {sim}
    Parts = {part}
    Element = {e1, e2}
    MaxRequests = 5
SPECIFICATION FairSpec
INVARIANTS
    TypeOK
    RecordsStagedOnce
    ElementsStoppedFirst
    FullResetBeforeEnd
    MasterControllerWaits
PROPERTIES
    DestroyNeverRestarts
    KeepsPromise
    RecordsDrain
CHECK_DEADLOCK FALSE
