SPECIFICATION Spec
CONSTANTS
    MaxAttempts = 2
    MaxBatches = 2
    Adapters <- AllAdapters
INVARIANTS
    EffectIsTrue
    CommittedIsComplete
    FinalIsTrue
    KeptIsClean
    NoHiddenResidue
PROPERTIES
    CallEnds
CHECK_DEADLOCK FALSE
