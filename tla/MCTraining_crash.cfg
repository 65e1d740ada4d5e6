CONSTANTS
    p = p
    q = q
    spear = spear
    bow = bow
    Players = {p}
    Kinds = {spear, bow}
    Nums = {1, 2}
    TrainTime <- MCTrainTime
    BatchSize = 2
    LastOrder = 2
    MaxCrashes = 2
    MaxFailures = 1
    MaxStrays = 1
    None = None
SPECIFICATION FairSpec
INVARIANTS TrainedOnce TrainingsScheduled
PROPERTIES TrainingLasts TrainingsEnd
CHECK_DEADLOCK FALSE
