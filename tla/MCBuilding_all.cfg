CONSTANTS
    b1 = b1
    b2 = b2
    Buildings = {b1, b2}
    MaxLevel <- MCMaxLevel
    BaseTime <- MCBaseTime
    CheckerStarted = TRUE
    MaxRequests = 3
    MaxFailures = 2
    MaxCrashes = 1
SPECIFICATION Spec
INVARIANTS LevelsBounded UpgradesCounted
PROPERTY UpgradeLasts
CHECK_DEADLOCK FALSE
