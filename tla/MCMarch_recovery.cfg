CONSTANTS
    alice = alice
    bob = bob
    a1 = a1
    a2 = a2
    b1 = b1
    extra = extra
    c = c
    Players = {alice}
    Cells = {c}
    Army <- MCArmyOne
    Loans <- MCLoansNone
    Travel <- MCTravel
    GatherTime = 2
    StaleAfter = 1
    BatchSize = 2
    LastLaunch = 0
    MaxCrashes = 2
    MaxFailures = 1
    SameSecond = FALSE
    None = None
SPECIFICATION FairSpec
PROPERTY MarchesEnd
CHECK_DEADLOCK FALSE
