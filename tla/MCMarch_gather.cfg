CONSTANTS
    alice = alice
    bob = bob
    a1 = a1
    a2 = a2
    b1 = b1
    extra = extra
    c = c
    Players = {alice}
    Cells = {c}
    Army <- MCArmyOne
    Loans <- MCLoansNone
    Travel <- MCTravel
    GatherTime = 2
    StaleAfter = 1
    BatchSize = 2
    LastLaunch = 0
    MaxCrashes = 0
    MaxFailures = 0
    SameSecond = FALSE
    None = None
SPECIFICATION Spec
PROPERTY GatheringLasts
CHECK_DEADLOCK FALSE
