CONSTANTS
    alice = alice
    bob = bob
    a1 = a1
    a2 = a2
    b1 = b1
    extra = extra
    c = c
    Players = {alice}
    Cells = {c}
    Army <- MCArmyAlone
    Loans <- MCLoansOne
    Travel <- MCTravel
    GatherTime = 2
    StaleAfter = 0
    BatchSize = 1
    LastLaunch = 1
    MaxCrashes = 1
    MaxFailures = 1
    SameSecond = FALSE
    None = None
SPECIFICATION Spec
INVARIANTS TypeOK SoldiersConserved MarchesScheduled
PROPERTIES NeverEarly ImplementsTrips
CHECK_DEADLOCK FALSE
