CONSTANTS
    alice = alice
    bob = bob
    a1 = a1
    a2 = a2
    b1 = b1
    extra = extra
    c = c
    Players = {alice, bob}
    Cells = {c}
    Army <- MCArmySmall
    Loans <- MCLoansNone
    Travel <- MCTravel
    GatherTime = 1
    StaleAfter = 1
    BatchSize = 1
    LastLaunch = 0
    MaxCrashes = 1
    MaxFailures = 0
    SameSecond = FALSE
    None = None
SPECIFICATION FairSpec
INVARIANT GathererHoldsCell
PROPERTY HeadMarchActs
CHECK_DEADLOCK FALSE
