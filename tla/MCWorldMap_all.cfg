CONSTANTS
    rock = rock
    wolf = wolf
    x1 = x1
    x2 = x2
    Coords = {x1, x2}
    Placements = {rock, wolf}
    Kind <- MCKind
    Readers = {r1, r2}
    r1 = r1
    r2 = r2
    theirs = theirs
    Theirs <- MCTheirs
    MaxFailures = 1
    MaxCrashes = 1
    None = None
SPECIFICATION FairSpec
INVARIANTS MapComplete MemoryIsRow NotReplaced
PROPERTY StartupEnds
CHECK_DEADLOCK FALSE
