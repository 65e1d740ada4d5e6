CONSTANTS
    r1 = r1
    r2 = r2
    ann = ann
    bob = bob
    o = o
    k = k
    u1 = u1
    u2 = u2
    Requests = {r1, r2}
    Names = {ann, bob}
    Coords = {o, k}
    Origin = o
    Uids = {u1, u2}
    MaxAttempts = 2
    MaxFailures = 1
    MaxCrashes = 1
    None = None
SPECIFICATION FairSpec
INVARIANTS WholeAccounts SharedIfConcurrent AnswersHold
PROPERTY RegistrationsEnd
CHECK_DEADLOCK FALSE
