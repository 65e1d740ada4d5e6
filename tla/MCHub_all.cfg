CONSTANTS
    ann = ann
    k1 = k1
    k2 = k2
    k3 = k3
    Players = {ann}
    Conns = {k1, k2, k3}
    Owner <- MCOwner
    None = None
SPECIFICATION FairSpec
INVARIANTS RegisteredIsServed Reachable
PROPERTY LostIsForgotten
CHECK_DEADLOCK FALSE
