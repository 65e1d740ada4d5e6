CONSTANTS
    r1 = r1
    r2 = r2
    Requests = {r1, r2}
    Delays = {1, 4}
    MaxSleep = 2
    WakeCapacity = 1
    LastAdd = 1
    LastSecond = 6
    Empty = Empty
    Unread = Unread
SPECIFICATION FairLoopSpec
INVARIANTS LoopTypeOK NoOversleep
PROPERTIES DueIsConsumed StopEnds
CHECK_DEADLOCK FALSE
