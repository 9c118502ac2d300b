SPECIFICATION FairSpec
CONSTANTS
    Procs = {p1, p2}
    ConsecutiveFailures = 2
    Max = 1
    Window = 2
    MaxOpen = 1
INVARIANT LimitHolds
INVARIANT Probing
PROPERTY WindowEnds
PROPERTY Recovers
PROPERTY Trips
