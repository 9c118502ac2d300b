SPECIFICATION Spec
CONSTANTS
    Readers = {r1, r2}
    Writers = {w1, w2}
    PageTTL = 1
    GenTTL = 2
    RequestTimeout = 1
    CallTime = 0
    MaxWrites = 2
    MaxTime = 2
    MaxSets = 1
    NoStamp = NoStamp
SYMMETRY Symmetry
INVARIANT FreshUntilReset
INVARIANT BoundedStaleness
