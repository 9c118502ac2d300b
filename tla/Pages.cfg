SPECIFICATION PageSpec
CONSTANTS
    Ids = {1, 2}
    Times = {1, 2}
    Limits = {0, 5}
    DefaultPageSize = 1
    MaxPageSize = 2
    MaxCached = 2
INVARIANT Complete
INVARIANT NoRepeats
INVARIANT LastRowExists
