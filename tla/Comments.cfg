SPECIFICATION CommentSpec
CONSTANTS
    Users = {u1, u2}
    Tasks = {t1, t2}
    Notes = {k1}
    Writers = {w1, w2}
    Words = {"a", "b"}
    MaxClock = 1
    NoUser = NoUser
    NoTask = NoTask
    NoNote = NoNote
SYMMETRY Symmetry
INVARIANT NoOrphans
PROPERTY WordsAreTheAuthors
PROPERTY NotFoundMeansGone
