SPECIFICATION FairSpec
CONSTANTS
    Users = {u1, u2}
    Tasks = {t1}
    Procs = {p1, p2}
    Statuses = {"todo", "done"}
    Contents = {c1}
    Ops <- WaitOps
    ClientEdits <- CloseEdit
    MaxVersion = 1
    NoUser = NoUser
    NoTask = NoTask
    NoProc = NoProc
PROPERTY WorkContract
INVARIANT LockHolders
INVARIANT StuckMeansCircle
PROPERTY RequestsFinish
