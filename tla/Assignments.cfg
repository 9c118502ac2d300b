SPECIFICATION Spec
CONSTANTS
    Users = {u1, u2}
    Tasks = {t1}
    Procs = {p1, p2}
    Statuses = {"todo", "done"}
    Contents = {c1, c2}
    Ops <- WriteOps
    ClientEdits <- SmallEdits
    MaxVersion = 3
    NoUser = NoUser
    NoTask = NoTask
    NoProc = NoProc
SYMMETRY Symmetry
INVARIANT AuditTrail
PROPERTY NoLostUpdate
PROPERTY BoardContract
PROPERTY EveryWriteInvalidates
