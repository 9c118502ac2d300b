SPECIFICATION Spec
CONSTANTS
    Users = {u1, u2}
    Tasks = {t1}
    Procs = {p1, p2}
    Statuses = {"todo", "done"}
    Contents = {c1, c2}
    Ops <- AssignOps
    ClientEdits <- SmallEdits
    MaxVersion = 2
    NoUser = NoUser
    NoTask = NoTask
    NoProc = NoProc
SYMMETRY Symmetry
INVARIANT AuditComplete
