SPECIFICATION Spec
CONSTANTS
    Users = {u1, u2, u3}
    Tasks = {}
    Procs = {p1, p2}
    Statuses = {"todo", "done"}
    Contents = {c1}
    Ops <- TeamOps
    ClientEdits <- CloseEdit
    MaxVersion = 1
    NoUser = NoUser
    NoTask = NoTask
    NoProc = NoProc
SYMMETRY Symmetry
INVARIANT ExactlyOneOwner
INVARIANT OnlyCascadesDeadlock
PROPERTY TeamContract
PROPERTY AdminsTouchOnlyMembers
