SPECIFICATION Spec
CONSTANTS
    Users = {u1}
    Browsers = {b1}
    Procs = {p1, p2}
    Tokens = {t1, t2, t3}
    MaxExpired = 1
    NoUser = NoUser
    NoToken = NoToken
    NoBrowser = NoBrowser
SYMMETRY Symmetry
INVARIANT SingleUse
INVARIANT OneTokenPerLogin
INVARIANT LogoutRevokes
PROPERTY SessionContract
