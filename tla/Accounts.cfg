SPECIFICATION AccountSpec
CONSTANTS
    Ids = {i1, i2}
    Spellings <- Written
    Lower <- LowerCase
    Weight <- Collated
    Passwords = {w1, w2}
    Names = {n1}
    Procs = {p1, p2, p3}
    NoId = NoId
    NoEmail = NoEmail
    NoPassword = NoPassword
    NoName = NoName
SYMMETRY Symmetry
INVARIANT OneAccountPerEmail
INVARIANT PasswordsProved
PROPERTY AccountsAreKept
