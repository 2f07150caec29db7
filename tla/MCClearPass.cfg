\* Two users, three sessions, two requests at a time, one eviction.
SPECIFICATION Spec
CONSTANTS
    TGT = {t1, t2, t3}
    User = {u, v}
    Thread = {a, b}
    NoTicket = NoTicket
    NoUser = NoUser
    MaxEvictions = 1
SYMMETRY Symmetry
CHECK_DEADLOCK FALSE
INVARIANTS TypeOK PasswordsGoWithSessions SessionHasPassword
