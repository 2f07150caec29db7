\* memcached: two requests at a time, one session with a proxy granting ticket
\* or two sessions, one eviction or failed operation.
SPECIFICATION Spec
CONSTANTS
    TGT = {t1, t2}
    ST = {s1, s2}
    Thread = {a, b}
    Nothing = Nothing
    NoTicket = NoTicket
    WriteBack = "replace"
    Callback = TRUE
    StNumberOfUses = 1
    MaxFaults = 1
SYMMETRY Symmetry
CHECK_DEADLOCK FALSE
INVARIANTS TypeOK SingleSignOut UsesBounded
PROPERTIES NoResurrection NoAssertionAfterLogout
