\* memcached, one request at a time, no faults: a proxy granting ticket and the
\* logout of its session.
SPECIFICATION Spec
CONSTANTS
    TGT = {t1, t2}
    ST = {s1, s2}
    Thread = {a}
    Nothing = Nothing
    NoTicket = NoTicket
    WriteBack = "replace"
    Callback = TRUE
    StNumberOfUses = 1
    MaxFaults = 0
CHECK_DEADLOCK FALSE
PROPERTY DerivedInvalidated
