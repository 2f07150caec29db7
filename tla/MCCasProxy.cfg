\* A login and a proxy granting ticket drawn from it, no timeouts.
SPECIFICATION Spec
CONSTANTS
    TGT = {t1, t2}
    ST = {s1, s2}
    Service = {a}
    Principal = {u}
    Thread = {th1, th2}
    Presented = {NoCredentials}
    Enabled = {a}
    SsoEnabled = {a}
    ProxyAllowed = {a}
    TgtPolicy = "ticketGrantingTicket"
    RememberMe = {}
    TgtTimeInBetweenUses = 0
    TgtMaxTimeToLive = 2
    TgtTimeToKill = 2
    StNumberOfUses = 1
    StTimeToKill = 1
    MaxTime = 0
    Cleaner = cleaner
    NoTicket = NoTicket
    NoService = NoService
    NoCredentials = NoCredentials
    ProxyPrincipal = proxy
SYMMETRY Symmetry
INVARIANTS DestroyInvalidatesDerived
PROPERTIES ImplementsSingleSignOn
