\* Liveness of the cleaner: a remembered login, a proxy granting ticket, timeouts.
SPECIFICATION FairSpec
CONSTANTS
    TGT = {t1, t2}
    ST = {s1}
    Service = {a}
    Principal = {u}
    Thread = {th1}
    Presented = {NoCredentials, u}
    Enabled = {a}
    SsoEnabled = {}
    ProxyAllowed = {a}
    TgtPolicy = "rememberMe"
    RememberMe = {u}
    TgtTimeInBetweenUses = 0
    TgtMaxTimeToLive = 1
    TgtTimeToKill = 1
    StNumberOfUses = 1
    StTimeToKill = 1
    MaxTime = 1
    Cleaner = cleaner
    NoTicket = NoTicket
    NoService = NoService
    NoCredentials = NoCredentials
    ProxyPrincipal = proxy
PROPERTY ExpiredTicketsLeave
