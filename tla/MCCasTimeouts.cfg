\* Two requests at a time and the cleaner on one session, while tickets time out.
SPECIFICATION Spec
CONSTANTS
    TGT = {t1}
    ST = {s1, s2}
    Service = {a}
    Principal = {u}
    Thread = {th1, th2}
    Presented = {NoCredentials, u}
    Enabled = {a}
    SsoEnabled = {a}
    ProxyAllowed = {a}
    TgtPolicy = "ticketGrantingTicket"
    RememberMe = {}
    TgtTimeInBetweenUses = 0
    TgtMaxTimeToLive = 3
    TgtTimeToKill = 2
    StNumberOfUses = 1
    StTimeToKill = 1
    MaxTime = 2
    Cleaner = cleaner
    NoTicket = NoTicket
    NoService = NoService
    NoCredentials = NoCredentials
    ProxyPrincipal = proxy
SYMMETRY Symmetry
INVARIANTS TypeOK UsesBounded SingleSignOut UsedUpTicketsLeave
PROPERTIES ExpiredServiceTicketStaysExpired ServicesStableDuringLogout
