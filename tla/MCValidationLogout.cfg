\* Two service tickets of one session, two validation requests at a time.
SPECIFICATION FairSpec
CONSTANTS
    ST = {s1, s2}
    Request = {a, b}
    NoTicket = NoTicket
CHECK_DEADLOCK FALSE
INVARIANTS TypeOK LogoutClosesApplications OneProxyGrantingTicketPerAssertion
PROPERTY LogoutComesToItsEnd
