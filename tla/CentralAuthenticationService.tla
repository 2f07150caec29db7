--------------------- MODULE CentralAuthenticationService ---------------------
(***************************************************************************)
(* CentralAuthenticationServiceImpl over a DefaultTicketRegistry shared    *)
(* with a DefaultTicketRegistryCleaner.                                    *)
(*                                                                         *)
(* Request threads call the operations of CentralAuthenticationService on  *)
(* ticket objects they share through the registry's map.  A request is cut *)
(* where another thread may come in between: at each access of the map, at *)
(* each entry of a monitor (synchronized) and at each unlocked read that a *)
(* decision rests on.  A call that fails without having changed anything   *)
(* leaves the caller idle; where it would also start idle, it is no step.  *)
(***************************************************************************)
EXTENDS ExpirationPolicies, FiniteSets

CONSTANTS
    TGT,            \* ids of ticket granting (and proxy granting) tickets
    ST,             \* ids of service and proxy tickets
    Service,        \* ids of web applications
    Principal,      \* users, as their credentials resolve to
    Thread,         \* request threads
    Cleaner,        \* the thread of the registry cleaner
    NoTicket, NoService, NoCredentials,
    Presented,      \* bound: what grant requests carry as credentials
    ProxyPrincipal, \* what the credentials of a proxying service resolve to
    Enabled,        \* services registered and enabled
    SsoEnabled,     \* ... that participate in the SSO session
    ProxyAllowed,   \* ... that may proxy and be proxied to
    TgtPolicy,      \* the expiration policy of ticket granting tickets
    TgtMaxTimeToLive, TgtTimeToKill, TgtTimeInBetweenUses,  \* ... its settings
    RememberMe,     \* users who log in with remember-me
    StNumberOfUses, StTimeToKill,   \* MultiTimeUseOrTimeoutExpirationPolicy
    MaxTime         \* bound of the clock, for model checking

Proc   == Thread \cup {Cleaner}
Ticket == TGT \cup ST

ASSUME IdsAssumption ==
    /\ TGT \cap ST = {}
    /\ NoTicket \notin Ticket
    /\ NoService \notin Service
    /\ NoCredentials \notin Principal
    /\ Presented \subseteq Principal \cup {NoCredentials}
    /\ ProxyPrincipal \notin Principal \cup {NoCredentials}
    /\ Cleaner \notin Thread

ASSUME RegisteredServicesAssumption ==
    /\ Enabled \subseteq Service
    /\ SsoEnabled \subseteq Enabled
    /\ ProxyAllowed \subseteq Enabled

ASSUME PolicyAssumption ==
    /\ TgtPolicy \in {"ticketGrantingTicket", "hardTimeout", "timeout",
                      "throttledUse", "rememberMe", "never"}
    /\ TgtTimeInBetweenUses \in Nat
    /\ RememberMe \subseteq Principal
    /\ TgtMaxTimeToLive \in Nat /\ TgtTimeToKill \in Nat
    /\ TgtMaxTimeToLive >= TgtTimeToKill
    /\ StNumberOfUses \in Nat \ {0} /\ StTimeToKill \in Nat \ {0}
    /\ MaxTime \in Nat

VARIABLES
    now,       \* System.currentTimeMillis()
    registry,  \* the keys of DefaultTicketRegistry.cache
    issued,    \* ticket objects that have been constructed
    ticket,    \* AbstractTicket: granting, chain, created, lastUsed, uses
    tgt,       \* TicketGrantingTicketImpl: principal, expired, services
    st,        \* ServiceTicketImpl and its service object
    pc,        \* where each thread is
    call,      \* the arguments and locals of each thread's call
    unseen,    \* the cleaner: tickets its iteration has not reached
    doomed,    \* the cleaner: ticketsToRemove
    assertions,\* history: assertions returned for a service ticket
    sent,      \* history: logout requests sent for a service ticket
    destroyed  \* history: ids destroyTicketGrantingTicket returned for

heap    == <<issued, ticket, tgt, st>>
cleaner == <<unseen, doomed>>
history == <<assertions, sent, destroyed>>
vars    == <<now, registry, heap, pc, call, cleaner, history>>

-----------------------------------------------------------------------------
(* Tickets *)

NewTicket(granting, chain) ==
    [granting |-> granting, chain |-> chain,
     created |-> now, lastUsed |-> now, uses |-> 0]

\* AbstractTicket.updateState
UpdateState(x) == [ticket[x] EXCEPT !.lastUsed = now, !.uses = @ + 1]

NewTgt(principal) == [principal |-> principal, expired |-> FALSE, services |-> {}]
NoTgt == NewTgt(NoCredentials)

NewSt(service, newLogin) ==
    [service |-> service, newLogin |-> newLogin, granted |-> FALSE, loggedOut |-> FALSE]
NoSt == NewSt(NoService, FALSE)

\* The policy the configuration names for ticket granting tickets.  Remember-me
\* is an attribute of the login's authentication.
TgtPolicyExpired(t) ==
    \/ /\ TgtPolicy = "ticketGrantingTicket"
       /\ TicketGrantingTicketPolicy(ticket[t], now, TgtMaxTimeToLive, TgtTimeToKill)
    \/ TgtPolicy = "hardTimeout" /\ HardTimeout(ticket[t], now, TgtMaxTimeToLive)
    \/ TgtPolicy = "timeout" /\ Timeout(ticket[t], now, TgtTimeToKill)
    \/ /\ TgtPolicy = "throttledUse"
       /\ ThrottledUseAndTimeout(ticket[t], now, TgtTimeInBetweenUses, TgtTimeToKill)
    \/ /\ TgtPolicy = "rememberMe"
       /\ RememberMeDelegating(tgt[t].principal \in RememberMe,
                HardTimeout(ticket[t], now, TgtMaxTimeToLive),
                Timeout(ticket[t], now, TgtTimeToKill))
    \/ TgtPolicy = "never" /\ NeverExpires

PolicyExpired(x) ==
    \/ x \in TGT /\ TgtPolicyExpired(x)
    \/ x \in ST  /\ MultiTimeUseOrTimeout(ticket[x], now,
                        StNumberOfUses, StTimeToKill)

\* AbstractTicket.isExpired asks the ticket's own policy, then the granting
\* ticket, and so on up to the root.  The link is final, so the tickets asked
\* are the ticket and its chain, the set of links up to the root.
IsExpired(x) ==
    \E y \in {x} \cup ticket[x].chain :
        \/ PolicyExpired(y)
        \/ y \in TGT /\ tgt[y].expired

\* More than one link in getChainedAuthentications(): a proxy granting ticket.
IsProxy(t) == ticket[t].chain # {}

\* Threads that hold the monitor of ticket x over more than one step: inside
\* TicketGrantingTicketImpl.expire, or between isExpired and isValidFor.
Locked(x) == \E p \in Proc : pc[p] \in {"logOut", "use"} /\ call[p].ticket = x

-----------------------------------------------------------------------------
(* Calls *)

Request(x, service, credentials) ==
    [ticket |-> x, service |-> service, credentials |-> credentials, new |-> NoTicket]
Holding(x) == Request(x, NoService, NoCredentials)
NoCall     == Holding(NoTicket)

\* Bound, for model checking: a call that makes a ticket starts only while an
\* id is left for it, so that no call is ever stuck for want of one.
StIdLeft  == Cardinality({q \in Thread : pc[q] \in {"checkTgt", "authorize", "grant"}})
                < Cardinality(ST \ issued)
TgtIdLeft == Cardinality({q \in Thread : pc[q] \in {"checkProxied", "delegate"}})
                < Cardinality(TGT \ issued)

Enter(p, label, c) == pc' = [pc EXCEPT ![p] = label] /\ call' = [call EXCEPT ![p] = c]
Goto(p, label)     == pc' = [pc EXCEPT ![p] = label] /\ UNCHANGED call
Return(p)          == Enter(p, "idle", NoCall)

\* Putting a ticket into the registry's map.  The cleaner's iterator, if it is
\* under way, may or may not meet the new ticket yet.
Store(x) ==
    /\ registry' = registry \cup {x}
    /\ \/ UNCHANGED unseen
       \/ pc[Cleaner] = "scan" /\ unseen' = unseen \cup {x}
    /\ UNCHANGED doomed

Init ==
    /\ now = 0 /\ registry = {} /\ issued = {}
    /\ ticket = [x \in Ticket |-> NewTicket(NoTicket, {})]
    /\ tgt = [t \in TGT |-> NoTgt]
    /\ st = [s \in ST |-> NoSt]
    /\ pc = [p \in Proc |-> "idle"]
    /\ call = [p \in Proc |-> NoCall]
    /\ unseen = {} /\ doomed = {}
    /\ assertions = [s \in ST |-> 0] /\ sent = [s \in ST |-> 0]
    /\ destroyed = {}

Tick ==
    /\ now < MaxTime
    /\ now' = now + 1
    /\ UNCHANGED <<registry, heap, pc, call, cleaner, history>>

-----------------------------------------------------------------------------
(* createTicketGrantingTicket: nobody knows the id before the call returns. *)

CreateTicketGrantingTicket(th) ==
    /\ pc[th] = "idle"
    /\ TgtIdLeft
    /\ \E t \in TGT \ issued, p \in Principal :
        /\ issued' = issued \cup {t}
        /\ ticket' = [ticket EXCEPT ![t] = NewTicket(NoTicket, {})]
        /\ tgt' = [tgt EXCEPT ![t] = NewTgt(p)]
        /\ Store(t)
    /\ UNCHANGED <<now, st, pc, call, history>>

-----------------------------------------------------------------------------
(* grantServiceTicket *)

GrantLookup(th) ==
    /\ pc[th] = "idle"
    /\ StIdLeft
    /\ \E t \in registry \cap TGT, s \in Service, c \in Presented :
        Enter(th, "checkTgt", Request(t, s, c))
    /\ UNCHANGED <<now, registry, heap, cleaner, history>>

\* The first synchronized block: an expired ticket leaves the registry here.
GrantCheck(th) == LET t == call[th].ticket IN
    /\ pc[th] = "checkTgt"
    /\ ~Locked(t)
    /\ \/ /\ IsExpired(t)
          /\ registry' = registry \ {t}
          /\ Return(th)
       \/ /\ ~IsExpired(t)
          /\ Goto(th, "authorize")
          /\ UNCHANGED registry
    /\ UNCHANGED <<now, heap, cleaner, history>>

\* What the registered service demands, read outside every monitor.
Authorized(t, s, credentials) ==
    /\ s \in Enabled
    /\ s \in SsoEnabled \/ credentials # NoCredentials \/ ticket[t].uses = 0
    /\ IsProxy(t) => s \in ProxyAllowed
    /\ credentials \in {NoCredentials, tgt[t].principal}

GrantAuthorize(th) == LET c == call[th] IN
    /\ pc[th] = "authorize"
    /\ \/ Authorized(c.ticket, c.service, c.credentials) /\ Goto(th, "grant")
       \/ ~Authorized(c.ticket, c.service, c.credentials) /\ Return(th)
    /\ UNCHANGED <<now, registry, heap, cleaner, history>>

\* Mutant: the method is not synchronized.
GrantServiceTicket_Unsynchronized(th) == LET c == call[th] t == c.ticket IN
    /\ pc[th] = "grant"
    /\ \E s \in ST \ issued :
        /\ issued' = issued \cup {s}
        /\ st' = [st EXCEPT ![s] = NewSt(c.service,
                    ticket[t].uses = 0 \/ c.credentials # NoCredentials)]
        /\ ticket' = [ticket EXCEPT ![s] = NewTicket(t, {t} \cup ticket[t].chain),
                                    ![t] = UpdateState(t)]
        /\ tgt' = [tgt EXCEPT ![t].services = @ \cup {s}]
        /\ Enter(th, "add", [c EXCEPT !.new = s])
    /\ UNCHANGED <<now, registry, cleaner, history>>

\* TicketGrantingTicketImpl.grantServiceTicket, a synchronized method.
GrantServiceTicket(th) == LET c == call[th] t == c.ticket IN
    /\ pc[th] = "grant"
    /\ ~Locked(t)
    /\ \E s \in ST \ issued :
        /\ issued' = issued \cup {s}
        /\ st' = [st EXCEPT ![s] = NewSt(c.service,
                    ticket[t].uses = 0 \/ c.credentials # NoCredentials)]
        /\ ticket' = [ticket EXCEPT ![s] = NewTicket(t, {t} \cup ticket[t].chain),
                                    ![t] = UpdateState(t)]
        /\ tgt' = [tgt EXCEPT ![t].services = @ \cup {s}]
        /\ Enter(th, "add", [c EXCEPT !.new = s])
    /\ UNCHANGED <<now, registry, cleaner, history>>

\* Mutant: the id is read after the call's locals are gone.
AddTicket_AfterReturn(th) ==
    /\ pc[th] = "add"
    /\ Return(th)
    /\ Store(call'[th].new)
    /\ UNCHANGED <<now, heap, history>>

\* Registry.addTicket, the last step of a grant and of a delegation.
AddTicket(th) ==
    /\ pc[th] = "add"
    /\ Store(call[th].new)
    /\ Return(th)
    /\ UNCHANGED <<now, heap, history>>

-----------------------------------------------------------------------------
(* validateServiceTicket *)

ValidateLookup(th) ==
    /\ pc[th] = "idle"
    /\ \E s \in registry \cap ST, service \in Enabled :
        Enter(th, "checkSt", Request(s, service, NoCredentials))
    /\ UNCHANGED <<now, registry, heap, cleaner, history>>

\* Mutant: two validations may both find the ticket unused.
ValidateCheck_Unsynchronized(th) == LET s == call[th].ticket IN
    /\ pc[th] = "checkSt"
    /\ Goto(th, IF IsExpired(s) THEN "finally" ELSE "use")
    /\ UNCHANGED <<now, registry, heap, cleaner, history>>

\* Mutant: the granting ticket is not asked.
ValidateCheck_OwnPolicyOnly(th) == LET s == call[th].ticket IN
    /\ pc[th] = "checkSt"
    /\ ~Locked(s)
    /\ Goto(th, IF PolicyExpired(s) THEN "finally" ELSE "use")
    /\ UNCHANGED <<now, registry, heap, cleaner, history>>

\* Enters the monitor of the service ticket, not that of its granting ticket.
ValidateCheck(th) == LET s == call[th].ticket IN
    /\ pc[th] = "checkSt"
    /\ ~Locked(s)
    /\ Goto(th, IF IsExpired(s) THEN "finally" ELSE "use")
    /\ UNCHANGED <<now, registry, heap, cleaner, history>>

\* Mutant: the time of the use is noted, the use is not counted.
ValidateUse_Uncounted(th) == LET s == call[th].ticket IN
    /\ pc[th] = "use"
    /\ ticket' = [ticket EXCEPT ![s].lastUsed = now]
    /\ assertions' = [assertions EXCEPT ![s] =
                        IF call[th].service = st[s].service THEN @ + 1 ELSE @]
    /\ Goto(th, "finally")
    /\ UNCHANGED <<now, registry, issued, tgt, st, cleaner, sent, destroyed>>

\* ServiceTicketImpl.isValidFor counts the use whether or not the service
\* matches; an assertion is returned when it does.
ValidateUse(th) == LET s == call[th].ticket IN
    /\ pc[th] = "use"
    /\ ticket' = [ticket EXCEPT ![s] = UpdateState(s)]
    /\ assertions' = [assertions EXCEPT ![s] =
                        IF call[th].service = st[s].service THEN @ + 1 ELSE @]
    /\ Goto(th, "finally")
    /\ UNCHANGED <<now, registry, issued, tgt, st, cleaner, sent, destroyed>>

\* Mutant: no clean-up after the use.
ValidateFinally_KeepsTicket(th) ==
    /\ pc[th] = "finally"
    /\ Return(th)
    /\ UNCHANGED <<now, registry, heap, cleaner, history>>

\* The finally clause, outside every monitor: isExpired, then deleteTicket.
ValidateFinally(th) ==
    /\ pc[th] = "finally"
    /\ IF IsExpired(call[th].ticket) THEN Goto(th, "deleteSt") ELSE Return(th)
    /\ UNCHANGED <<now, registry, heap, cleaner, history>>

ValidateDelete(th) ==
    /\ pc[th] = "deleteSt"
    /\ registry' = registry \ {call[th].ticket}
    /\ Return(th)
    /\ UNCHANGED <<now, heap, cleaner, history>>

-----------------------------------------------------------------------------
(* delegateTicketGrantingTicket, once the proxying service's credentials    *)
(* have been authenticated.                                                 *)

DelegateLookup(th) ==
    /\ pc[th] = "idle"
    /\ TgtIdLeft
    /\ \E s \in registry \cap ST :
        Enter(th, "checkProxied", Holding(s))
    /\ UNCHANGED <<now, registry, heap, cleaner, history>>

\* isExpired is asked outside the monitor of the service ticket.
DelegateCheck(th) == LET s == call[th].ticket IN
    /\ pc[th] = "checkProxied"
    /\ IF ~IsExpired(s) /\ st[s].service \in ProxyAllowed
          THEN Goto(th, "delegate")
          ELSE Return(th)
    /\ UNCHANGED <<now, registry, heap, cleaner, history>>

\* ServiceTicketImpl.grantTicketGrantingTicket: the second caller gets an
\* IllegalStateException.
GrantTicketGrantingTicket(th) == LET s == call[th].ticket IN
    /\ pc[th] = "delegate"
    /\ ~Locked(s)
    /\ \/ /\ st[s].granted
          /\ Return(th)
          /\ UNCHANGED heap
       \/ /\ ~st[s].granted
          /\ \E t \in TGT \ issued :
              /\ issued' = issued \cup {t}
              /\ ticket' = [ticket EXCEPT ![t] = NewTicket(ticket[s].granting,
                                                            ticket[s].chain)]
              /\ tgt' = [tgt EXCEPT ![t] = NewTgt(ProxyPrincipal)]
              /\ st' = [st EXCEPT ![s].granted = TRUE]
              /\ Enter(th, "add", [call[th] EXCEPT !.new = t])
    /\ UNCHANGED <<now, registry, cleaner, history>>

-----------------------------------------------------------------------------
(* destroyTicketGrantingTicket, of an id some call has returned. *)

DestroyLookup(th) ==
    /\ pc[th] = "idle"
    /\ \E t \in (TGT \cap issued) \ {call[q].new : q \in Thread} :
        \/ /\ t \in registry
           /\ Enter(th, "expire", Holding(t))
           /\ UNCHANGED destroyed
        \/ /\ t \notin registry
           /\ destroyed' = destroyed \cup {t}
           /\ UNCHANGED <<pc, call>>
    /\ UNCHANGED <<now, registry, heap, cleaner, assertions, sent>>

\* Mutant: the services are told but the flag stays down.
Expire_NoFlag(p) == LET t == call[p].ticket IN
    /\ pc[p] = "expire"
    /\ ~Locked(t)
    /\ Goto(p, "logOut")
    /\ UNCHANGED <<now, registry, heap, cleaner, history>>

\* TicketGrantingTicketImpl.expire, called by a logout or by the cleaner: the
\* flag is up for every reader before the first logout request is sent.
Expire(p) == LET t == call[p].ticket IN
    /\ pc[p] = "expire"
    /\ ~Locked(t)
    /\ tgt' = [tgt EXCEPT ![t].expired = TRUE]
    /\ Goto(p, "logOut")
    /\ UNCHANGED <<now, registry, issued, ticket, st, cleaner, history>>

\* Mutant: loggedOutAlready is not consulted.
LogOutOfServices_Repeats(p) == LET services == tgt[call[p].ticket].services IN
    /\ pc[p] = "logOut"
    /\ st' = [s \in ST |-> IF s \in services
                            THEN [st[s] EXCEPT !.loggedOut = TRUE] ELSE st[s]]
    /\ sent' = [s \in ST |-> IF s \in services THEN sent[s] + 1 ELSE sent[s]]
    /\ Goto(p, "delete")
    /\ UNCHANGED <<now, registry, issued, ticket, tgt, cleaner, assertions, destroyed>>

\* ... logOutOfServices: one request per service object, never a second one.
LogOutOfServices(p) == LET services == tgt[call[p].ticket].services IN
    /\ pc[p] = "logOut"
    /\ st' = [s \in ST |-> IF s \in services
                            THEN [st[s] EXCEPT !.loggedOut = TRUE] ELSE st[s]]
    /\ sent' = [s \in ST |-> IF s \in services /\ ~st[s].loggedOut
                              THEN sent[s] + 1 ELSE sent[s]]
    /\ Goto(p, "delete")
    /\ UNCHANGED <<now, registry, issued, ticket, tgt, cleaner, assertions, destroyed>>

DestroyDelete(th) == LET t == call[th].ticket IN
    /\ pc[th] = "delete"
    /\ registry' = registry \ {t}
    /\ destroyed' = destroyed \cup {t}
    /\ Return(th)
    /\ UNCHANGED <<now, heap, cleaner, assertions, sent>>

-----------------------------------------------------------------------------
(* DefaultTicketRegistryCleaner.clean.  Its lock is the NoOpLockingStrategy. *)

\* The iterator of the live map meets each ticket that stays; of one that is
\* removed meanwhile, or added (Store), it may or may not.
CleanStart ==
    /\ pc[Cleaner] = "idle"
    /\ unseen' = registry
    /\ Goto(Cleaner, "scan")
    /\ UNCHANGED <<now, registry, heap, doomed, history>>

\* Mutant: tickets are judged by their own policy, their granting
\* tickets are not asked.
CleanScan_OwnPolicyOnly ==
    /\ pc[Cleaner] = "scan"
    /\ \E x \in unseen :
        /\ unseen' = unseen \ {x}
        /\ doomed' = IF PolicyExpired(x) THEN doomed \cup {x} ELSE doomed
    /\ UNCHANGED <<now, registry, heap, pc, call, history>>

CleanScan ==
    /\ pc[Cleaner] = "scan"
    /\ \E x \in unseen :
        /\ unseen' = unseen \ {x}
        /\ \/ IsExpired(x) /\ doomed' = doomed \cup {x}
           \/ ~(IsExpired(x) /\ x \in registry) /\ UNCHANGED doomed
    /\ UNCHANGED <<now, registry, heap, pc, call, history>>

CleanScanned ==
    /\ pc[Cleaner] = "scan"
    /\ unseen = {}
    /\ Goto(Cleaner, "remove")
    /\ UNCHANGED <<now, registry, heap, cleaner, history>>

\* A ticket granting ticket is expired, without asking again whether it is.
CleanNext ==
    /\ pc[Cleaner] = "remove"
    /\ \/ \E x \in doomed :
            /\ doomed' = doomed \ {x}
            /\ Enter(Cleaner, IF x \in TGT THEN "expire" ELSE "delete",
                     Holding(x))
       \/ doomed = {} /\ Return(Cleaner) /\ UNCHANGED doomed
    /\ UNCHANGED <<now, registry, heap, unseen, history>>

CleanDelete ==
    /\ pc[Cleaner] = "delete"
    /\ registry' = registry \ {call[Cleaner].ticket}
    /\ Enter(Cleaner, "remove", NoCall)
    /\ UNCHANGED <<now, heap, cleaner, history>>

-----------------------------------------------------------------------------
Call(th) ==
    \/ CreateTicketGrantingTicket(th)
    \/ GrantLookup(th) \/ ValidateLookup(th)
    \/ DelegateLookup(th) \/ DestroyLookup(th)

Proceed(th) ==
    \/ GrantCheck(th) \/ GrantAuthorize(th)
    \/ GrantServiceTicket(th) \/ AddTicket(th)
    \/ ValidateCheck(th) \/ ValidateUse(th)
    \/ ValidateFinally(th) \/ ValidateDelete(th)
    \/ DelegateCheck(th) \/ GrantTicketGrantingTicket(th)
    \/ Expire(th) \/ LogOutOfServices(th) \/ DestroyDelete(th)

Clean ==
    \/ CleanStart \/ CleanScan \/ CleanScanned \/ CleanNext
    \/ Expire(Cleaner) \/ LogOutOfServices(Cleaner) \/ CleanDelete

Next == Tick \/ Clean \/ \E th \in Thread : Call(th) \/ Proceed(th)

Spec == Init /\ [][Next]_vars

\* A request that has started runs to its end, and the quartz trigger runs the
\* cleaner again and again; nobody has to log in, out, or anywhere.
Fairness == WF_vars(Clean) /\ \A th \in Thread : WF_vars(Proceed(th))

FairSpec == Spec /\ Fairness

-----------------------------------------------------------------------------
Label == {"idle", "checkTgt", "authorize", "grant", "add", "checkSt", "use",
          "finally", "deleteSt", "checkProxied", "delegate", "expire", "logOut", "delete",
          "scan", "remove"}

AbstractTickets ==
    [granting : TGT \cup {NoTicket}, chain : SUBSET TGT,
     created : Nat, lastUsed : Nat, uses : Nat]
TicketGrantingTickets ==
    [principal : Principal \cup {ProxyPrincipal, NoCredentials},
     expired : BOOLEAN, services : SUBSET ST]
ServiceTickets ==
    [service : Service \cup {NoService}, newLogin : BOOLEAN,
     granted : BOOLEAN, loggedOut : BOOLEAN]
Calls ==
    [ticket : Ticket \cup {NoTicket}, service : Service \cup {NoService},
     credentials : Principal \cup {NoCredentials}, new : Ticket \cup {NoTicket}]

\* Every variable keeps its type.
TypeOK ==
    /\ now \in Nat
    /\ registry \subseteq Ticket
    /\ issued \subseteq Ticket
    /\ ticket \in [Ticket -> AbstractTickets]
    /\ tgt \in [TGT -> TicketGrantingTickets]
    /\ st \in [ST -> ServiceTickets]
    /\ pc \in [Proc -> Label]
    /\ call \in [Proc -> Calls]
    /\ unseen \subseteq Ticket
    /\ doomed \subseteq Ticket
    /\ assertions \in [ST -> Nat]
    /\ sent \in [ST -> Nat]
    /\ destroyed \subseteq TGT

\* A service ticket is good for numberOfUses assertions and no more, however
\* many threads validate it at once (validateServiceTicket holds its monitor
\* from isExpired to isValidFor).
UsesBounded == \A s \in ST : assertions[s] <= StNumberOfUses

\* Single sign-out is complete and sends nothing twice: once expire() is over,
\* every service that got an assertion from a ticket of this ticket granting
\* ticket has been sent exactly one logout request, even when the grant or the
\* validation was under way while the user logged out.
SingleSignOut ==
    /\ \A s \in ST : sent[s] <= 1
    /\ \A t \in TGT : tgt[t].expired /\ ~Locked(t) =>
          \A s \in ST : ticket[s].granting = t /\ assertions[s] > 0 => sent[s] = 1

\* "This has the effect of invalidating any Ticket that was derived from the
\* TicketGrantingTicket being destroyed" (CentralAuthenticationService.java).
DestroyInvalidatesDerived ==
    \A t \in destroyed, x \in issued :
        t \in {x} \cup ticket[x].chain => IsExpired(x)

\* A used up ticket is gone when the request that used it up returns: it does
\* not wait for the cleaner (the finally block of validateServiceTicket).
UsedUpTicketsLeave ==
    \A s \in ST : ticket[s].uses >= StNumberOfUses
                  /\ (\A th \in Thread : call[th].ticket # s) => s \notin registry

\* While expire() iterates over the services of a ticket nobody adds to them:
\* the map is a HashMap and would throw ConcurrentModificationException.
ServicesStableDuringLogout ==
    [][\A t \in TGT : Locked(t) => tgt'[t].services = tgt[t].services]_vars

\* A service ticket that has expired never comes back to life, although its
\* granting ticket may: a grant that passed its check just before the sliding
\* window closed moves the window on.
ExpiredServiceTicketStaysExpired ==
    [][\A s \in ST \cap issued : IsExpired(s) => IsExpired(s)']_vars

\* The cleaner reaches every ticket that is expired for good.
ExpiredTicketsLeave ==
    \A x \in Ticket : <>[](x \in issued /\ IsExpired(x)) => <>[](x \notin registry)
=============================================================================
