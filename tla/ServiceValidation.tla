-------------------------- MODULE ServiceValidation --------------------------
(***************************************************************************)
(* An application and the central authentication service: validation       *)
(* requests (ServiceValidateController, Cas20ProxyHandler) against the     *)
(* logout messages of one session (AbstractWebApplicationService and the   *)
(* executor of HttpClient).                                                *)
(*                                                                         *)
(* Of the service this module keeps one session, its service tickets, good *)
(* for one use, and whether they have expired.  A validation request is    *)
(* cut at its calls of the service and at its calls of the application.    *)
(* The application opens a session of its own when it receives an          *)
(* assertion, and closes it when it receives the logout message.           *)
(***************************************************************************)
EXTENDS Naturals, FiniteSets

CONSTANTS ST, Request, NoTicket

ASSUME ValidationAssumption == NoTicket \notin ST

VARIABLES
    session,    \* of the ticket granting ticket, see TypeOK
    granted,    \* its services map: the service tickets granted on it
    used,       \* service tickets that have been used
    delegated,  \* ... that a proxy granting ticket has been granted for
    told,       \* ... whose service object is loggedOutAlready
    queue,      \* logout messages submitted to the executor
    up,         \* the executor has not been shut down
    pc, req,    \* validation requests
    local,      \* what the application has for each service ticket
    callbacks,  \* history: proxy granting tickets called back for each ticket
    asserted,   \* history: tickets whose assertion met the specification
    lost,       \* history: tickets whose logout message was not delivered
    overtaken   \* history: tickets whose logout message was delivered while
                \* the assertion was on its way to the application

tickets  == <<session, granted, used, delegated>>
messages == <<told, queue, up>>
history  == <<callbacks, asserted, lost, overtaken>>
vars     == <<tickets, messages, pc, req, local, history>>

-----------------------------------------------------------------------------
\* pgt: the request has been granted a proxy granting ticket.
NoRequest == [st |-> NoTicket, pgt |-> FALSE]

Enter(r, label, q) == pc' = [pc EXCEPT ![r] = label] /\ req' = [req EXCEPT ![r] = q]
Goto(r, label)     == Enter(r, label, req[r])

\* The error view, or a response nobody waits for any more.
Return(r)          == Enter(r, "idle", NoRequest)

\* A one-time ticket, or one of a session that has ended.
Expired(s) == s \in used \/ session # "live"

Init ==
    /\ session = "live" /\ granted = {} /\ used = {} /\ delegated = {}
    /\ told = {} /\ queue = {} /\ up = TRUE
    /\ pc = [r \in Request |-> "idle"]
    /\ req = [r \in Request |-> NoRequest]
    /\ local = [s \in ST |-> "none"]
    /\ callbacks = [s \in ST |-> 0]
    /\ asserted = {} /\ lost = {} /\ overtaken = {}

GrantServiceTicket(s) ==
    /\ session = "live"
    /\ s \notin granted
    /\ granted' = granted \cup {s}
    /\ UNCHANGED <<session, used, delegated, messages, pc, req, local, history>>

-----------------------------------------------------------------------------
(* serviceValidate *)

\* An application that has no session for a ticket validates it, for the first
\* time or again; with the parameter pgtUrl or without.
Validate(r) ==
    /\ pc[r] = "idle"
    /\ \E s \in granted, label \in {"delegate", "validate"} :
        local[s] = "none" /\ Enter(r, label, [NoRequest EXCEPT !.st = s])
    /\ UNCHANGED <<tickets, messages, local, history>>

\* The ticket is delegated before it is validated.  A TicketException (it has
\* expired, or the callback's credentials are no good) is logged; a service that
\* may not proxy, or a ticket delegated before, end the request, and leave the
\* ticket unused.
DelegateTicketGrantingTicket(r) == LET s == req[r].st IN
    /\ pc[r] = "delegate"
    /\ \/ Goto(r, "validate") /\ UNCHANGED delegated
       \/ ~Expired(s) /\ Return(r) /\ UNCHANGED delegated
       \/ /\ ~Expired(s) /\ s \notin delegated
          /\ delegated' = delegated \cup {s}
          /\ Enter(r, "validate", [req[r] EXCEPT !.pgt = TRUE])
    /\ UNCHANGED <<session, granted, used, messages, local, history>>

\* Mutant: the callback is made whether or not the ticket was valid.
ValidateServiceTicket_CallsBackAnyway(r) == LET s == req[r].st IN
    /\ pc[r] = "validate"
    /\ \/ /\ \/ UNCHANGED used
             \/ ~Expired(s) /\ used' = used \cup {s}
          /\ Goto(r, IF req[r].pgt THEN "callback" ELSE "success")
          /\ UNCHANGED asserted
       \/ /\ ~Expired(s)
          /\ used' = used \cup {s} /\ asserted' = asserted \cup {s}
          /\ Goto(r, IF req[r].pgt THEN "callback" ELSE "success")
    /\ UNCHANGED <<session, granted, delegated, messages, local, callbacks, lost, overtaken>>

\* The use counts whether or not the service in the request is the ticket's, and
\* whether or not the assertion then meets the specification (renew, no proxies);
\* a service that is not enabled is refused before the ticket is used.
ValidateServiceTicket(r) == LET s == req[r].st IN
    /\ pc[r] = "validate"
    /\ \/ /\ \/ UNCHANGED used
             \/ ~Expired(s) /\ used' = used \cup {s}
          /\ Return(r)
          /\ UNCHANGED asserted
       \/ /\ ~Expired(s)
          /\ used' = used \cup {s} /\ asserted' = asserted \cup {s}
          /\ Goto(r, IF req[r].pgt THEN "callback" ELSE "success")
    /\ UNCHANGED <<session, granted, delegated, messages, local, callbacks, lost, overtaken>>

\* Cas20ProxyHandler.handle: whether or not the application accepts the proxy
\* granting ticket, the validation succeeds.
Handle(r) == LET s == req[r].st IN
    /\ pc[r] = "callback"
    /\ callbacks' = [callbacks EXCEPT ![s] = @ + 1]
    /\ Goto(r, "success")
    /\ UNCHANGED <<tickets, messages, local, asserted, lost, overtaken>>

\* The application receives the response, or gives up waiting for it.
Respond(r) == LET s == req[r].st IN
    /\ pc[r] = "success"
    /\ local' = [local EXCEPT ![s] = "open"] \/ UNCHANGED local
    /\ Return(r)
    /\ UNCHANGED <<tickets, messages, history>>

-----------------------------------------------------------------------------
(* The end of the session *)

\* The policy of the session.
TimesOut ==
    /\ session = "live"
    /\ session' = "timedOut"
    /\ UNCHANGED <<granted, used, delegated, messages, pc, req, local, history>>

\* grantServiceTicket deletes a session it finds expired; nobody is told.
GrantDeletes ==
    /\ session \in {"timedOut", "interrupted"}
    /\ session' = "dropped"
    /\ UNCHANGED <<granted, used, delegated, messages, pc, req, local, history>>

\* TicketGrantingTicketImpl.expire, by a logout or by the cleaner.
Expire ==
    /\ session \in {"live", "timedOut", "interrupted"}
    /\ session' = "expired"
    /\ UNCHANGED <<granted, used, delegated, messages, pc, req, local, history>>

\* Mutant: only services whose ticket is still in the registry are told.
LogOutOfService_Unused(s) ==
    /\ session = "expired"
    /\ s \in granted \ told
    /\ told' = told \cup {s}
    /\ queue' = IF s \in used THEN queue ELSE queue \cup {s}
    /\ UNCHANGED <<tickets, up, pc, req, local, history>>

\* Mutant: services of other sessions are told too.
LogOutOfService_OfAnySession(s) ==
    /\ session = "expired"
    /\ s \notin told
    /\ told' = told \cup {s}
    /\ queue' = queue \cup {s}
    /\ UNCHANGED <<tickets, up, pc, req, local, history>>

\* The flag is set before the message is submitted.  When the executor has been
\* shut down the submission throws, and the exception leaves expire(): the
\* session has expired but is not deleted.
LogOutOfService(s) ==
    /\ session = "expired"
    /\ s \in granted \ told
    /\ told' = told \cup {s}
    /\ \/ /\ up
          /\ queue' = queue \cup {s}
          /\ UNCHANGED <<session, lost>>
       \/ /\ ~up
          /\ lost' = lost \cup {s} /\ session' = "interrupted"
          /\ UNCHANGED queue
    /\ UNCHANGED <<granted, used, delegated, up, pc, req, local, callbacks, asserted, overtaken>>

DeleteTicket ==
    /\ session = "expired"
    /\ granted \subseteq told
    /\ session' = "gone"
    /\ UNCHANGED <<granted, used, delegated, messages, pc, req, local, history>>

-----------------------------------------------------------------------------
(* The executor of HttpClient *)

\* Mutant: what is queued is dropped by the shutdown.
MessageSenderCall_WhileUp(s) ==
    /\ s \in queue /\ up
    /\ queue' = queue \ {s}
    /\ local' = [local EXCEPT ![s] = IF @ = "open" THEN "closed" ELSE @]
    /\ overtaken' = IF \E r \in Request : req[r].st = s /\ pc[r] \in {"callback", "success"}
                    THEN overtaken \cup {s} ELSE overtaken
    /\ UNCHANGED <<tickets, told, up, pc, req, callbacks, asserted, lost>>

\* MessageSender.call: one attempt.  A hundred threads send in any order.
MessageSenderCall(s) ==
    /\ s \in queue
    /\ queue' = queue \ {s}
    /\ \/ /\ local' = [local EXCEPT ![s] = IF @ = "open" THEN "closed" ELSE @]
          /\ overtaken' = IF \E r \in Request :
                                req[r].st = s /\ pc[r] \in {"callback", "success"}
                          THEN overtaken \cup {s} ELSE overtaken
          /\ UNCHANGED lost
       \/ lost' = lost \cup {s} /\ UNCHANGED <<local, overtaken>>
    /\ UNCHANGED <<tickets, told, up, pc, req, callbacks, asserted>>

\* HttpClient.destroy: what is queued is still sent, nothing more is accepted.
Shutdown ==
    /\ up
    /\ up' = FALSE
    /\ UNCHANGED <<tickets, told, queue, pc, req, local, history>>

-----------------------------------------------------------------------------
Proceed(r) ==
    \/ DelegateTicketGrantingTicket(r) \/ ValidateServiceTicket(r)
    \/ Handle(r) \/ Respond(r)

LogOut == DeleteTicket \/ \E s \in ST : LogOutOfService(s)

Next ==
    \/ \E r \in Request : Validate(r) \/ Proceed(r)
    \/ TimesOut \/ GrantDeletes \/ Expire \/ LogOut \/ Shutdown
    \/ \E s \in ST : GrantServiceTicket(s) \/ MessageSenderCall(s)

Spec == Init /\ [][Next]_vars

\* Requests and logouts that have started run to their end, and each message is
\* attempted.  Nobody has to log in or out, or to shut the executor down.
Fairness ==
    /\ \A r \in Request : WF_vars(Proceed(r))
    /\ WF_vars(LogOut)
    /\ \A s \in ST : WF_vars(MessageSenderCall(s))

FairSpec == Spec /\ Fairness

-----------------------------------------------------------------------------
\* Every variable keeps its type.
TypeOK ==
    /\ session \in {"live", "timedOut", "expired", "interrupted", "dropped", "gone"}
    /\ granted \subseteq ST /\ used \subseteq granted /\ delegated \subseteq granted
    /\ told \subseteq granted /\ queue \subseteq told /\ up \in BOOLEAN
    /\ pc \in [Request -> {"idle", "delegate", "validate", "callback", "success"}]
    /\ req \in [Request -> [st : ST \cup {NoTicket}, pgt : BOOLEAN]]
    /\ local \in [ST -> {"none", "open", "closed"}]
    /\ callbacks \in [ST -> Nat]
    /\ asserted \subseteq used /\ lost \subseteq told /\ overtaken \subseteq told

\* Once a session has been logged out and its messages have been sent, an
\* application has a session left only where its message was not delivered, or
\* came before the assertion it is about.
LogoutClosesApplications ==
    session = "gone" =>
        \A s \in ST : local[s] = "open" => s \in queue \cup lost \cup overtaken

\* A proxy granting ticket is called back once for a service ticket, however
\* often and by whomever the ticket is presented, and only to the request whose
\* assertion met the specification (the ticket is delegated before it is
\* validated, ServiceValidateController).
OneProxyGrantingTicketPerAssertion ==
    \A s \in ST : callbacks[s] <= 1 /\ (callbacks[s] = 1 => s \in asserted)

\* A logout that starts comes to its end: each application has its session
\* closed, unless the message was lost or overtook the assertion, or a shutdown
\* interrupted the logout.
LogoutComesToItsEnd ==
    [](session = "expired" =>
        <>[](\/ session \in {"interrupted", "dropped"}
             \/ \A s \in ST : local[s] = "open" => s \in lost \cup overtaken))
=============================================================================
