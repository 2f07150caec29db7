------------------------------ MODULE LoginFlow ------------------------------
(***************************************************************************)
(* The login web flow (login-webflow.xml and its actions) and the logout   *)
(* controller, as one browser uses them.                                   *)
(*                                                                         *)
(* Each window of the browser has an execution of the flow; all of them    *)
(* share the cookie of the ticket granting ticket.  A request is cut at    *)
(* its calls of the central authentication service, of which this module   *)
(* keeps what its clients see: which sessions are live.  The requests of   *)
(* one execution wait for each other; those of two windows do not, and     *)
(* their responses may arrive in any order or not at all.                  *)
(***************************************************************************)
EXTENDS Naturals, Sequences

CONSTANTS
    TGT,            \* ids of ticket granting tickets
    LT,             \* login tickets
    Window,
    None,
    CaptchaEnabled, \* CasUtility.isCaptchaValidate()
    MaxSnapshots    \* bound: pages of one execution the browser can go back to

ASSUME LoginAssumption ==
    /\ None \notin TGT \cup LT
    /\ CaptchaEnabled \in BOOLEAN
    /\ MaxSnapshots \in Nat \ {0}

VARIABLES
    cookie,   \* the browser's cookie: the id of a ticket granting ticket
    issued,   \* ticket granting tickets that have been created
    live,     \* ... that are neither destroyed nor expired
    provided, \* login tickets that have been generated
    flow,     \* each window's execution: what is in flow scope from its start
    shown,    \* the login ticket in flow scope at each page of the execution
    pc, req,  \* each window's request and its scope
    dropped,  \* history: sessions whose cookie was not sent (the captcha was
              \* wrong), got lost, or was overwritten by a response to a request
              \* that began when the cookie was another
    refused,  \* history: sessions whose captcha was wrong
    entered,  \* history: sessions that service tickets were granted on
    opened    \* history: logins each login ticket has led to the end

sessions == <<issued, live>>
pages    == <<flow, shown>>
history  == <<dropped, refused, entered, opened>>
vars     == <<cookie, sessions, provided, pages, pc, req, history>>

-----------------------------------------------------------------------------
Ended == [open |-> FALSE, tgt |-> None, service |-> FALSE]

\* tgt: the ticket this login has created; old: the ticket it replaces, or a
\* logout is about; lt: the login ticket submitted; send: what the response
\* does to the cookie; seen: the pages the browser had before.
NoRequest == [tgt |-> None, old |-> None, lt |-> None, send |-> "nothing", seen |-> 0]

\* WebUtils.getTicketGrantingTicketId: request scope first, then flow scope.
TicketGrantingTicketId(w) == IF req[w].tgt # None THEN req[w].tgt ELSE flow[w].tgt

\* The request's login has come to the end.
Opened(w) == [lt \in LT |-> IF lt = req[w].lt /\ req[w].tgt # None
                            THEN opened[lt] + 1 ELSE opened[lt]]

Goto(w, label) == pc' = [pc EXCEPT ![w] = label]

\* An end state: the execution and its pages are removed.
End(w) ==
    /\ flow' = [flow EXCEPT ![w] = Ended]
    /\ shown' = [shown EXCEPT ![w] = <<>>]
    /\ Goto(w, "respond")

\* viewLoginForm: a page of the execution with login ticket lt in flow scope.
Show(w, lt) ==
    /\ Len(shown[w]) < MaxSnapshots
    /\ shown' = [shown EXCEPT ![w] = Append(@, lt)]
    /\ Goto(w, "respond")
    /\ UNCHANGED flow

\* generateLoginTicket
ShowForm(w) ==
    \E lt \in LT \ provided : Show(w, lt) /\ provided' = provided \cup {lt}

\* loginResponse on "error": the form again, or the page for ajax clients.
LoginError(w) ==
    \/ ShowForm(w)
    \/ End(w) /\ UNCHANGED provided

Init ==
    /\ cookie = None
    /\ issued = {} /\ live = {} /\ provided = {}
    /\ flow = [w \in Window |-> Ended]
    /\ shown = [w \in Window |-> <<>>]
    /\ pc = [w \in Window |-> "idle"]
    /\ req = [w \in Window |-> NoRequest]
    /\ dropped = {} /\ refused = {} /\ entered = {}
    /\ opened = [lt \in LT |-> 0]

-----------------------------------------------------------------------------
(* The start of the flow *)

\* initialFlowSetup puts the cookie and the service into flow scope.  Without a
\* cookie, with renew, or for a client that asked for a login ticket, the form
\* is shown; with a cookie and a service a service ticket is asked for.  The
\* flows that end at once (generic success, gateway, service not registered)
\* change nothing.
Start(w) ==
    /\ pc[w] = "idle"
    /\ \E service \in BOOLEAN :
        /\ flow' = [flow EXCEPT ![w] = [open |-> TRUE, tgt |-> cookie, service |-> service]]
        /\ \/ \E lt \in LT \ provided :
                /\ shown' = [shown EXCEPT ![w] = <<lt>>]
                /\ provided' = provided \cup {lt}
                /\ Goto(w, "respond")
           \/ /\ cookie # None /\ service
              /\ shown' = [shown EXCEPT ![w] = <<>>]
              /\ Goto(w, "generateServiceTicket")
              /\ UNCHANGED provided
    /\ UNCHANGED <<cookie, sessions, req, history>>

\* Where a service outside single sign-on refuses the session, the form is
\* shown without a login ticket (UnauthorizedSsoServiceException); a ticket this
\* request has created has not been used yet, and is not refused.  A service
\* that has been unregistered ends the flow.
GenerateServiceTicket(w) == LET t == TicketGrantingTicketId(w) IN
    /\ pc[w] = "generateServiceTicket"
    /\ \/ /\ t \in live
          /\ \/ /\ End(w) /\ opened' = Opened(w)
                /\ entered' = entered \cup {t} \/ UNCHANGED entered
             \/ /\ req[w].tgt = None /\ Show(w, None)
                /\ UNCHANGED <<entered, opened>>
          /\ UNCHANGED provided
       \/ /\ t \notin live
          /\ LoginError(w)
          /\ UNCHANGED <<entered, opened>>
    /\ UNCHANGED <<cookie, sessions, req, dropped, refused>>

-----------------------------------------------------------------------------
(* The form is submitted. *)

\* Mutant: whatever login ticket is submitted will do.
Submit_AnyTicket(w) ==
    /\ pc[w] = "idle"
    /\ flow[w].open
    /\ \E page \in DOMAIN shown[w], lt \in provided \cup {None} :
        /\ req' = [req EXCEPT ![w].lt = lt, ![w].seen = Len(shown[w])]
        /\ \/ flow[w].tgt # None /\ flow[w].service /\ Goto(w, "renew")
           \/ Goto(w, "create")
        /\ UNCHANGED <<pages, provided>>
    /\ UNCHANGED <<cookie, sessions, history>>

\* From any page of the execution the browser has kept, with the login ticket
\* of this or another page.  What submit() removes from flow scope is still
\* there when an earlier page is submitted again.
Submit(w) ==
    /\ pc[w] = "idle"
    /\ flow[w].open
    /\ \E page \in DOMAIN shown[w], lt \in provided \cup {None} :
        \/ /\ lt = shown[w][page]
           /\ req' = [req EXCEPT ![w].lt = lt, ![w].seen = Len(shown[w])]
           /\ \/ flow[w].tgt # None /\ flow[w].service /\ Goto(w, "renew")
              \/ Goto(w, "create")
           /\ UNCHANGED <<pages, provided>>
        \/ /\ lt # shown[w][page]
           /\ LoginError(w)
           /\ req' = [req EXCEPT ![w].seen = Len(shown[w])]
    /\ UNCHANGED <<cookie, sessions, history>>

\* grantServiceTicket with the credentials of the form: another user's, or an
\* ended session, lead to a new one.  The captcha is not asked for.  A service
\* that has been unregistered ends the flow.
Renew(w) == LET t == flow[w].tgt IN
    /\ pc[w] = "renew"
    /\ \/ /\ t \in live
          /\ \/ /\ End(w) /\ UNCHANGED provided
                /\ entered' = entered \cup {t} \/ UNCHANGED entered
             \/ LoginError(w) /\ UNCHANGED entered
             \/ Goto(w, "destroyOther") /\ UNCHANGED <<pages, entered, provided>>
       \/ /\ t \notin live
          /\ Goto(w, "destroyOther")
          /\ UNCHANGED <<pages, entered, provided>>
    /\ UNCHANGED <<cookie, sessions, req, dropped, refused, opened>>

DestroyOther(w) ==
    /\ pc[w] = "destroyOther"
    /\ live' = live \ {flow[w].tgt}
    /\ Goto(w, "create")
    /\ UNCHANGED <<cookie, issued, provided, pages, req, history>>

\* Mutant: an AuthenticationException is "success" to the flow.
Create_GoesOn(w) ==
    /\ pc[w] = "create"
    /\ \/ /\ \E t \in TGT \ issued :
                /\ issued' = issued \cup {t} /\ live' = live \cup {t}
                /\ req' = [req EXCEPT ![w].tgt = t]
          /\ Goto(w, "captcha")
       \/ Goto(w, "captcha") /\ UNCHANGED <<sessions, req>>
    /\ UNCHANGED <<cookie, provided, pages, history>>

\* createTicketGrantingTicket, or an AuthenticationException.
Create(w) ==
    /\ pc[w] = "create"
    /\ \/ /\ \E t \in TGT \ issued :
                /\ issued' = issued \cup {t} /\ live' = live \cup {t}
                /\ req' = [req EXCEPT ![w].tgt = t]
          /\ Goto(w, "captcha")
          /\ UNCHANGED <<pages, provided>>
       \/ LoginError(w) /\ UNCHANGED <<sessions, req>>
    /\ UNCHANGED <<cookie, history>>

\* Mutant: the new ticket has been put into flow scope.
Captcha_KeepsTicket(w) == LET t == req[w].tgt IN
    /\ pc[w] = "captcha"
    /\ \/ Goto(w, "send") /\ UNCHANGED <<pages, provided, req, history>>
       \/ /\ CaptchaEnabled
          /\ \E lt \in LT \ provided :
                /\ provided' = provided \cup {lt}
                /\ shown' = [shown EXCEPT ![w] = <<lt>>]
          /\ flow' = [flow EXCEPT ![w].tgt = t]
          /\ Goto(w, "respond")
          /\ refused' = refused \cup {t} /\ dropped' = dropped \cup {t}
          /\ req' = [req EXCEPT ![w].tgt = None]
          /\ UNCHANGED <<entered, opened>>
    /\ UNCHANGED <<cookie, sessions>>

\* captchaValidate.  The session exists already; its id is in request scope,
\* and is forgotten with the request.
Captcha(w) == LET t == req[w].tgt IN
    /\ pc[w] = "captcha"
    /\ \/ Goto(w, "send") /\ UNCHANGED <<pages, provided, req, history>>
       \/ /\ CaptchaEnabled
          /\ LoginError(w)
          /\ refused' = refused \cup {t} /\ dropped' = dropped \cup {t}
          /\ req' = [req EXCEPT ![w].tgt = None]
          /\ UNCHANGED <<entered, opened>>
    /\ UNCHANGED <<cookie, sessions>>

\* Mutant: the session of the old cookie is left alone.
SendTicketGrantingTicket_KeepsOld(w) == LET t == req[w].tgt IN
    /\ pc[w] = "send"
    /\ req' = [req EXCEPT ![w].send = "cookie", ![w].old = flow[w].tgt]
    /\ IF flow[w].service
          THEN Goto(w, "generateServiceTicket") /\ UNCHANGED <<pages, opened>>
          ELSE End(w) /\ opened' = Opened(w)
    /\ UNCHANGED <<cookie, sessions, provided, dropped, refused, entered>>

\* sendTicketGrantingTicket: the cookie the flow began with is replaced.
SendTicketGrantingTicket(w) == LET t == req[w].tgt IN
    /\ pc[w] = "send"
    /\ req' = [req EXCEPT ![w].send = "cookie", ![w].old = flow[w].tgt]
    /\ live' = live \ ({flow[w].tgt} \ {t})
    /\ IF flow[w].service
          THEN Goto(w, "generateServiceTicket") /\ UNCHANGED <<pages, opened>>
          ELSE End(w) /\ opened' = Opened(w)
    /\ UNCHANGED <<cookie, issued, provided, dropped, refused, entered>>

-----------------------------------------------------------------------------
(* LogoutController *)

\* With a service, a service ticket is first drawn and validated; when that
\* fails an exception leaves the controller, and nothing is destroyed.
Logout(w) ==
    /\ pc[w] = "idle"
    /\ cookie # None
    /\ req' = [req EXCEPT ![w].old = cookie, ![w].seen = Len(shown[w])]
    /\ Goto(w, "logout")
    /\ UNCHANGED <<cookie, sessions, provided, pages, history>>

LogoutFails(w) ==
    /\ pc[w] = "logout"
    /\ Goto(w, "respond")
    /\ UNCHANGED <<cookie, sessions, provided, pages, req, history>>

\* Mutant: only the cookie is removed.
DestroyTicketGrantingTicket_CookieOnly(w) ==
    /\ pc[w] = "logout"
    /\ req' = [req EXCEPT ![w].send = "removal"]
    /\ Goto(w, "respond")
    /\ UNCHANGED <<cookie, sessions, provided, pages, history>>

DestroyTicketGrantingTicket(w) ==
    /\ pc[w] = "logout"
    /\ live' = live \ {req[w].old}
    /\ req' = [req EXCEPT ![w].send = "removal"]
    /\ Goto(w, "respond")
    /\ UNCHANGED <<cookie, issued, provided, pages, history>>

-----------------------------------------------------------------------------
(* The browser *)

\* The response arrives, with its cookie; of an execution that has ended the
\* browser keeps no page.
Respond(w) == LET r == req[w] IN
    /\ pc[w] = "respond"
    /\ cookie' = CASE r.send = "cookie"  -> r.tgt
                   [] r.send = "removal" -> None
                   [] r.send = "nothing" -> cookie
    /\ dropped' = IF cookie' # cookie THEN dropped \cup ({cookie} \ {r.old, None}) ELSE dropped
    /\ req' = [req EXCEPT ![w] = NoRequest]
    /\ Goto(w, "idle")
    /\ UNCHANGED <<sessions, provided, pages, refused, entered, opened>>

\* ... or is lost: the connection broke, or the form was submitted again.
ResponseLost(w) ==
    /\ pc[w] = "respond"
    /\ dropped' = IF req[w].send = "cookie" THEN dropped \cup {req[w].tgt} ELSE dropped
    /\ shown' = [shown EXCEPT ![w] = IF Len(@) > req[w].seen
                                        THEN SubSeq(@, 1, req[w].seen) ELSE @]
    /\ req' = [req EXCEPT ![w] = NoRequest]
    /\ Goto(w, "idle")
    /\ UNCHANGED <<cookie, sessions, provided, flow, refused, entered, opened>>

\* A session ends by itself: its expiration policy, an administrator, a restart.
SessionEnds(t) ==
    /\ t \in live
    /\ live' = live \ {t}
    /\ UNCHANGED <<cookie, issued, provided, pages, pc, req, history>>

-----------------------------------------------------------------------------
Request(w) == Start(w) \/ Submit(w) \/ Logout(w)

Proceed(w) ==
    \/ GenerateServiceTicket(w)
    \/ Renew(w) \/ DestroyOther(w) \/ Create(w) \/ Captcha(w)
    \/ SendTicketGrantingTicket(w)
    \/ LogoutFails(w) \/ DestroyTicketGrantingTicket(w)
    \/ Respond(w) \/ ResponseLost(w)

Next ==
    \/ \E w \in Window : Request(w) \/ Proceed(w)
    \/ \E t \in TGT : SessionEnds(t)

Spec == Init /\ [][Next]_vars

-----------------------------------------------------------------------------
Ids == TGT \cup {None}

\* Every variable keeps its type.
TypeOK ==
    /\ cookie \in Ids
    /\ issued \subseteq TGT /\ live \subseteq issued
    /\ provided \subseteq LT
    /\ flow \in [Window -> [open : BOOLEAN, tgt : Ids, service : BOOLEAN]]
    /\ shown \in [Window -> Seq(LT \cup {None})]
    /\ \A w \in Window : Len(shown[w]) <= MaxSnapshots
    /\ pc \in [Window -> {"idle", "generateServiceTicket", "renew", "destroyOther", "create",
                           "captcha", "send", "logout", "respond"}]
    /\ req \in [Window -> [tgt : Ids, old : Ids, lt : LT \cup {None},
                            send : {"nothing", "cookie", "removal"}, seen : Nat]]
    /\ dropped \subseteq issued /\ refused \subseteq dropped /\ entered \subseteq issued
    /\ opened \in [LT -> Nat]

\* A session the browser has no cookie for, that no request is about to send
\* one for, and that is live all the same, is one whose captcha was wrong, whose
\* cookie was lost, or whose cookie was overwritten by an answer to a request
\* from before it: on every other path the login flow and the logout end a
\* session before its cookie goes.
NoOtherOrphans ==
    live \subseteq {cookie} \cup {req[w].tgt : w \in Window} \cup dropped

\* A session whose captcha was wrong is of no use: no cookie is sent for it and
\* no service ticket granted on it, in that request or a later one.
CaptchaGuardsSession == refused \cap ({cookie} \cup entered) = {}

\* A login ticket leads to one login at most, although the page it is on can be
\* gone back to and submitted again, and another window may submit it: it is
\* accepted by its own execution only, which a login ends
\* (AuthenticationViaFormAction.submit).
OneLoginPerTicket == \A lt \in LT : opened[lt] <= 1
=============================================================================
