------------------------ MODULE ServiceValidation_proofs ------------------------
(***************************************************************************)
(* What a logout leaves open in the applications, and how often a proxy    *)
(* granting ticket is called back, for any number of service tickets and   *)
(* of validation requests.                                                 *)
(***************************************************************************)
EXTENDS ServiceValidation, TLAPS

USE DEF Goto, Return, tickets, messages, history

Labels == {"idle", "delegate", "validate", "callback", "success"}

\* A request is about a ticket that has been granted; the callback comes after
\* the assertion, and is made by the only request that drew the proxy granting
\* ticket.
RequestInv ==
    /\ \A r \in Request :
        /\ pc[r] # "idle" => req[r].st \in granted
        /\ pc[r] \in {"callback", "success"} => req[r].st \in asserted
        /\ pc[r] = "delegate" => ~req[r].pgt
        /\ pc[r] = "callback" => req[r].pgt
        /\ pc[r] \in {"validate", "callback"} /\ req[r].pgt =>
              req[r].st \in delegated /\ callbacks[req[r].st] = 0
    /\ \A r, q \in Request :
        /\ pc[r] \in {"validate", "callback"} /\ req[r].pgt
        /\ pc[q] \in {"validate", "callback"} /\ req[q].pgt
        /\ req[r].st = req[q].st
        => r = q

CallbackInv ==
    \A s \in ST :
        /\ callbacks[s] <= 1
        /\ callbacks[s] = 1 => s \in asserted
        /\ s \notin delegated => callbacks[s] = 0

\* An application has, or is about to open, a session for the ticket.
Pending(s) ==
    \/ local[s] = "open"
    \/ \E r \in Request : pc[r] \in {"callback", "success"} /\ req[r].st = s

\* Services are told once the session has ended, when no assertion is given any
\* more: what is open or about to be then has a message under way, or had one.
LogoutInv ==
    /\ told # {} => session # "live"
    /\ session = "gone" => granted \subseteq told
    /\ \A s \in ST : local[s] = "open" => s \in asserted
    /\ \A s \in told : Pending(s) => s \in queue \cup lost \cup overtaken

Inv == TypeOK /\ RequestInv /\ CallbackInv /\ LogoutInv

-----------------------------------------------------------------------------
LEMMA InvInit == Init => Inv
<1> SUFFICES ASSUME Init PROVE Inv
    OBVIOUS
<1> USE ValidationAssumption DEF Init
<1>1. TypeOK
      BY DEF TypeOK, NoRequest
<1>2. RequestInv
      BY DEF RequestInv
<1>3. CallbackInv
      BY DEF CallbackInv
<1>4. LogoutInv
      BY DEF LogoutInv
<1> QED BY <1>1, <1>2, <1>3, <1>4 DEF Inv

\* Entering a label leaves the other requests where they are.
LEMMA EnterControl ==
    ASSUME TypeOK, NEW r \in Request, NEW label \in Labels,
           NEW q \in [st : ST \cup {NoTicket}, pgt : BOOLEAN], Enter(r, label, q)
    PROVE  /\ pc'[r] = label /\ req'[r] = q
           /\ \A o \in Request \ {r} : pc'[o] = pc[o] /\ req'[o] = req[o]
           /\ pc' \in [Request -> Labels]
           /\ req' \in [Request -> [st : ST \cup {NoTicket}, pgt : BOOLEAN]]
BY DEF Enter, TypeOK, Labels

\* A response that ends a request.
LEMMA ReturnControl ==
    ASSUME TypeOK, NEW r \in Request, Enter(r, "idle", NoRequest)
    PROVE  /\ pc'[r] = "idle"
           /\ \A o \in Request \ {r} : pc'[o] = pc[o] /\ req'[o] = req[o]
           /\ pc' \in [Request -> Labels]
           /\ req' \in [Request -> [st : ST \cup {NoTicket}, pgt : BOOLEAN]]
BY EnterControl DEF NoRequest, Labels

\* A request that ends, or gets no further than before, disturbs nothing.
LEMMA ReturnStep ==
    ASSUME Inv, NEW r \in Request, Enter(r, "idle", NoRequest),
           UNCHANGED <<tickets, messages, local, history>>
    PROVE  Inv'
<1> USE DEF Inv
<1>1. /\ pc'[r] = "idle"
      /\ \A o \in Request \ {r} : pc'[o] = pc[o] /\ req'[o] = req[o]
      BY ReturnControl
<1>2. TypeOK'
      BY ReturnControl DEF TypeOK, Labels
<1>3. RequestInv'
      BY <1>1 DEF RequestInv
<1>4. CallbackInv'
      BY DEF CallbackInv
<1>5. LogoutInv'
      BY <1>1 DEF LogoutInv, Pending
<1> QED BY <1>2, <1>3, <1>4, <1>5

-----------------------------------------------------------------------------
LEMMA ValidateStep ==
    ASSUME Inv, NEW r \in Request, Validate(r)
    PROVE  Inv'
<1> USE DEF Inv
<1>1. PICK s \in granted, label \in {"delegate", "validate"} :
          Enter(r, label, [NoRequest EXCEPT !.st = s])
      BY DEF Validate
<1> DEFINE q == [NoRequest EXCEPT !.st = s]
<1>2. q.st = s /\ ~q.pgt /\ q \in [st : ST \cup {NoTicket}, pgt : BOOLEAN]
      BY DEF NoRequest, TypeOK
<1> HIDE DEF q
<1>3. pc[r] = "idle" /\ UNCHANGED <<tickets, messages, local, history>>
      BY DEF Validate
<1>4. /\ pc'[r] = label /\ req'[r] = q
      /\ \A o \in Request \ {r} : pc'[o] = pc[o] /\ req'[o] = req[o]
      /\ pc' \in [Request -> Labels]
      /\ req' \in [Request -> [st : ST \cup {NoTicket}, pgt : BOOLEAN]]
      BY <1>1, <1>2, EnterControl DEF Labels, q
<1>5. TypeOK'
      BY <1>3, <1>4 DEF TypeOK, Labels
<1>6. RequestInv'
      BY <1>2, <1>3, <1>4 DEF RequestInv
<1>7. CallbackInv'
      BY <1>3 DEF CallbackInv
<1>8. LogoutInv'
      BY <1>3, <1>4 DEF LogoutInv, Pending
<1> QED BY <1>5, <1>6, <1>7, <1>8

LEMMA DelegateStep ==
    ASSUME Inv, NEW r \in Request, DelegateTicketGrantingTicket(r)
    PROVE  Inv'
<1> DEFINE s == req[r].st
<1> USE DEF Inv
<1>1. /\ pc[r] = "delegate"
      /\ UNCHANGED <<session, granted, used, messages, local, history>>
      BY DEF DelegateTicketGrantingTicket
<1>2. s \in granted /\ s \in ST /\ ~req[r].pgt
      /\ req[r] \in [st : ST \cup {NoTicket}, pgt : BOOLEAN]
      BY <1>1 DEF RequestInv, TypeOK
<1>3. CASE Enter(r, "validate", req[r]) /\ UNCHANGED delegated
  <2>1. /\ pc'[r] = "validate" /\ req'[r] = req[r]
        /\ \A o \in Request \ {r} : pc'[o] = pc[o] /\ req'[o] = req[o]
        /\ pc' \in [Request -> Labels]
        /\ req' \in [Request -> [st : ST \cup {NoTicket}, pgt : BOOLEAN]]
        BY <1>2, <1>3, EnterControl DEF Labels
  <2>2. TypeOK'
        BY <1>1, <1>3, <2>1 DEF TypeOK, Labels
  <2>3. RequestInv'
        BY <1>1, <1>2, <1>3, <2>1 DEF RequestInv
  <2>4. CallbackInv' /\ LogoutInv'
        BY <1>1, <1>3, <2>1 DEF CallbackInv, LogoutInv, Pending
  <2> QED BY <2>2, <2>3, <2>4
<1>4. CASE Enter(r, "idle", NoRequest) /\ UNCHANGED delegated
      BY <1>1, <1>4, ReturnStep
<1>5. CASE /\ s \notin delegated
           /\ delegated' = delegated \cup {s}
           /\ Enter(r, "validate", [req[r] EXCEPT !.pgt = TRUE])
  <2> DEFINE q == [req[r] EXCEPT !.pgt = TRUE]
  <2>1. q.st = s /\ q.pgt /\ q \in [st : ST \cup {NoTicket}, pgt : BOOLEAN]
        BY <1>2
  <2> HIDE DEF q
  <2>2. /\ pc'[r] = "validate" /\ req'[r] = q
        /\ \A o \in Request \ {r} : pc'[o] = pc[o] /\ req'[o] = req[o]
        /\ pc' \in [Request -> Labels]
        /\ req' \in [Request -> [st : ST \cup {NoTicket}, pgt : BOOLEAN]]
        BY <1>5, <2>1, EnterControl DEF Labels, q
  <2>3. TypeOK'
        BY <1>1, <1>2, <1>5, <2>2 DEF TypeOK, Labels
  <2>4. callbacks[s] = 0
        BY <1>2, <1>5 DEF CallbackInv
  <2>5. \A o \in Request : pc[o] \in {"validate", "callback"} /\ req[o].pgt => req[o].st # s
        BY <1>5 DEF RequestInv
  <2>6. RequestInv'
        BY <1>1, <1>2, <1>5, <2>1, <2>2, <2>4, <2>5 DEF RequestInv
  <2>7. CallbackInv' /\ LogoutInv'
        BY <1>1, <1>5, <2>2 DEF CallbackInv, LogoutInv, Pending
  <2> QED BY <2>3, <2>6, <2>7
<1> QED BY <1>3, <1>4, <1>5 DEF DelegateTicketGrantingTicket

LEMMA ValidateServiceTicketStep ==
    ASSUME Inv, NEW r \in Request, ValidateServiceTicket(r)
    PROVE  Inv'
<1> DEFINE s == req[r].st
<1> USE DEF Inv
<1>1. /\ pc[r] = "validate"
      /\ used' \in {used, used \cup {s}}
      /\ UNCHANGED <<session, granted, delegated, messages, local, callbacks, lost, overtaken>>
      BY DEF ValidateServiceTicket
<1>2. s \in granted /\ s \in ST /\ req[r] \in [st : ST \cup {NoTicket}, pgt : BOOLEAN]
      BY <1>1 DEF RequestInv, TypeOK
<1>3. used \subseteq used' /\ used' \subseteq granted
      BY <1>1, <1>2 DEF TypeOK
<1>4. CASE Enter(r, "idle", NoRequest) /\ UNCHANGED asserted
  <2>1. /\ pc'[r] = "idle"
        /\ \A o \in Request \ {r} : pc'[o] = pc[o] /\ req'[o] = req[o]
        /\ pc' \in [Request -> Labels]
        /\ req' \in [Request -> [st : ST \cup {NoTicket}, pgt : BOOLEAN]]
        BY <1>4, ReturnControl
  <2>2. TypeOK'
        BY <1>1, <1>3, <1>4, <2>1 DEF TypeOK, Labels
  <2>3. RequestInv'
        BY <1>1, <1>4, <2>1 DEF RequestInv
  <2>4. CallbackInv' /\ LogoutInv'
        BY <1>1, <1>4, <2>1 DEF CallbackInv, LogoutInv, Pending
  <2> QED BY <2>2, <2>3, <2>4
<1>5. CASE /\ ~Expired(s)
           /\ used' = used \cup {s} /\ asserted' = asserted \cup {s}
           /\ Enter(r, IF req[r].pgt THEN "callback" ELSE "success", req[r])
  <2>1. /\ pc'[r] = (IF req[r].pgt THEN "callback" ELSE "success") /\ req'[r] = req[r]
        /\ \A o \in Request \ {r} : pc'[o] = pc[o] /\ req'[o] = req[o]
        /\ pc' \in [Request -> Labels]
        /\ req' \in [Request -> [st : ST \cup {NoTicket}, pgt : BOOLEAN]]
        BY <1>2, <1>5, EnterControl DEF Labels
  <2>2. asserted' \subseteq used'
        BY <1>1, <1>3, <1>5 DEF TypeOK
  <2>3. TypeOK'
        BY <1>1, <1>3, <2>1, <2>2 DEF TypeOK, Labels
  <2>4. RequestInv'
        BY <1>1, <1>2, <1>5, <2>1 DEF RequestInv
  <2>5. CallbackInv'
        BY <1>1, <1>5 DEF CallbackInv
  <2>6. told = {}
        BY <1>5 DEF Expired, LogoutInv
  <2>7. LogoutInv'
        BY <1>1, <1>5, <2>6 DEF LogoutInv
  <2> QED BY <2>3, <2>4, <2>5, <2>7
<1> QED BY <1>4, <1>5 DEF ValidateServiceTicket

LEMMA HandleStep ==
    ASSUME Inv, NEW r \in Request, Handle(r)
    PROVE  Inv'
<1> DEFINE s == req[r].st
<1> USE DEF Inv
<1>1. /\ pc[r] = "callback"
      /\ callbacks' = [callbacks EXCEPT ![s] = @ + 1]
      /\ Enter(r, "success", req[r])
      /\ UNCHANGED <<tickets, messages, local, asserted, lost, overtaken>>
      BY DEF Handle
<1>2. /\ s \in granted /\ s \in ST /\ req[r] \in [st : ST \cup {NoTicket}, pgt : BOOLEAN]
      /\ s \in asserted /\ s \in delegated /\ callbacks[s] = 0 /\ req[r].pgt
      BY <1>1 DEF RequestInv, TypeOK
<1>3. /\ pc'[r] = "success" /\ req'[r] = req[r]
      /\ \A o \in Request \ {r} : pc'[o] = pc[o] /\ req'[o] = req[o]
      /\ pc' \in [Request -> Labels]
      /\ req' \in [Request -> [st : ST \cup {NoTicket}, pgt : BOOLEAN]]
      BY <1>1, <1>2, EnterControl DEF Labels
<1>4. /\ callbacks' \in [ST -> Nat] /\ callbacks'[s] = 1
      /\ \A x \in ST \ {s} : callbacks'[x] = callbacks[x]
      BY <1>1, <1>2 DEF TypeOK
<1>5. TypeOK'
      BY <1>1, <1>3, <1>4 DEF TypeOK, Labels
<1>6. RequestInv'
  <2>1. \A o \in Request \ {r} :
            pc[o] \in {"validate", "callback"} /\ req[o].pgt => req[o].st \in ST \ {s}
        BY <1>1, <1>2 DEF RequestInv, TypeOK
  <2> QED BY <1>1, <1>2, <1>3, <1>4, <2>1 DEF RequestInv
<1>7. CallbackInv'
      BY <1>1, <1>2, <1>4 DEF CallbackInv
<1>8. LogoutInv'
  <2>1. \A x \in told : Pending(x)' => Pending(x)
        BY <1>1, <1>3 DEF Pending
  <2> QED BY <1>1, <2>1 DEF LogoutInv
<1> QED BY <1>5, <1>6, <1>7, <1>8

LEMMA RespondStep ==
    ASSUME Inv, NEW r \in Request, Respond(r)
    PROVE  Inv'
<1> DEFINE s == req[r].st
<1> USE DEF Inv
<1>1. /\ pc[r] = "success"
      /\ local' = [local EXCEPT ![s] = "open"] \/ UNCHANGED local
      /\ Enter(r, "idle", NoRequest)
      /\ UNCHANGED <<tickets, messages, history>>
      BY DEF Respond
<1>2. /\ pc'[r] = "idle"
      /\ \A o \in Request \ {r} : pc'[o] = pc[o] /\ req'[o] = req[o]
      /\ pc' \in [Request -> Labels]
      /\ req' \in [Request -> [st : ST \cup {NoTicket}, pgt : BOOLEAN]]
      BY <1>1, ReturnControl
<1>3. s \in ST /\ s \in asserted
      BY <1>1 DEF RequestInv, TypeOK
<1>4. TypeOK'
      BY <1>1, <1>2 DEF TypeOK, Labels
<1>5. RequestInv'
      BY <1>1, <1>2 DEF RequestInv
<1>6. CallbackInv'
      BY <1>1 DEF CallbackInv
<1>7. LogoutInv'
  <2>1. \A x \in ST : local'[x] = "open" => local[x] = "open" \/ x = s
        BY <1>1 DEF TypeOK
  <2>2. \A x \in told : Pending(x)' => Pending(x)
        BY <1>1, <1>2, <2>1 DEF Pending, TypeOK
  <2> QED BY <1>1, <1>3, <2>1, <2>2 DEF LogoutInv
<1> QED BY <1>4, <1>5, <1>6, <1>7

-----------------------------------------------------------------------------
\* Steps of the session that tell nobody.
LEMMA SessionStep ==
    ASSUME Inv, TimesOut \/ GrantDeletes \/ Expire \/ DeleteTicket \/ Shutdown
    PROVE  Inv'
<1> USE DEF Inv, TimesOut, GrantDeletes, Expire, DeleteTicket, Shutdown
<1>1. TypeOK'
      BY DEF TypeOK
<1>2. RequestInv' /\ CallbackInv'
      BY DEF RequestInv, CallbackInv
<1>3. LogoutInv'
      BY DEF LogoutInv, Pending
<1> QED BY <1>1, <1>2, <1>3

LEMMA GrantStep ==
    ASSUME Inv, NEW s \in ST, GrantServiceTicket(s)
    PROVE  Inv'
<1> USE DEF Inv, GrantServiceTicket
<1>1. TypeOK'
      BY DEF TypeOK
<1>2. RequestInv' /\ CallbackInv'
      BY DEF RequestInv, CallbackInv
<1>3. LogoutInv'
      BY DEF LogoutInv, Pending
<1> QED BY <1>1, <1>2, <1>3

LEMMA LogOutOfServiceStep ==
    ASSUME Inv, NEW s \in ST, LogOutOfService(s)
    PROVE  Inv'
<1> USE DEF Inv
<1>1. /\ session = "expired"
      /\ s \in granted \ told
      /\ told' = told \cup {s}
      /\ session' \in {"expired", "interrupted"}
      /\ queue \subseteq queue' /\ queue' \subseteq queue \cup {s}
      /\ lost \subseteq lost' /\ lost' \subseteq lost \cup {s}
      /\ s \in queue' \cup lost'
      /\ UNCHANGED <<granted, used, delegated, up, pc, req, local, callbacks, asserted, overtaken>>
      BY DEF LogOutOfService
<1>2. TypeOK'
      BY <1>1 DEF TypeOK
<1>3. RequestInv' /\ CallbackInv'
      BY <1>1 DEF RequestInv, CallbackInv
<1>4. LogoutInv'
      BY <1>1 DEF LogoutInv, Pending
<1> QED BY <1>2, <1>3, <1>4

LEMMA MessageStep ==
    ASSUME Inv, NEW s \in ST, MessageSenderCall(s)
    PROVE  Inv'
<1> USE DEF Inv
<1>1. /\ s \in queue
      /\ queue' = queue \ {s}
      /\ UNCHANGED <<tickets, told, up, pc, req, callbacks, asserted>>
      BY DEF MessageSenderCall
<1>2. RequestInv' /\ CallbackInv'
      BY <1>1 DEF RequestInv, CallbackInv
<1>3. CASE /\ local' = [local EXCEPT ![s] = IF @ = "open" THEN "closed" ELSE @]
           /\ overtaken' = IF \E r \in Request :
                                 req[r].st = s /\ pc[r] \in {"callback", "success"}
                           THEN overtaken \cup {s} ELSE overtaken
           /\ UNCHANGED lost
  <2>1. /\ local' \in [ST -> {"none", "open", "closed"}]
        /\ local'[s] # "open"
        /\ \A x \in ST \ {s} : local'[x] = local[x]
        BY <1>3 DEF TypeOK
  <2>2. TypeOK'
        BY <1>1, <1>3, <2>1 DEF TypeOK
  <2>3. Pending(s)' => s \in overtaken'
        BY <1>1, <1>3, <2>1 DEF Pending
  <2>4. \A x \in ST \ {s} : Pending(x)' <=> Pending(x)
        BY <1>1, <2>1 DEF Pending
  <2>5. LogoutInv'
        BY <1>1, <1>3, <2>1, <2>3, <2>4 DEF LogoutInv, TypeOK
  <2> QED BY <1>2, <2>2, <2>5
<1>4. CASE lost' = lost \cup {s} /\ UNCHANGED <<local, overtaken>>
  <2>1. TypeOK'
        BY <1>1, <1>4 DEF TypeOK
  <2>2. LogoutInv'
        BY <1>1, <1>4 DEF LogoutInv, Pending
  <2> QED BY <1>2, <2>1, <2>2
<1> QED BY <1>3, <1>4 DEF MessageSenderCall

LEMMA InvStep == Inv /\ [Next]_vars => Inv'
<1> SUFFICES ASSUME Inv, [Next]_vars PROVE Inv'
    OBVIOUS
<1>1. ASSUME NEW r \in Request, Validate(r) \/ Proceed(r) PROVE Inv'
      BY <1>1, ValidateStep, DelegateStep, ValidateServiceTicketStep, HandleStep, RespondStep
      DEF Proceed
<1>2. ASSUME NEW s \in ST, GrantServiceTicket(s) \/ MessageSenderCall(s) PROVE Inv'
      BY <1>2, GrantStep, MessageStep
<1>3. CASE LogOut
      BY <1>3, SessionStep, LogOutOfServiceStep DEF LogOut
<1>4. CASE UNCHANGED vars
      BY <1>4 DEF vars, Inv, TypeOK, RequestInv, CallbackInv, LogoutInv, Pending
<1> QED BY <1>1, <1>2, <1>3, <1>4, SessionStep DEF Next

LEMMA Invariant == Spec => []Inv
BY InvInit, InvStep, PTL DEF Spec

-----------------------------------------------------------------------------
\* Every variable keeps its type.
THEOREM ValidationTypeCorrect == Spec => []TypeOK
BY Invariant, PTL DEF Inv

\* When a logout is complete, an application has a session left only where its
\* logout message is still queued, was lost, or overtook the assertion, whatever
\* its validations were doing when the session ended.
THEOREM LogoutLeavesNothingOpen == Spec => []LogoutClosesApplications
<1>1. Inv => LogoutClosesApplications
  <2> SUFFICES ASSUME Inv, session = "gone", NEW s \in ST, local[s] = "open"
               PROVE  s \in queue \cup lost \cup overtaken
      BY DEF LogoutClosesApplications
  <2>1. s \in told
        BY DEF Inv, TypeOK, LogoutInv
  <2> QED BY <2>1 DEF Inv, LogoutInv, Pending
<1> QED BY <1>1, Invariant, PTL

\* One proxy granting ticket is called back for a service ticket, by the request
\* that was given the assertion.
THEOREM OneCallbackPerAssertion == Spec => []OneProxyGrantingTicketPerAssertion
<1>1. Inv => OneProxyGrantingTicketPerAssertion
      BY DEF Inv, CallbackInv, OneProxyGrantingTicketPerAssertion
<1> QED BY <1>1, Invariant, PTL
=============================================================================
