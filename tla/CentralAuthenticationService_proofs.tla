----------------- MODULE CentralAuthenticationService_proofs -----------------
(***************************************************************************)
(* Proofs about CentralAuthenticationService, for any sets of tickets,     *)
(* services and threads and any settings of the expiration policies.       *)
(***************************************************************************)
EXTENDS CentralAuthenticationService, TLAPS

-----------------------------------------------------------------------------
(* Type correctness.  What a thread holds depends on where it is.          *)

HoldsTgt == {"checkTgt", "authorize", "grant", "expire", "logOut"}
HoldsSt  == {"checkSt", "use", "finally", "deleteSt", "checkProxied", "delegate"}

MayHold(p, label, c) ==
    /\ label \in HoldsTgt => c.ticket \in TGT
    /\ label \in HoldsSt  => c.ticket \in ST
    /\ label = "add"      => c.new \in Ticket
    /\ label = "delete"   => c.ticket \in Ticket
    /\ label = "delete" /\ p # Cleaner => c.ticket \in TGT

ControlInv ==
    /\ pc \in [Proc -> Label]
    /\ call \in [Proc -> Calls]
    /\ \A p \in Proc : MayHold(p, pc[p], call[p])

DataInv ==
    /\ now \in Nat
    /\ registry \subseteq Ticket
    /\ issued \subseteq Ticket
    /\ ticket \in [Ticket -> AbstractTickets]
    /\ tgt \in [TGT -> TicketGrantingTickets]
    /\ st \in [ST -> ServiceTickets]
    /\ unseen \subseteq Ticket
    /\ doomed \subseteq Ticket
    /\ assertions \in [ST -> Nat]
    /\ sent \in [ST -> Nat]
    /\ destroyed \subseteq TGT

TypeInv == DataInv /\ ControlInv

LEMMA TypeInvTypes == TypeInv => TypeOK
BY DEF TypeInv, DataInv, ControlInv, TypeOK

\* How a step moves a thread: it enters a label with new locals, or keeps them.
LEMMA EnterControl ==
    ASSUME ControlInv, NEW p \in Proc, NEW label \in Label, NEW c \in Calls,
           MayHold(p, label, c), Enter(p, label, c)
    PROVE  ControlInv'
BY DEF ControlInv, Enter, MayHold

LEMMA GotoControl ==
    ASSUME ControlInv, NEW p \in Proc, NEW label \in Label,
           MayHold(p, label, call[p]), Goto(p, label)
    PROVE  ControlInv'
BY DEF ControlInv, Goto, MayHold

LEMMA ReturnControl == ASSUME ControlInv, NEW p \in Proc, Return(p) PROVE ControlInv'
<1>1. "idle" \in Label /\ NoCall \in Calls
      BY DEF Label, Calls, NoCall, Holding, Request
<1>2. MayHold(p, "idle", NoCall)
      BY DEF MayHold, HoldsTgt, HoldsSt
<1> QED BY <1>1, <1>2, EnterControl DEF Return

LEMMA UnmovedControl == ASSUME ControlInv, UNCHANGED <<pc, call>> PROVE ControlInv'
BY DEF ControlInv, MayHold

LEMMA RequestType ==
    ASSUME NEW x \in Ticket, NEW s \in Service \cup {NoService},
           NEW c \in Principal \cup {NoCredentials}
    PROVE  /\ Request(x, s, c) \in Calls
           /\ Holding(x) \in Calls
           /\ Request(x, s, c).ticket = x
           /\ Holding(x).ticket = x
BY DEF Calls, Request, Holding

\* The objects that steps construct and update.
LEMMA NewTypes ==
    ASSUME DataInv
    PROVE  /\ \A t \in TGT \cup {NoTicket}, chain \in SUBSET TGT :
                 NewTicket(t, chain) \in AbstractTickets
           /\ \A p \in Principal \cup {ProxyPrincipal, NoCredentials} :
                 NewTgt(p) \in TicketGrantingTickets
           /\ \A s \in Service \cup {NoService}, b \in BOOLEAN :
                 NewSt(s, b) \in ServiceTickets
BY DEF DataInv, NewTicket, NewTgt, NewSt, AbstractTickets, TicketGrantingTickets,
   ServiceTickets

LEMMA FieldTypes ==
    ASSUME DataInv
    PROVE  /\ \A x \in Ticket :
                 /\ UpdateState(x) \in AbstractTickets
                 /\ ticket[x].granting \in TGT \cup {NoTicket}
                 /\ ticket[x].chain \in SUBSET TGT
                 /\ ticket[x].uses \in Nat
           /\ \A t \in TGT : /\ tgt[t].services \in SUBSET ST
                            /\ tgt[t].expired \in BOOLEAN
           /\ \A s \in ST : st[s].loggedOut \in BOOLEAN
<1>1. ASSUME NEW x \in Ticket
      PROVE  /\ UpdateState(x) \in AbstractTickets
             /\ ticket[x].granting \in TGT \cup {NoTicket}
             /\ ticket[x].chain \in SUBSET TGT
             /\ ticket[x].uses \in Nat
  <2>1. ticket[x] \in AbstractTickets /\ now \in Nat
        BY DEF DataInv
  <2>2. ASSUME NEW r \in AbstractTickets, NEW n \in Nat
        PROVE  [r EXCEPT !.lastUsed = n, !.uses = @ + 1] \in AbstractTickets
    <3>1. r.uses + 1 \in Nat
          BY DEF AbstractTickets
    <3> QED BY <3>1 DEF AbstractTickets
  <2>3. UpdateState(x) \in AbstractTickets
        BY <2>1, <2>2 DEF UpdateState
  <2> QED BY <2>1, <2>3 DEF AbstractTickets
<1>2. \A t \in TGT : tgt[t].services \in SUBSET ST /\ tgt[t].expired \in BOOLEAN
      BY DEF DataInv, TicketGrantingTickets
<1>3. \A s \in ST : st[s].loggedOut \in BOOLEAN
      BY DEF DataInv, ServiceTickets
<1> QED BY <1>1, <1>2, <1>3

LEMMA TypeInit == Init => TypeInv
BY IdsAssumption DEF Init, TypeInv, DataInv, ControlInv, MayHold, Label, HoldsTgt,
   HoldsSt, Calls, NoCall, Holding, Request, NewTicket, NoTgt, NewTgt, NoSt, NewSt,
   AbstractTickets, TicketGrantingTickets, ServiceTickets

-----------------------------------------------------------------------------
(* Every step of a call preserves the types.                               *)

LEMMA TypeCall == ASSUME NEW th \in Thread, TypeInv, Call(th) PROVE TypeInv'
<1> th \in Proc
    BY DEF Proc
<1> USE IdsAssumption DEF TypeInv
<1>1. CASE CreateTicketGrantingTicket(th)
  <2>1. DataInv'
        BY <1>1, NewTypes
        DEF CreateTicketGrantingTicket, Store, DataInv, history, Ticket
  <2> QED BY <1>1, <2>1, UnmovedControl DEF CreateTicketGrantingTicket
<1>2. CASE GrantLookup(th)
  <2>1. DataInv'
        BY <1>2 DEF GrantLookup, DataInv, heap, history, cleaner
  <2>2. PICK t \in registry \cap TGT, s \in Service, c \in Presented :
            Enter(th, "checkTgt", Request(t, s, c))
        BY <1>2 DEF GrantLookup
  <2>3. /\ Request(t, s, c) \in Calls
        /\ MayHold(th, "checkTgt", Request(t, s, c))
        BY RequestType DEF MayHold, HoldsTgt, HoldsSt, Ticket
  <2> QED BY <2>1, <2>2, <2>3, EnterControl DEF Label
<1>3. CASE ValidateLookup(th)
  <2>1. DataInv'
        BY <1>3 DEF ValidateLookup, DataInv, heap, history, cleaner
  <2>2. PICK s \in registry \cap ST, service \in Enabled :
            Enter(th, "checkSt", Request(s, service, NoCredentials))
        BY <1>3 DEF ValidateLookup
  <2>3. /\ Request(s, service, NoCredentials) \in Calls
        /\ MayHold(th, "checkSt", Request(s, service, NoCredentials))
        BY RequestType, RegisteredServicesAssumption
        DEF MayHold, HoldsTgt, HoldsSt, Ticket
  <2> QED BY <2>1, <2>2, <2>3, EnterControl DEF Label
<1>4. CASE DelegateLookup(th)
  <2>1. DataInv'
        BY <1>4 DEF DelegateLookup, DataInv, heap, history, cleaner
  <2>2. PICK s \in registry \cap ST : Enter(th, "checkProxied", Holding(s))
        BY <1>4 DEF DelegateLookup
  <2>3. Holding(s) \in Calls /\ MayHold(th, "checkProxied", Holding(s))
        BY RequestType DEF MayHold, HoldsTgt, HoldsSt, Ticket
  <2> QED BY <2>1, <2>2, <2>3, EnterControl DEF Label
<1>5. CASE DestroyLookup(th)
  <2>1. DataInv'
        BY <1>5 DEF DestroyLookup, DataInv, heap, history, cleaner
  <2>2. PICK t \in TGT : \/ Enter(th, "expire", Holding(t))
                         \/ UNCHANGED <<pc, call>>
        BY <1>5 DEF DestroyLookup
  <2>3. Holding(t) \in Calls /\ MayHold(th, "expire", Holding(t))
        BY RequestType DEF MayHold, HoldsTgt, HoldsSt, Ticket
  <2> QED BY <2>1, <2>2, <2>3, EnterControl, UnmovedControl DEF Label
<1> QED BY <1>1, <1>2, <1>3, <1>4, <1>5 DEF Call

LEMMA TypeExpire ==
    ASSUME NEW p \in Proc, TypeInv, Expire(p) \/ LogOutOfServices(p)
    PROVE  TypeInv'
<1> USE DEF TypeInv
<1>1. CASE Expire(p)
  <2>1. DataInv'
        BY <1>1 DEF Expire, DataInv, TicketGrantingTickets, cleaner, history
  <2>2. MayHold(p, "logOut", call[p])
        BY <1>1 DEF Expire, ControlInv, MayHold, HoldsTgt, HoldsSt
  <2> QED BY <1>1, <2>1, <2>2, GotoControl DEF Expire, Label
<1>2. CASE LogOutOfServices(p)
  <2>1. DataInv'
    <3>1. \A s \in ST : [st[s] EXCEPT !.loggedOut = TRUE] \in ServiceTickets
          BY DEF DataInv, ServiceTickets
    <3>2. st' \in [ST -> ServiceTickets]
          BY <1>2, <3>1 DEF LogOutOfServices, DataInv
    <3>3. sent' \in [ST -> Nat]
          BY <1>2 DEF LogOutOfServices, DataInv
    <3> QED BY <1>2, <3>2, <3>3 DEF LogOutOfServices, DataInv, cleaner
  <2>2. MayHold(p, "delete", call[p])
        BY <1>2 DEF LogOutOfServices, ControlInv, MayHold, HoldsTgt, HoldsSt, Ticket
  <2> QED BY <1>2, <2>1, <2>2, GotoControl DEF LogOutOfServices, Label
<1> QED BY <1>1, <1>2

LEMMA TypeProceed == ASSUME NEW th \in Thread, TypeInv, Proceed(th) PROVE TypeInv'
<1> th \in Proc
    BY DEF Proc
<1> USE DEF TypeInv
<1>1. CASE GrantCheck(th)
  <2>1. DataInv'
        BY <1>1 DEF GrantCheck, DataInv, heap, cleaner, history
  <2>2. MayHold(th, "authorize", call[th])
        BY <1>1 DEF GrantCheck, ControlInv, MayHold, HoldsTgt, HoldsSt
  <2> QED BY <1>1, <2>1, <2>2, GotoControl, ReturnControl DEF GrantCheck, Label
<1>2. CASE GrantAuthorize(th)
  <2>1. DataInv'
        BY <1>2 DEF GrantAuthorize, DataInv, heap, cleaner, history
  <2>2. MayHold(th, "grant", call[th])
        BY <1>2 DEF GrantAuthorize, ControlInv, MayHold, HoldsTgt, HoldsSt
  <2> QED BY <1>2, <2>1, <2>2, GotoControl, ReturnControl DEF GrantAuthorize, Label
<1>3. CASE GrantServiceTicket(th)
  <2> DEFINE t == call[th].ticket
  <2>1. t \in TGT /\ call[th].service \in Service \cup {NoService}
        BY <1>3 DEF GrantServiceTicket, ControlInv, MayHold, HoldsTgt, Calls
  <2>2. PICK s \in ST \ issued :
          /\ issued' = issued \cup {s}
          /\ st' = [st EXCEPT ![s] = NewSt(call[th].service,
                      ticket[t].uses = 0 \/ call[th].credentials # NoCredentials)]
          /\ ticket' = [ticket EXCEPT ![s] = NewTicket(t, {t} \cup ticket[t].chain),
                                      ![t] = UpdateState(t)]
          /\ tgt' = [tgt EXCEPT ![t].services = @ \cup {s}]
          /\ Enter(th, "add", [call[th] EXCEPT !.new = s])
        BY <1>3 DEF GrantServiceTicket
  <2>3. DataInv'
    <3>1. st' \in [ST -> ServiceTickets]
          BY <2>1, <2>2, NewTypes DEF DataInv
    <3>2. ticket' \in [Ticket -> AbstractTickets]
      <4>1. /\ NewTicket(t, {t} \cup ticket[t].chain) \in AbstractTickets
            /\ UpdateState(t) \in AbstractTickets
            BY <2>1, NewTypes, FieldTypes DEF Ticket
      <4> QED BY <2>2, <4>1 DEF DataInv
    <3>3. tgt' \in [TGT -> TicketGrantingTickets]
          BY <2>1, <2>2 DEF DataInv, TicketGrantingTickets
    <3> QED BY <1>3, <2>2, <3>1, <3>2, <3>3
            DEF GrantServiceTicket, DataInv, cleaner, history, Ticket
  <2>4. /\ [call[th] EXCEPT !.new = s] \in Calls
        /\ MayHold(th, "add", [call[th] EXCEPT !.new = s])
        BY DEF ControlInv, Calls, MayHold, HoldsTgt, HoldsSt, Ticket
  <2> QED BY <2>2, <2>3, <2>4, EnterControl DEF Label
<1>4. CASE AddTicket(th)
  <2>1. DataInv'
        BY <1>4 DEF AddTicket, Store, DataInv, ControlInv, MayHold, heap, history
  <2> QED BY <1>4, <2>1, ReturnControl DEF AddTicket
<1>5. CASE ValidateCheck(th)
  <2>1. DataInv'
        BY <1>5 DEF ValidateCheck, DataInv, heap, cleaner, history
  <2>2. MayHold(th, "finally", call[th]) /\ MayHold(th, "use", call[th])
        BY <1>5 DEF ValidateCheck, ControlInv, MayHold, HoldsTgt, HoldsSt
  <2> QED BY <1>5, <2>1, <2>2, GotoControl DEF ValidateCheck, Label
<1>6. CASE ValidateUse(th)
  <2>1. DataInv'
    <3>1. call[th].ticket \in ST
          BY <1>6 DEF ValidateUse, ControlInv, MayHold, HoldsSt
    <3>2. ticket' \in [Ticket -> AbstractTickets]
          BY <1>6, <3>1, FieldTypes DEF ValidateUse, DataInv, Ticket
    <3>3. assertions' \in [ST -> Nat]
          BY <1>6, <3>1 DEF ValidateUse, DataInv
    <3> QED BY <1>6, <3>2, <3>3 DEF ValidateUse, DataInv, cleaner
  <2>2. MayHold(th, "finally", call[th])
        BY <1>6 DEF ValidateUse, ControlInv, MayHold, HoldsTgt, HoldsSt
  <2> QED BY <1>6, <2>1, <2>2, GotoControl DEF ValidateUse, Label
<1>7. CASE ValidateFinally(th)
  <2>1. DataInv'
        BY <1>7 DEF ValidateFinally, DataInv, heap, cleaner, history
  <2>2. MayHold(th, "deleteSt", call[th])
        BY <1>7 DEF ValidateFinally, ControlInv, MayHold, HoldsTgt, HoldsSt
  <2> QED BY <1>7, <2>1, <2>2, GotoControl, ReturnControl DEF ValidateFinally, Label
<1>8. CASE DelegateCheck(th)
  <2>1. DataInv'
        BY <1>8 DEF DelegateCheck, DataInv, heap, cleaner, history
  <2>2. MayHold(th, "delegate", call[th])
        BY <1>8 DEF DelegateCheck, ControlInv, MayHold, HoldsTgt, HoldsSt
  <2> QED BY <1>8, <2>1, <2>2, GotoControl, ReturnControl DEF DelegateCheck, Label
<1>9. CASE GrantTicketGrantingTicket(th)
  <2> DEFINE s == call[th].ticket
  <2>1. s \in ST
        BY <1>9 DEF GrantTicketGrantingTicket, ControlInv, MayHold, HoldsSt
  <2>2. CASE Return(th) /\ UNCHANGED heap
    <3>1. DataInv'
          BY <1>9, <2>2 DEF GrantTicketGrantingTicket, DataInv, heap, cleaner, history
    <3> QED BY <2>2, <3>1, ReturnControl
  <2>3. CASE ~(Return(th) /\ UNCHANGED heap)
    <3>1. PICK t \in TGT \ issued :
            /\ issued' = issued \cup {t}
            /\ ticket' = [ticket EXCEPT ![t] = NewTicket(ticket[s].granting,
                                                         ticket[s].chain)]
            /\ tgt' = [tgt EXCEPT ![t] = NewTgt(ProxyPrincipal)]
            /\ st' = [st EXCEPT ![s].granted = TRUE]
            /\ Enter(th, "add", [call[th] EXCEPT !.new = t])
          BY <1>9, <2>3 DEF GrantTicketGrantingTicket
    <3>2. DataInv'
      <4>1. ticket' \in [Ticket -> AbstractTickets]
            BY <2>1, <3>1, NewTypes, FieldTypes DEF DataInv, Ticket
      <4>2. tgt' \in [TGT -> TicketGrantingTickets]
            BY <3>1, NewTypes DEF DataInv
      <4>3. st' \in [ST -> ServiceTickets]
            BY <2>1, <3>1 DEF DataInv, ServiceTickets
      <4> QED BY <1>9, <3>1, <4>1, <4>2, <4>3
              DEF GrantTicketGrantingTicket, DataInv, cleaner, history, Ticket
    <3>3. /\ [call[th] EXCEPT !.new = t] \in Calls
          /\ MayHold(th, "add", [call[th] EXCEPT !.new = t])
          BY DEF ControlInv, Calls, MayHold, HoldsTgt, HoldsSt, Ticket
    <3> QED BY <3>1, <3>2, <3>3, EnterControl DEF Label
  <2> QED BY <2>2, <2>3
<1>10. CASE Expire(th) \/ LogOutOfServices(th)
      BY <1>10, TypeExpire
<1>11. CASE DestroyDelete(th)
  <2>1. DataInv'
        BY <1>11, IdsAssumption
        DEF DestroyDelete, DataInv, ControlInv, MayHold, heap, cleaner, history
  <2> QED BY <1>11, <2>1, ReturnControl DEF DestroyDelete
<1>12. CASE ValidateDelete(th)
  <2>1. DataInv'
        BY <1>12 DEF ValidateDelete, DataInv, heap, cleaner, history
  <2> QED BY <1>12, <2>1, ReturnControl DEF ValidateDelete
<1> QED BY <1>1, <1>2, <1>3, <1>4, <1>5, <1>6, <1>7, <1>8, <1>9, <1>10,
           <1>11, <1>12 DEF Proceed

LEMMA TypeClean == TypeInv /\ Clean => TypeInv'
<1> SUFFICES ASSUME TypeInv, Clean PROVE TypeInv'
    OBVIOUS
<1> Cleaner \in Proc
    BY DEF Proc
<1> USE DEF TypeInv
<1>1. CASE CleanStart
  <2>1. DataInv'
        BY <1>1 DEF CleanStart, DataInv, heap, history
  <2>2. MayHold(Cleaner, "scan", call[Cleaner])
        BY DEF MayHold, HoldsTgt, HoldsSt
  <2> QED BY <1>1, <2>1, <2>2, GotoControl DEF CleanStart, Label
<1>2. CASE CleanScan
  <2>1. DataInv'
        BY <1>2 DEF CleanScan, DataInv, heap, history
  <2> QED BY <1>2, <2>1, UnmovedControl DEF CleanScan
<1>3. CASE CleanScanned
  <2>1. DataInv'
        BY <1>3 DEF CleanScanned, DataInv, heap, history, cleaner
  <2>2. MayHold(Cleaner, "remove", call[Cleaner])
        BY DEF MayHold, HoldsTgt, HoldsSt
  <2> QED BY <1>3, <2>1, <2>2, GotoControl DEF CleanScanned, Label
<1>4. CASE CleanNext
  <2>1. DataInv'
        BY <1>4 DEF CleanNext, DataInv, heap, history
  <2>2. ASSUME NEW x \in doomed,
               Enter(Cleaner, IF x \in TGT THEN "expire" ELSE "delete", Holding(x))
        PROVE  ControlInv'
    <3>1. x \in Ticket /\ Holding(x) \in Calls /\ Holding(x).ticket = x
          BY RequestType DEF DataInv
    <3>2. MayHold(Cleaner, IF x \in TGT THEN "expire" ELSE "delete", Holding(x))
          BY <3>1 DEF MayHold, HoldsTgt, HoldsSt
    <3> QED BY <2>2, <3>1, <3>2, EnterControl DEF Label
  <2> QED BY <1>4, <2>1, <2>2, ReturnControl DEF CleanNext
<1>5. CASE Expire(Cleaner) \/ LogOutOfServices(Cleaner)
      BY <1>5, TypeExpire
<1>6. CASE CleanDelete
  <2>1. DataInv'
        BY <1>6 DEF CleanDelete, DataInv, heap, history, cleaner
  <2>2. NoCall \in Calls /\ MayHold(Cleaner, "remove", NoCall)
        BY DEF MayHold, HoldsTgt, HoldsSt, Calls, NoCall, Holding, Request
  <2> QED BY <1>6, <2>1, <2>2, EnterControl DEF CleanDelete, Label
<1> QED BY <1>1, <1>2, <1>3, <1>4, <1>5, <1>6 DEF Clean

LEMMA TypeStep == TypeInv /\ [Next]_vars => TypeInv'
<1> SUFFICES ASSUME TypeInv, [Next]_vars PROVE TypeInv'
    OBVIOUS
<1>1. CASE Tick
      BY <1>1, UnmovedControl DEF Tick, TypeInv, DataInv, heap, cleaner, history
<1>2. CASE UNCHANGED vars
      BY <1>2, UnmovedControl DEF vars, TypeInv, DataInv, heap, cleaner, history
<1> QED BY <1>1, <1>2, TypeCall, TypeProceed, TypeClean DEF Next

\* The variables of the service keep their types, whatever the threads and the
\* cleaner do and in whatever order.
THEOREM TypeCorrect == Spec => []TypeOK
<1> QED BY TypeInit, TypeStep, TypeInvTypes, PTL DEF Spec

-----------------------------------------------------------------------------
(***************************************************************************)
(* The safety of tickets and of logout, by one inductive invariant.        *)
(***************************************************************************)

\* Nobody gets hold of a ticket that has not been constructed, and a ticket
\* keeps the link to the ticket it was granted by.
IssuedInv ==
    /\ registry \subseteq issued
    /\ unseen \subseteq issued
    /\ doomed \subseteq issued
    /\ \A p \in Proc : pc[p] \in HoldsTgt \cup HoldsSt \cup {"delete"}
                        => call[p].ticket \in issued
    /\ \A th \in Thread : pc[th] = "add" => call[th].new \in issued
    /\ \A x \in issued : ticket[x].granting \in issued \cup {NoTicket}
    /\ \A s \in ST \cap issued : ticket[s].granting \in ticket[s].chain

\* One thread at a time is between isExpired and isValidFor of a service
\* ticket, or inside expire() of a ticket granting ticket.
MonitorInv ==
    \A p, q \in Proc : /\ pc[p] = pc[q] /\ pc[p] \in {"use", "logOut"}
                       /\ call[p].ticket = call[q].ticket
                       => p = q

\* Every assertion counts as a use, and who is about to count one knows that
\* there is one left.
UseInv ==
    /\ \A s \in ST : /\ assertions[s] <= ticket[s].uses
                     /\ ticket[s].uses <= StNumberOfUses
    /\ \A p \in Proc : pc[p] = "use" => ticket[call[p].ticket].uses < StNumberOfUses
    /\ \A s \in ST \ issued : ticket[s].uses = 0

\* The services of a ticket granting ticket are the ones it granted tickets
\* for.  Once it has been through expire(), each of them that got an assertion,
\* or may still get one because its validation found the ticket alive before,
\* has been logged out.
LogoutInv ==
    /\ \A s \in ST : sent[s] = IF st[s].loggedOut THEN 1 ELSE 0
    /\ \A s \in ST \ issued : ~st[s].loggedOut
    /\ \A t \in TGT, s \in ST :
          s \in tgt[t].services <=> s \in issued /\ ticket[s].granting = t
    /\ \A t \in TGT, s \in ST \cap issued :
          /\ tgt[t].expired /\ ~Locked(t) /\ ticket[s].granting = t
          /\ assertions[s] > 0 \/ \E p \in Proc : pc[p] = "use" /\ call[p].ticket = s
          => st[s].loggedOut

SafetyInv == IssuedInv /\ MonitorInv /\ UseInv /\ LogoutInv

-----------------------------------------------------------------------------
LEMMA SafetyInit == Init => SafetyInv
<1> SUFFICES ASSUME Init PROVE SafetyInv
    OBVIOUS
<1> USE DEF Init
<1>1. IssuedInv
      BY DEF IssuedInv, HoldsTgt, HoldsSt, Proc
<1>2. MonitorInv
      BY DEF MonitorInv
<1>3. UseInv
      BY PolicyAssumption DEF UseInv, NewTicket, Ticket
<1>4. LogoutInv
      BY DEF LogoutInv, NoTgt, NewTgt, NoSt, NewSt
<1> QED BY <1>1, <1>2, <1>3, <1>4 DEF SafetyInv

\* A step that only moves threads, and the threads it moves neither leave nor
\* enter a monitor that is held over more than one step, disturbs nothing but
\* the bookkeeping of who holds what.
Quiet ==
    /\ UNCHANGED <<heap, assertions, sent>>
    /\ \A p \in Proc : pc[p] \in {"use", "logOut"} \/ pc'[p] \in {"use", "logOut"}
                        => pc'[p] = pc[p] /\ call'[p] = call[p]

LEMMA QuietStep ==
    ASSUME SafetyInv, Quiet
    PROVE  MonitorInv' /\ UseInv' /\ LogoutInv'
<1> USE DEF SafetyInv, Quiet, heap
<1>1. MonitorInv'
      BY DEF MonitorInv
<1>2. UseInv'
      BY DEF UseInv
<1>3. \A x : Locked(x)' <=> Locked(x)
      BY DEF Locked
<1>4. LogoutInv'
      BY <1>3 DEF LogoutInv
<1> QED BY <1>1, <1>2, <1>4

\* The steps that are quiet.
LEMMA QuietCall ==
    ASSUME TypeInv, NEW th \in Thread,
           Call(th), ~CreateTicketGrantingTicket(th)
    PROVE  Quiet
<1> th \in Proc
    BY DEF Proc
<1> USE DEF TypeInv, ControlInv, Quiet, Enter, heap, history
<1>1. CASE GrantLookup(th)
      BY <1>1 DEF GrantLookup
<1>2. CASE ValidateLookup(th)
      BY <1>2 DEF ValidateLookup
<1>3. CASE DelegateLookup(th)
      BY <1>3 DEF DelegateLookup
<1>4. CASE DestroyLookup(th)
      BY <1>4 DEF DestroyLookup
<1> QED BY <1>1, <1>2, <1>3, <1>4 DEF Call

LEMMA QuietProceed ==
    ASSUME TypeInv, NEW th \in Thread,
           \/ GrantCheck(th) \/ GrantAuthorize(th) \/ AddTicket(th)
           \/ ValidateFinally(th) \/ ValidateDelete(th)
           \/ DelegateCheck(th) \/ DestroyDelete(th)
    PROVE  Quiet
<1> th \in Proc
    BY DEF Proc
<1> USE DEF TypeInv, ControlInv, Quiet, Enter, Goto, Return, heap, history
<1>1. CASE GrantCheck(th)
      BY <1>1 DEF GrantCheck
<1>2. CASE GrantAuthorize(th)
      BY <1>2 DEF GrantAuthorize
<1>3. CASE AddTicket(th)
      BY <1>3 DEF AddTicket
<1>4. CASE ValidateFinally(th)
      BY <1>4 DEF ValidateFinally
<1>5. CASE DelegateCheck(th)
      BY <1>5 DEF DelegateCheck
<1>6. CASE DestroyDelete(th)
      BY <1>6 DEF DestroyDelete
<1>7. CASE ValidateDelete(th)
      BY <1>7 DEF ValidateDelete
<1> QED BY <1>1, <1>2, <1>3, <1>4, <1>5, <1>6, <1>7

LEMMA QuietClean ==
    ASSUME TypeInv,
           CleanStart \/ CleanScan \/ CleanScanned \/ CleanNext \/ CleanDelete
    PROVE  Quiet
<1> Cleaner \in Proc
    BY DEF Proc
<1> USE DEF TypeInv, ControlInv, Quiet, Enter, Goto, Return, heap, history
<1>1. CASE CleanStart
      BY <1>1 DEF CleanStart
<1>2. CASE CleanScan
      BY <1>2 DEF CleanScan
<1>3. CASE CleanScanned
      BY <1>3 DEF CleanScanned
<1>4. CASE CleanNext
      BY <1>4 DEF CleanNext
<1>5. CASE CleanDelete
      BY <1>5 DEF CleanDelete
<1> QED BY <1>1, <1>2, <1>3, <1>4, <1>5

-----------------------------------------------------------------------------
(* Only constructed tickets are known.                                      *)

LEMMA IssuedCall == ASSUME TypeInv, IssuedInv, NEW th \in Thread, Call(th)
                    PROVE  IssuedInv'
<1> th \in Proc /\ Thread \subseteq Proc
    BY DEF Proc
<1> USE DEF TypeInv, ControlInv, IssuedInv, Enter, heap, cleaner, history,
            Request, Holding, HoldsTgt, HoldsSt
<1>1. CASE CreateTicketGrantingTicket(th)
      BY <1>1, IdsAssumption
      DEF CreateTicketGrantingTicket, Store, DataInv, NewTicket, Ticket
<1>2. CASE GrantLookup(th)
      BY <1>2 DEF GrantLookup
<1>3. CASE ValidateLookup(th)
      BY <1>3 DEF ValidateLookup
<1>4. CASE DelegateLookup(th)
      BY <1>4 DEF DelegateLookup
<1>5. CASE DestroyLookup(th)
  <2>1. UNCHANGED <<registry, heap, cleaner>>
        BY <1>5 DEF DestroyLookup
  <2>2. PICK t \in TGT \cap issued : \/ Enter(th, "expire", Holding(t))
                                    \/ UNCHANGED <<pc, call>>
        BY <1>5 DEF DestroyLookup
  <2> QED BY <2>1, <2>2
<1> QED BY <1>1, <1>2, <1>3, <1>4, <1>5 DEF Call

LEMMA IssuedExpire ==
    ASSUME TypeInv, IssuedInv, NEW p \in Proc, Expire(p) \/ LogOutOfServices(p)
    PROVE  IssuedInv'
<1> USE DEF TypeInv, ControlInv, IssuedInv, Goto, cleaner, history, HoldsTgt, HoldsSt
<1>1. CASE Expire(p)
      BY <1>1 DEF Expire
<1>2. CASE LogOutOfServices(p)
      BY <1>2 DEF LogOutOfServices
<1> QED BY <1>1, <1>2

LEMMA IssuedProceed == ASSUME TypeInv, IssuedInv, NEW th \in Thread, Proceed(th)
                       PROVE  IssuedInv'
<1> th \in Proc /\ Thread \subseteq Proc
    BY DEF Proc
<1> USE DEF TypeInv, ControlInv, IssuedInv, Enter, Goto, Return, heap, cleaner,
            history, NoCall, Request, Holding, HoldsTgt, HoldsSt
<1>1. CASE GrantCheck(th)
      BY <1>1 DEF GrantCheck
<1>2. CASE GrantAuthorize(th)
      BY <1>2 DEF GrantAuthorize
<1>3. CASE GrantServiceTicket(th)
  <2> DEFINE t == call[th].ticket
  <2>1. t \in TGT /\ t \in issued
        BY <1>3 DEF GrantServiceTicket, MayHold
  <2>2. PICK s \in ST \ issued :
          /\ issued' = issued \cup {s}
          /\ ticket' = [ticket EXCEPT ![s] = NewTicket(t, {t} \cup ticket[t].chain),
                                      ![t] = UpdateState(t)]
          /\ Enter(th, "add", [call[th] EXCEPT !.new = s])
        BY <1>3 DEF GrantServiceTicket
  <2>3. UNCHANGED <<registry, cleaner>>
        BY <1>3 DEF GrantServiceTicket
  <2> HIDE DEF t
  <2>4. /\ \A x \in Ticket \ {s} : /\ ticket'[x].granting = ticket[x].granting
                                   /\ ticket'[x].chain = ticket[x].chain
        /\ ticket'[s].granting = t
        /\ t \in ticket'[s].chain
        BY <2>1, <2>2, IdsAssumption
        DEF DataInv, AbstractTickets, NewTicket, UpdateState, Ticket
  <2>5. /\ \A x \in issued' : ticket'[x].granting \in issued' \cup {NoTicket}
        /\ \A x \in ST \cap issued' : ticket'[x].granting \in ticket'[x].chain
    <3>1. issued \subseteq Ticket /\ s \in Ticket /\ issued' = issued \cup {s}
          BY <2>2 DEF DataInv, Ticket
    <3>2. ASSUME NEW x \in issued'
          PROVE  ticket'[x].granting \in issued' \cup {NoTicket}
          BY <2>1, <2>4, <3>1
    <3>3. ASSUME NEW x \in ST \cap issued'
          PROVE  ticket'[x].granting \in ticket'[x].chain
          BY <2>4, <3>1
    <3> QED BY <3>2, <3>3
  <2>6. /\ \A p \in Proc : pc'[p] \in HoldsTgt \cup HoldsSt \cup {"delete"}
                           => call'[p].ticket \in issued'
        /\ \A q \in Thread : pc'[q] = "add" => call'[q].new \in issued'
        BY <2>2 DEF Calls
  <2> QED BY <2>2, <2>3, <2>5, <2>6
<1>4. CASE AddTicket(th)
      BY <1>4 DEF AddTicket, Store
<1>5. CASE ValidateCheck(th)
      BY <1>5 DEF ValidateCheck
<1>6. CASE ValidateUse(th)
  <2>1. /\ \A x \in Ticket : ticket'[x].granting = ticket[x].granting
        /\ \A x \in Ticket : ticket'[x].chain = ticket[x].chain
        BY <1>6 DEF ValidateUse, DataInv, AbstractTickets, UpdateState
  <2>2. /\ \A p \in Proc : pc'[p] \in HoldsTgt \cup HoldsSt \cup {"delete"}
                           => call'[p].ticket \in issued'
        /\ \A q \in Thread : pc'[q] = "add" => call'[q].new \in issued'
        BY <1>6 DEF ValidateUse
  <2> QED BY <1>6, <2>1, <2>2 DEF ValidateUse, DataInv, Ticket
<1>7. CASE ValidateFinally(th)
      BY <1>7 DEF ValidateFinally
<1>8. CASE DelegateCheck(th)
      BY <1>8 DEF DelegateCheck
<1>9. CASE GrantTicketGrantingTicket(th)
  <2> DEFINE s == call[th].ticket
  <2>1. s \in ST /\ s \in issued
        BY <1>9 DEF GrantTicketGrantingTicket, MayHold
  <2>2. CASE Return(th) /\ UNCHANGED heap
        BY <1>9, <2>2 DEF GrantTicketGrantingTicket
  <2>3. CASE ~(Return(th) /\ UNCHANGED heap)
    <3>1. PICK t \in TGT \ issued :
            /\ issued' = issued \cup {t}
            /\ ticket' = [ticket EXCEPT ![t] = NewTicket(ticket[s].granting,
                                                         ticket[s].chain)]
            /\ Enter(th, "add", [call[th] EXCEPT !.new = t])
          BY <1>9, <2>3 DEF GrantTicketGrantingTicket
    <3>2. /\ \A x \in Ticket \ {t} : ticket'[x] = ticket[x]
          /\ ticket'[t].granting = ticket[s].granting
          BY <3>1 DEF DataInv, NewTicket, Ticket
    <3>3. UNCHANGED <<registry, cleaner>>
          BY <1>9 DEF GrantTicketGrantingTicket
    <3>4. /\ \A x \in issued' : ticket'[x].granting \in issued' \cup {NoTicket}
          /\ \A x \in ST \cap issued' : ticket'[x].granting \in ticket'[x].chain
          BY <2>1, <3>1, <3>2, IdsAssumption DEF DataInv, Ticket
    <3> HIDE DEF s
    <3>5. /\ \A p \in Proc : pc'[p] \in HoldsTgt \cup HoldsSt \cup {"delete"}
                             => call'[p].ticket \in issued'
          /\ \A q \in Thread : pc'[q] = "add" => call'[q].new \in issued'
          BY <3>1 DEF Calls
    <3> QED BY <3>1, <3>3, <3>4, <3>5
  <2> QED BY <2>2, <2>3
<1>10. CASE Expire(th) \/ LogOutOfServices(th)
      BY <1>10, IssuedExpire
<1>11. CASE DestroyDelete(th)
      BY <1>11 DEF DestroyDelete
<1>12. CASE ValidateDelete(th)
      BY <1>12 DEF ValidateDelete
<1> QED BY <1>1, <1>2, <1>3, <1>4, <1>5, <1>6, <1>7, <1>8, <1>9, <1>10,
           <1>11, <1>12 DEF Proceed

LEMMA IssuedClean == TypeInv /\ IssuedInv /\ Clean => IssuedInv'
<1> SUFFICES ASSUME TypeInv, IssuedInv, Clean PROVE IssuedInv'
    OBVIOUS
<1> Cleaner \in Proc /\ Cleaner \notin Thread /\ Thread \subseteq Proc
    BY IdsAssumption DEF Proc
<1> USE DEF TypeInv, ControlInv, IssuedInv, Enter, Goto, Return, heap, cleaner,
            history, NoCall, Request, Holding, HoldsTgt, HoldsSt
<1>1. CASE CleanStart
      BY <1>1 DEF CleanStart
<1>2. CASE CleanScan
      BY <1>2 DEF CleanScan
<1>3. CASE CleanScanned
      BY <1>3 DEF CleanScanned
<1>4. CASE CleanNext
      BY <1>4 DEF CleanNext
<1>5. CASE Expire(Cleaner) \/ LogOutOfServices(Cleaner)
      BY <1>5, IssuedExpire
<1>6. CASE CleanDelete
      BY <1>6 DEF CleanDelete
<1> QED BY <1>1, <1>2, <1>3, <1>4, <1>5, <1>6 DEF Clean

-----------------------------------------------------------------------------
(* The steps that are not quiet: those that construct a ticket, and those   *)
(* that enter or leave a monitor held over more than one step.              *)

\* A new ticket granting ticket t, of a login or of a delegation.
LEMMA NewTgtSafe ==
    ASSUME TypeInv, SafetyInv,
           NEW t \in TGT \ issued, NEW x \in AbstractTickets, NEW principal,
           issued' = issued \cup {t},
           ticket' = [ticket EXCEPT ![t] = x],
           tgt' = [tgt EXCEPT ![t] = NewTgt(principal)],
           \A s \in ST : st'[s].loggedOut = st[s].loggedOut,
           UNCHANGED <<assertions, sent>>,
           \A p \in Proc : pc[p] \in {"use", "logOut"} \/ pc'[p] \in {"use", "logOut"}
                           => pc'[p] = pc[p] /\ call'[p] = call[p]
    PROVE  MonitorInv' /\ UseInv' /\ LogoutInv'
<1> USE DEF SafetyInv
<1>1. MonitorInv'
      BY DEF MonitorInv
<1>2. \A s \in ST : s # t /\ ticket'[s] = ticket[s] /\ (s \in issued' <=> s \in issued)
      BY IdsAssumption DEF TypeInv, DataInv, Ticket
<1>3. UseInv'
  <2>1. \A p \in Proc : pc'[p] = "use" => /\ pc[p] = "use"
                                         /\ call'[p].ticket = call[p].ticket
                                         /\ call[p].ticket \in ST
        BY DEF TypeInv, ControlInv, MayHold, HoldsSt
  <2> QED BY <1>2, <2>1 DEF UseInv
<1>4. \A u : Locked(u)' <=> Locked(u)
      BY DEF Locked
<1>5. \A s \in ST \cap issued : ticket[s].granting # t
      BY IdsAssumption DEF IssuedInv, Ticket
<1>6. /\ tgt'[t].services = {} /\ ~tgt'[t].expired
      /\ \A u \in TGT \ {t} : tgt'[u] = tgt[u]
      BY DEF TypeInv, DataInv, NewTgt
<1>7. \A u \in TGT, s \in ST : s \in tgt'[u].services <=> s \in issued' /\ ticket'[s].granting = u
      BY <1>2, <1>5, <1>6 DEF LogoutInv
<1>8. ASSUME NEW u \in TGT, NEW s \in ST \cap issued',
             tgt'[u].expired, ~Locked(u)', ticket'[s].granting = u,
             \/ assertions'[s] > 0
             \/ \E p \in Proc : pc'[p] = "use" /\ call'[p].ticket = s
      PROVE  st'[s].loggedOut
  <2>1. u # t /\ tgt[u].expired /\ ~Locked(u) /\ ticket[s].granting = u /\ s \in issued
        BY <1>2, <1>4, <1>6, <1>8
  <2>2. \/ assertions[s] > 0
        \/ \E p \in Proc : pc[p] = "use" /\ call[p].ticket = s
        BY <1>8
  <2> QED BY <2>1, <2>2 DEF LogoutInv
<1>9. /\ \A s \in ST : sent'[s] = IF st'[s].loggedOut THEN 1 ELSE 0
      /\ \A s \in ST \ issued' : ~st'[s].loggedOut
      BY <1>2 DEF LogoutInv
<1>10. LogoutInv'
      BY <1>7, <1>8, <1>9 DEF LogoutInv
<1> QED BY <1>1, <1>3, <1>10

LEMMA CreateSafe ==
    ASSUME TypeInv, SafetyInv, NEW th \in Thread, CreateTicketGrantingTicket(th)
    PROVE  MonitorInv' /\ UseInv' /\ LogoutInv'
<1>1. PICK t \in TGT \ issued, p \in Principal :
        /\ issued' = issued \cup {t}
        /\ ticket' = [ticket EXCEPT ![t] = NewTicket(NoTicket, {})]
        /\ tgt' = [tgt EXCEPT ![t] = NewTgt(p)]
      BY DEF CreateTicketGrantingTicket
<1>2. NewTicket(NoTicket, {}) \in AbstractTickets
      BY NewTypes DEF TypeInv
<1>3. UNCHANGED <<st, pc, call, assertions, sent>>
      BY DEF CreateTicketGrantingTicket, history
<1> QED BY <1>1, <1>2, <1>3, NewTgtSafe

LEMMA DelegateSafe ==
    ASSUME TypeInv, SafetyInv, NEW th \in Thread, GrantTicketGrantingTicket(th)
    PROVE  MonitorInv' /\ UseInv' /\ LogoutInv'
<1> DEFINE s == call[th].ticket
<1>1. s \in ST /\ th \in Proc /\ pc[th] = "delegate"
      BY DEF GrantTicketGrantingTicket, TypeInv, ControlInv, MayHold, HoldsSt, Proc
<1>2. CASE Return(th) /\ UNCHANGED heap
  <2>1. Quiet
        BY <1>1, <1>2
        DEF GrantTicketGrantingTicket, Quiet, Return, Enter, TypeInv, ControlInv, history
  <2> QED BY <2>1, QuietStep
<1>3. CASE ~(Return(th) /\ UNCHANGED heap)
  <2>1. PICK t \in TGT \ issued :
          /\ issued' = issued \cup {t}
          /\ ticket' = [ticket EXCEPT ![t] = NewTicket(ticket[s].granting,
                                                       ticket[s].chain)]
          /\ tgt' = [tgt EXCEPT ![t] = NewTgt(ProxyPrincipal)]
          /\ st' = [st EXCEPT ![s].granted = TRUE]
          /\ Enter(th, "add", [call[th] EXCEPT !.new = t])
        BY <1>3 DEF GrantTicketGrantingTicket
  <2>2. NewTicket(ticket[s].granting, ticket[s].chain) \in AbstractTickets
        BY <1>1, NewTypes, FieldTypes DEF TypeInv, Ticket
  <2>3. \A u \in ST : st'[u].loggedOut = st[u].loggedOut
        BY <1>1, <2>1 DEF TypeInv, DataInv, ServiceTickets
  <2>4. UNCHANGED <<assertions, sent>>
        BY DEF GrantTicketGrantingTicket, history
  <2>5. \A p \in Proc : pc[p] \in {"use", "logOut"} \/ pc'[p] \in {"use", "logOut"}
                         => pc'[p] = pc[p] /\ call'[p] = call[p]
        BY <1>1, <2>1 DEF Enter, TypeInv, ControlInv
  <2> HIDE DEF s
  <2> QED BY <2>1, <2>2, <2>3, <2>4, <2>5, NewTgtSafe
<1> QED BY <1>2, <1>3

\* A new service ticket s joins the services of the ticket that grants it.
LEMMA GrantSafe ==
    ASSUME TypeInv, SafetyInv, NEW th \in Thread, GrantServiceTicket(th)
    PROVE  MonitorInv' /\ UseInv' /\ LogoutInv'
<1> USE DEF SafetyInv
<1> DEFINE t == call[th].ticket
<1>1. t \in TGT /\ t \in issued /\ th \in Proc /\ pc[th] = "grant"
      BY DEF GrantServiceTicket, TypeInv, ControlInv, MayHold, IssuedInv, HoldsTgt, Proc
<1>2. PICK s \in ST \ issued :
        /\ issued' = issued \cup {s}
        /\ st' = [st EXCEPT ![s] = NewSt(call[th].service,
                    ticket[t].uses = 0 \/ call[th].credentials # NoCredentials)]
        /\ ticket' = [ticket EXCEPT ![s] = NewTicket(t, {t} \cup ticket[t].chain),
                                    ![t] = UpdateState(t)]
        /\ tgt' = [tgt EXCEPT ![t].services = @ \cup {s}]
        /\ Enter(th, "add", [call[th] EXCEPT !.new = s])
      BY DEF GrantServiceTicket
<1>3. UNCHANGED <<assertions, sent>>
      BY DEF GrantServiceTicket, history
<1>4. \A p \in Proc : pc[p] \in {"use", "logOut"} \/ pc'[p] \in {"use", "logOut"}
                       => pc'[p] = pc[p] /\ call'[p] = call[p]
      BY <1>1, <1>2 DEF Enter, TypeInv, ControlInv
<1> HIDE DEF t
<1>5. /\ \A x \in ST \ {s} : ticket'[x] = ticket[x]
      /\ ticket'[s].granting = t /\ ticket'[s].uses = 0
      BY <1>1, <1>2, IdsAssumption DEF TypeInv, DataInv, NewTicket, Ticket
<1>6. /\ \A x \in ST \ {s} : st'[x] = st[x]
      /\ ~st'[s].loggedOut
      BY <1>2 DEF TypeInv, DataInv, NewSt
<1>7. /\ \A u \in TGT : tgt'[u].expired = tgt[u].expired
      /\ \A u \in TGT \ {t} : tgt'[u].services = tgt[u].services
      /\ tgt'[t].services = tgt[t].services \cup {s}
      BY <1>1, <1>2 DEF TypeInv, DataInv, TicketGrantingTickets
<1>8. \A u : Locked(u)' <=> Locked(u)
      BY <1>4 DEF Locked
<1>9. \A p \in Proc : pc'[p] = "use" => /\ pc[p] = "use"
                                       /\ call'[p].ticket = call[p].ticket
                                       /\ call[p].ticket \in ST \cap issued
      BY <1>4 DEF TypeInv, ControlInv, MayHold, HoldsSt, IssuedInv
<1>10. ~st[s].loggedOut /\ ticket[s].uses = 0 /\ assertions[s] = 0 /\ sent[s] = 0
      BY FieldTypes DEF UseInv, LogoutInv, TypeInv, DataInv, Ticket
<1>11. MonitorInv'
      BY <1>4 DEF MonitorInv
<1>12. UseInv'
  <2>1. \A x \in ST : assertions'[x] <= ticket'[x].uses /\ ticket'[x].uses <= StNumberOfUses
        BY <1>3, <1>5, <1>10, PolicyAssumption DEF UseInv
  <2>2. \A p \in Proc : pc'[p] = "use" => ticket'[call'[p].ticket].uses < StNumberOfUses
        BY <1>5, <1>9 DEF UseInv
  <2>3. \A x \in ST \ issued' : ticket'[x].uses = 0
        BY <1>2, <1>5 DEF UseInv
  <2> QED BY <2>1, <2>2, <2>3 DEF UseInv
<1>13. ASSUME NEW u \in TGT, NEW x \in ST \cap issued',
             tgt'[u].expired, ~Locked(u)', ticket'[x].granting = u,
             \/ assertions'[x] > 0
             \/ \E p \in Proc : pc'[p] = "use" /\ call'[p].ticket = x
      PROVE  st'[x].loggedOut
  <2>1. x # s
        BY <1>3, <1>9, <1>10, <1>13
  <2>2. tgt[u].expired /\ ~Locked(u) /\ ticket[x].granting = u /\ x \in issued
        BY <1>2, <1>5, <1>7, <1>8, <1>13, <2>1
  <2>3. \/ assertions[x] > 0
        \/ \E p \in Proc : pc[p] = "use" /\ call[p].ticket = x
        BY <1>3, <1>9, <1>13
  <2> QED BY <1>6, <2>1, <2>2, <2>3 DEF LogoutInv
<1>14. LogoutInv'
  <2>1. \A x \in ST : sent'[x] = IF st'[x].loggedOut THEN 1 ELSE 0
        BY <1>3, <1>6, <1>10 DEF LogoutInv
  <2>2. \A x \in ST \ issued' : ~st'[x].loggedOut
        BY <1>2, <1>6 DEF LogoutInv
  <2>3. \A u \in TGT, x \in ST :
          x \in tgt'[u].services <=> x \in issued' /\ ticket'[x].granting = u
    <3> SUFFICES ASSUME NEW u \in TGT, NEW x \in ST
                 PROVE  x \in tgt'[u].services
                        <=> x \in issued' /\ ticket'[x].granting = u
        OBVIOUS
    <3>1. x \in tgt[u].services <=> x \in issued /\ ticket[x].granting = u
          BY DEF LogoutInv
    <3>2. s \notin issued /\ issued' = issued \cup {s}
          BY <1>2
    <3>3. CASE x = s
          BY <1>5, <1>7, <3>1, <3>2, <3>3
    <3>4. CASE x # s
          BY <1>5, <1>7, <3>1, <3>2, <3>4
    <3> QED BY <3>3, <3>4
  <2> QED BY <1>13, <2>1, <2>2, <2>3 DEF LogoutInv
<1> QED BY <1>11, <1>12, <1>14

\* A validation that finds the ticket alive: its granting ticket has not been
\* expired, so nothing has to have been logged out yet.
LEMMA CheckSafe ==
    ASSUME TypeInv, SafetyInv, NEW th \in Thread, ValidateCheck(th)
    PROVE  MonitorInv' /\ UseInv' /\ LogoutInv'
<1> USE DEF SafetyInv
<1> DEFINE s == call[th].ticket
<1>1. /\ s \in ST /\ s \in issued /\ th \in Proc /\ pc[th] = "checkSt"
      /\ UNCHANGED <<heap, assertions, sent, call>>
      BY DEF ValidateCheck, TypeInv, ControlInv, MayHold, IssuedInv, HoldsSt, Proc,
             Goto, history
<1>2. CASE IsExpired(s)
  <2>1. Quiet
        BY <1>1, <1>2 DEF ValidateCheck, Quiet, Goto, TypeInv, ControlInv
  <2> QED BY <2>1, QuietStep
<1>3. CASE ~IsExpired(s)
  <2>1. pc' = [pc EXCEPT ![th] = "use"]
        BY <1>3 DEF ValidateCheck, Goto
  <2>2. ~Locked(s)
        BY DEF ValidateCheck
  <2>3. MonitorInv'
        BY <1>1, <2>1, <2>2 DEF MonitorInv, Locked, TypeInv, ControlInv
  <2>4. ticket[s].uses < StNumberOfUses
    <3>1. ~PolicyExpired(s)
          BY <1>3 DEF IsExpired
    <3>2. ticket[s].uses \in Nat
          BY <1>1, FieldTypes DEF TypeInv, Ticket
    <3> QED BY <1>1, <3>1, <3>2, PolicyAssumption
            DEF PolicyExpired, MultiTimeUseOrTimeout
  <2>5. UseInv'
        BY <1>1, <2>1, <2>4 DEF UseInv, heap, TypeInv, ControlInv
  <2>6. \A u \in TGT : Locked(u)' <=> Locked(u)
        BY <1>1, <2>1, IdsAssumption DEF Locked, TypeInv, ControlInv
  <2>7. \A u \in TGT : ticket[s].granting = u => ~tgt[u].expired
        BY <1>1, <1>3 DEF IsExpired, IssuedInv
  <2>8. LogoutInv'
        BY <1>1, <2>1, <2>6, <2>7 DEF LogoutInv, heap, TypeInv, ControlInv
  <2> QED BY <2>3, <2>5, <2>8
<1> QED BY <1>2, <1>3

\* The use is counted, and an assertion may be returned, by the one thread
\* that holds the monitor of the ticket.
LEMMA UseSafe ==
    ASSUME TypeInv, SafetyInv, NEW th \in Thread, ValidateUse(th)
    PROVE  MonitorInv' /\ UseInv' /\ LogoutInv'
<1> USE DEF SafetyInv
<1> DEFINE s == call[th].ticket
<1>1. /\ s \in ST /\ s \in issued /\ th \in Proc /\ pc[th] = "use"
      /\ pc' = [pc EXCEPT ![th] = "finally"]
      /\ UNCHANGED <<issued, tgt, st, sent, call>>
      BY DEF ValidateUse, TypeInv, ControlInv, MayHold, IssuedInv, HoldsSt, Proc, Goto
<1>2. \A p \in Proc : pc'[p] \in {"use", "logOut"} => pc'[p] = pc[p] /\ p # th
      BY <1>1 DEF TypeInv, ControlInv
<1>3. MonitorInv'
      BY <1>1, <1>2 DEF MonitorInv
<1>4. /\ \A x \in ST : x # s => ticket'[x] = ticket[x] /\ assertions'[x] = assertions[x]
      /\ ticket'[s].uses = ticket[s].uses + 1
      /\ \A x \in ST : ticket'[x].granting = ticket[x].granting
      /\ assertions'[s] \in {assertions[s], assertions[s] + 1}
      BY <1>1 DEF ValidateUse, TypeInv, DataInv, UpdateState, AbstractTickets, Ticket
<1>5. ticket[s].uses \in Nat /\ assertions[s] \in Nat
      BY <1>1, FieldTypes DEF TypeInv, DataInv, Ticket
<1>6. UseInv'
  <2>1. \A x \in ST : assertions'[x] <= ticket'[x].uses /\ ticket'[x].uses <= StNumberOfUses
        BY <1>1, <1>4, <1>5, PolicyAssumption DEF UseInv
  <2>2. ASSUME NEW p \in Proc, pc'[p] = "use"
        PROVE  ticket'[call'[p].ticket].uses < StNumberOfUses
    <3>1. pc[p] = "use" /\ call[p].ticket \in ST /\ call[p].ticket # s
          BY <1>1, <1>2, <2>2 DEF MonitorInv, TypeInv, ControlInv, MayHold, HoldsSt
    <3> QED BY <1>1, <1>4, <3>1 DEF UseInv
  <2>3. \A x \in ST \ issued' : ticket'[x].uses = 0
        BY <1>1, <1>4 DEF UseInv
  <2> QED BY <2>1, <2>2, <2>3 DEF UseInv
<1>7. \A u \in TGT : Locked(u)' <=> Locked(u)
      BY <1>1, IdsAssumption DEF Locked, TypeInv, ControlInv
<1>8. ASSUME NEW u \in TGT, NEW x \in ST \cap issued',
             tgt'[u].expired, ~Locked(u)', ticket'[x].granting = u,
             \/ assertions'[x] > 0
             \/ \E p \in Proc : pc'[p] = "use" /\ call'[p].ticket = x
      PROVE  st'[x].loggedOut
  <2>1. tgt[u].expired /\ ~Locked(u) /\ ticket[x].granting = u /\ x \in issued
        BY <1>1, <1>4, <1>7, <1>8
  <2>2. \/ assertions[x] > 0
        \/ \E p \in Proc : pc[p] = "use" /\ call[p].ticket = x
        BY <1>1, <1>2, <1>4, <1>8
  <2> QED BY <1>1, <2>1, <2>2 DEF LogoutInv
<1>9. LogoutInv'
      BY <1>1, <1>4, <1>8 DEF LogoutInv
<1> QED BY <1>3, <1>6, <1>9

\* expire() raises the flag and from then on holds the monitor.
LEMMA ExpireSafe ==
    ASSUME TypeInv, SafetyInv, NEW p \in Proc, Expire(p)
    PROVE  MonitorInv' /\ UseInv' /\ LogoutInv'
<1> USE DEF SafetyInv
<1> DEFINE t == call[p].ticket
<1>1. /\ t \in TGT /\ pc[p] = "expire" /\ ~Locked(t)
      /\ pc' = [pc EXCEPT ![p] = "logOut"]
      /\ UNCHANGED <<issued, ticket, st, assertions, sent, call>>
      BY DEF Expire, TypeInv, ControlInv, MayHold, HoldsTgt, Goto, history
<1>2. MonitorInv'
      BY <1>1 DEF MonitorInv, Locked, TypeInv, ControlInv
<1>3. UseInv'
      BY <1>1 DEF UseInv, TypeInv, ControlInv
<1>4. /\ \A u \in TGT : tgt'[u].services = tgt[u].services
      /\ \A u \in TGT \ {t} : tgt'[u].expired = tgt[u].expired
      BY <1>1 DEF Expire, TypeInv, DataInv, TicketGrantingTickets
<1>5. /\ Locked(t)'
      /\ \A u \in TGT \ {t} : Locked(u)' <=> Locked(u)
      BY <1>1 DEF Locked, TypeInv, ControlInv
<1>6. \A q \in Proc : pc'[q] = "use" => pc[q] = "use"
      BY <1>1 DEF TypeInv, ControlInv
<1>7. LogoutInv'
  <2>1. ASSUME NEW u \in TGT, NEW x \in ST \cap issued',
               tgt'[u].expired, ~Locked(u)', ticket'[x].granting = u,
               \/ assertions'[x] > 0
               \/ \E q \in Proc : pc'[q] = "use" /\ call'[q].ticket = x
        PROVE  st'[x].loggedOut
    <3>1. u # t
      <4>1. SUFFICES ASSUME u = t PROVE FALSE
            OBVIOUS
      <4>2. Locked(u)'
            BY <1>1, <1>5, <4>1 DEF Locked
      <4> QED BY <2>1, <4>2
    <3>3. tgt[u].expired /\ ~Locked(u)
          BY <1>4, <1>5, <2>1, <3>1
    <3>2. \/ assertions[x] > 0
          \/ \E q \in Proc : pc[q] = "use" /\ call[q].ticket = x
          BY <1>1, <1>6, <2>1
    <3> QED BY <1>1, <2>1, <3>2, <3>3 DEF LogoutInv
  <2> QED BY <1>1, <1>4, <2>1 DEF LogoutInv
<1> QED BY <1>2, <1>3, <1>7

\* Leaving expire() all services of the ticket have been logged out.
LEMMA LogOutSafe ==
    ASSUME TypeInv, SafetyInv, NEW p \in Proc, LogOutOfServices(p)
    PROVE  MonitorInv' /\ UseInv' /\ LogoutInv'
<1> USE DEF SafetyInv
<1> DEFINE t == call[p].ticket
<1>1. /\ t \in TGT /\ pc[p] = "logOut"
      /\ pc' = [pc EXCEPT ![p] = "delete"]
      /\ UNCHANGED <<issued, ticket, tgt, assertions, call>>
      BY DEF LogOutOfServices, TypeInv, ControlInv, MayHold, HoldsTgt, Goto
<1>2. MonitorInv'
      BY <1>1 DEF MonitorInv, TypeInv, ControlInv
<1>3. UseInv'
      BY <1>1 DEF UseInv, TypeInv, ControlInv
<1>4. \A x \in ST :
         /\ st[x].loggedOut \in BOOLEAN
         /\ st'[x].loggedOut = (st[x].loggedOut \/ x \in tgt[t].services)
         /\ sent'[x] = IF x \in tgt[t].services /\ ~st[x].loggedOut
                       THEN sent[x] + 1 ELSE sent[x]
  <2>1. ASSUME NEW x \in ST
        PROVE  /\ st[x] \in ServiceTickets
               /\ [st[x] EXCEPT !.loggedOut = TRUE].loggedOut = TRUE
               /\ st[x].loggedOut \in BOOLEAN
        BY DEF TypeInv, DataInv, ServiceTickets
  <2>2. ASSUME NEW x \in ST
        PROVE  st'[x].loggedOut = (st[x].loggedOut \/ x \in tgt[t].services)
        BY <2>1, <2>2 DEF LogOutOfServices
  <2> QED BY <2>1, <2>2 DEF LogOutOfServices
<1>5. \A u \in TGT \ {t} : Locked(u)' <=> Locked(u)
      BY <1>1 DEF Locked, TypeInv, ControlInv
<1>6. \A q \in Proc : pc'[q] = "use" => pc[q] = "use"
      BY <1>1 DEF TypeInv, ControlInv
<1>7. LogoutInv'
  <2>1. ASSUME NEW u \in TGT, NEW x \in ST \cap issued',
               tgt'[u].expired, ~Locked(u)', ticket'[x].granting = u,
               \/ assertions'[x] > 0
               \/ \E q \in Proc : pc'[q] = "use" /\ call'[q].ticket = x
        PROVE  st'[x].loggedOut
    <3>1. CASE u = t
          BY <1>1, <1>4, <2>1, <3>1 DEF LogoutInv
    <3>2. CASE u # t
      <4>1. \/ assertions[x] > 0
            \/ \E q \in Proc : pc[q] = "use" /\ call[q].ticket = x
            BY <1>1, <1>6, <2>1
      <4>2. st[x].loggedOut
            BY <1>1, <1>5, <2>1, <3>2, <4>1 DEF LogoutInv
      <4> QED BY <1>4, <4>2
    <3> QED BY <3>1, <3>2
  <2>2. \A x \in ST : sent'[x] = IF st'[x].loggedOut THEN 1 ELSE 0
    <3> SUFFICES ASSUME NEW x \in ST
                 PROVE  sent'[x] = IF st'[x].loggedOut THEN 1 ELSE 0
        OBVIOUS
    <3>1. sent[x] = IF st[x].loggedOut THEN 1 ELSE 0
          BY DEF LogoutInv
    <3>2. CASE st[x].loggedOut
          BY <1>4, <3>1, <3>2
    <3>3. CASE ~st[x].loggedOut /\ x \in tgt[t].services
      <4>1. st'[x].loggedOut /\ sent'[x] = sent[x] + 1 /\ sent[x] = 0
            BY <1>4, <3>1, <3>3
      <4> QED BY <4>1
    <3>4. CASE ~st[x].loggedOut /\ x \notin tgt[t].services
      <4>1. ~st'[x].loggedOut /\ sent'[x] = sent[x] /\ sent[x] = 0
            BY <1>4, <3>1, <3>4
      <4> QED BY <4>1
    <3> QED BY <3>2, <3>3, <3>4
  <2>3. \A x \in ST \ issued' : ~st'[x].loggedOut
        BY <1>1, <1>4 DEF LogoutInv
  <2> QED BY <1>1, <2>1, <2>2, <2>3 DEF LogoutInv
<1> QED BY <1>2, <1>3, <1>7

-----------------------------------------------------------------------------
LEMMA SafetyStep == TypeInv /\ SafetyInv /\ [Next]_vars => SafetyInv'
<1> SUFFICES ASSUME TypeInv, SafetyInv, [Next]_vars PROVE SafetyInv'
    OBVIOUS
<1> Cleaner \in Proc /\ Thread \subseteq Proc
    BY DEF Proc
<1>1. ASSUME NEW th \in Thread, Call(th) PROVE SafetyInv'
      BY <1>1, IssuedCall, QuietCall, QuietStep, CreateSafe DEF SafetyInv
<1>2. ASSUME NEW th \in Thread, Proceed(th) PROVE SafetyInv'
  <2>1. IssuedInv'
        BY <1>2, IssuedProceed DEF SafetyInv
  <2>2. MonitorInv' /\ UseInv' /\ LogoutInv'
        BY <1>2, QuietProceed, QuietStep, GrantSafe, CheckSafe, UseSafe,
           DelegateSafe, ExpireSafe, LogOutSafe DEF Proceed
  <2> QED BY <2>1, <2>2 DEF SafetyInv
<1>3. ASSUME Clean PROVE SafetyInv'
  <2>1. IssuedInv'
        BY <1>3, IssuedClean DEF SafetyInv
  <2>2. MonitorInv' /\ UseInv' /\ LogoutInv'
        BY <1>3, QuietClean, QuietStep, ExpireSafe, LogOutSafe DEF Clean
  <2> QED BY <2>1, <2>2 DEF SafetyInv
<1>4. CASE Tick \/ UNCHANGED vars
  <2>1. /\ Quiet
        /\ UNCHANGED <<registry, heap, pc, call, cleaner>>
        BY <1>4 DEF Tick, vars, Quiet, heap, history
  <2>2. IssuedInv'
        BY <2>1 DEF SafetyInv, IssuedInv, heap, cleaner
  <2> QED BY <2>1, <2>2, QuietStep DEF SafetyInv
<1> QED BY <1>1, <1>2, <1>3, <1>4 DEF Next

LEMMA SafetyInvariant == Spec => [](TypeInv /\ SafetyInv)
<1> QED BY TypeInit, TypeStep, SafetyInit, SafetyStep, PTL DEF Spec

\* However many requests race for it, a service ticket buys at most
\* StNumberOfUses assertions.
THEOREM UsesAreBounded == Spec => []UsesBounded
<1>1. TypeInv /\ SafetyInv => UsesBounded
  <2> SUFFICES ASSUME TypeInv, SafetyInv, NEW s \in ST
               PROVE  assertions[s] <= StNumberOfUses
      BY DEF UsesBounded
  <2>1. assertions[s] \in Nat /\ ticket[s].uses \in Nat
        BY FieldTypes DEF TypeInv, DataInv, Ticket
  <2> QED BY <2>1, PolicyAssumption DEF SafetyInv, UseInv
<1> QED BY <1>1, SafetyInvariant, PTL

\* Once a ticket granting ticket has been expired, each application that got an
\* assertion from it has been sent one logout request, and no application ever
\* gets two.
THEOREM LogoutIsCompleteAndOnce == Spec => []SingleSignOut
<1>1. TypeInv /\ SafetyInv => SingleSignOut
  <2> SUFFICES ASSUME TypeInv, SafetyInv PROVE SingleSignOut
      OBVIOUS
  <2>1. \A s \in ST : sent[s] <= 1
        BY DEF SafetyInv, LogoutInv
  <2>2. ASSUME NEW t \in TGT, tgt[t].expired, ~Locked(t), NEW s \in ST,
               ticket[s].granting = t, assertions[s] > 0
        PROVE  sent[s] = 1
    <3>1. ticket[s].uses \in Nat /\ assertions[s] \in Nat
          BY FieldTypes DEF TypeInv, DataInv, Ticket
    <3>2. s \in issued
          BY <2>2, <3>1 DEF SafetyInv, UseInv
    <3> QED BY <2>2, <3>2 DEF SafetyInv, LogoutInv
  <2> QED BY <2>1, <2>2 DEF SingleSignOut
<1> QED BY <1>1, SafetyInvariant, PTL

\* Of a ticket in expire() the services are settled: a grant waits for its
\* monitor, and a new ticket has an id nobody holds.
LEMMA ServicesStep ==
    ASSUME TypeInv, SafetyInv, [Next]_vars, NEW t \in TGT, Locked(t)
    PROVE  tgt'[t].services = tgt[t].services
<1>1. t \in issued
      BY DEF Locked, SafetyInv, IssuedInv, HoldsTgt, HoldsSt
<1>2. tgt \in [TGT -> TicketGrantingTickets]
      BY DEF TypeInv, DataInv
<1>3. CASE tgt' = tgt
      BY <1>3
<1>4. ASSUME NEW th \in Thread, CreateTicketGrantingTicket(th)
      PROVE  tgt'[t].services = tgt[t].services
      BY <1>1, <1>2, <1>4 DEF CreateTicketGrantingTicket
<1>5. ASSUME NEW th \in Thread, GrantServiceTicket(th)
      PROVE  tgt'[t].services = tgt[t].services
      BY <1>2, <1>5 DEF GrantServiceTicket
<1>6. ASSUME NEW th \in Thread, GrantTicketGrantingTicket(th)
      PROVE  tgt'[t].services = tgt[t].services
      BY <1>1, <1>2, <1>6 DEF GrantTicketGrantingTicket, heap
<1>7. ASSUME NEW p \in Proc, Expire(p)
      PROVE  tgt'[t].services = tgt[t].services
      BY <1>2, <1>7 DEF Expire, TicketGrantingTickets
<1>8. ASSUME NEW th \in Thread, Call(th)
      PROVE  tgt'[t].services = tgt[t].services
      BY <1>3, <1>4, <1>8
      DEF Call, GrantLookup, ValidateLookup, DelegateLookup, DestroyLookup, heap
<1>9. ASSUME NEW th \in Thread, Proceed(th)
      PROVE  tgt'[t].services = tgt[t].services
  <2>1. th \in Proc
        BY DEF Proc
  <2> QED BY <1>3, <1>5, <1>6, <1>7, <1>9, <2>1
          DEF Proceed, GrantCheck, GrantAuthorize, AddTicket, ValidateCheck,
              ValidateUse, ValidateFinally, ValidateDelete, DelegateCheck, LogOutOfServices,
              DestroyDelete, heap
<1>10. CASE Clean
  <2>1. Cleaner \in Proc
        BY DEF Proc
  <2> QED BY <1>3, <1>7, <1>10, <2>1
          DEF Clean, CleanStart, CleanScan, CleanScanned, CleanNext, CleanDelete,
              LogOutOfServices, heap
<1> QED BY <1>3, <1>8, <1>9, <1>10 DEF Next, Tick, vars, heap

\* While expire() iterates over the services of a ticket nobody adds to them,
\* so its iterator never fails.
THEOREM IterationIsSafe == Spec => ServicesStableDuringLogout
<1>1. TypeInv /\ SafetyInv /\ [Next]_vars =>
         [\A t \in TGT : Locked(t) => tgt'[t].services = tgt[t].services]_vars
      BY ServicesStep
<1> QED BY <1>1, SafetyInvariant, PTL DEF Spec, ServicesStableDuringLogout

-----------------------------------------------------------------------------
(* A used up ticket leaves with the request that used it up.               *)

Holders == HoldsTgt \cup HoldsSt \cup {"delete"}

\* Nobody but the thread that is about to add ticket x has come by it.
Unpublished(x) ==
    /\ x \notin registry \cup unseen \cup doomed
    /\ ticket[x].uses = 0
    /\ \A p \in Proc : pc[p] \in Holders => call[p].ticket # x

FreshInv ==
    \A th \in Thread : pc[th] = "add" =>
        /\ Unpublished(call[th].new)
        /\ \A q \in Thread : pc[q] = "add" /\ call[q].new = call[th].new => q = th

\* The request that used a ticket up is still in its finally clause.
Finishing == {"finally", "deleteSt"}

UsedUpInv ==
    \A s \in ST \cap registry : ticket[s].uses >= StNumberOfUses =>
        \E th \in Thread : pc[th] \in Finishing /\ call[th].ticket = s

LifeInv == FreshInv /\ UsedUpInv

LEMMA LifeInit == Init => LifeInv
BY DEF Init, LifeInv, FreshInv, UsedUpInv, Proc

\* A step that publishes nothing, uses nothing and leaves no finally clause.
LEMMA UsedUpKept ==
    ASSUME TypeInv, UsedUpInv,
           \A s \in ST : ticket'[s].uses = ticket[s].uses,
           registry' \cap ST \subseteq registry,
           \A th \in Thread : pc[th] \in Finishing =>
                               pc'[th] \in Finishing /\ call'[th] = call[th]
    PROVE  UsedUpInv'
BY DEF UsedUpInv

LEMMA FreshKept ==
    ASSUME TypeInv, SafetyInv, FreshInv,
           registry' \subseteq registry, unseen' \subseteq unseen \cup registry,
           doomed' \subseteq doomed \cup unseen,
           \A x \in Ticket : \/ ticket'[x].uses = ticket[x].uses
                             \/ \E p \in Proc : pc[p] \in Holders /\ call[p].ticket = x,
           \A th \in Thread : pc'[th] = "add" => pc[th] = "add" /\ call'[th] = call[th],
           \A p \in Proc : pc'[p] \in Holders =>
                \/ pc[p] \in Holders /\ call'[p].ticket = call[p].ticket
                \/ call'[p].ticket \in registry \cup doomed
                \/ call'[p].ticket \notin {call[q].new : q \in Thread}
    PROVE  FreshInv'
<1> SUFFICES ASSUME NEW th \in Thread, pc'[th] = "add"
             PROVE  /\ Unpublished(call[th].new)'
                    /\ call'[th].new = call[th].new
                    /\ \A q \in Thread : pc'[q] = "add" /\ call'[q].new = call'[th].new
                                          => q = th
    BY DEF FreshInv, Unpublished
<1>1. /\ pc[th] = "add" /\ call'[th] = call[th]
      /\ Unpublished(call[th].new)
      /\ \A q \in Thread : pc[q] = "add" /\ call[q].new = call[th].new => q = th
      BY DEF FreshInv
<1>2. th \in Proc /\ call[th].new \in Ticket
      BY <1>1 DEF Proc, TypeInv, ControlInv, MayHold
<1>3. call'[th].new \notin registry' \cup unseen' \cup doomed'
      BY <1>1 DEF Unpublished
<1>4. ticket'[call[th].new].uses = 0
      BY <1>1, <1>2 DEF Unpublished
<1>5. \A p \in Proc : pc'[p] \in Holders => call'[p].ticket # call[th].new
      BY <1>1 DEF Unpublished
<1> QED BY <1>1, <1>3, <1>4, <1>5 DEF Unpublished

LEMMA LifeCall ==
    ASSUME TypeInv, SafetyInv, LifeInv, NEW th \in Thread, Call(th)
    PROVE  LifeInv'
<1> th \in Proc /\ Thread \subseteq Proc
    BY DEF Proc
<1> USE DEF LifeInv, Finishing, Request, Holding, Enter, Holders, HoldsTgt, HoldsSt
<1>1. CASE CreateTicketGrantingTicket(th)
  <2>1. PICK t \in TGT \ issued :
          /\ ticket' = [ticket EXCEPT ![t] = NewTicket(NoTicket, {})]
          /\ registry' = registry \cup {t}
          /\ unseen' \subseteq unseen \cup {t}
        BY <1>1 DEF CreateTicketGrantingTicket, Store
  <2>2. UNCHANGED <<pc, call, doomed>>
        BY <1>1 DEF CreateTicketGrantingTicket, Store
  <2>3. \A x \in Ticket \ {t} : ticket'[x] = ticket[x]
        BY <2>1 DEF TypeInv, DataInv
  <2>4. \A q \in Thread : pc[q] = "add" => call[q].new # t /\ call[q].new \in Ticket
        BY DEF SafetyInv, IssuedInv, TypeInv, ControlInv, MayHold
  <2>5. FreshInv'
        BY <2>1, <2>2, <2>3, <2>4 DEF FreshInv, Unpublished
  <2>6. UsedUpInv'
        BY <2>1, <2>2, <2>3, IdsAssumption DEF UsedUpInv, Ticket
  <2> QED BY <2>5, <2>6
<1>2. CASE GrantLookup(th) \/ ValidateLookup(th) \/ DelegateLookup(th) \/ DestroyLookup(th)
  <2>1. UNCHANGED <<registry, ticket, unseen, doomed>>
        BY <1>2 DEF GrantLookup, ValidateLookup, DelegateLookup, DestroyLookup, heap, cleaner
  <2>2. \/ UNCHANGED <<pc, call>>
        \/ /\ pc[th] = "idle"
           /\ pc'[th] \in Holders
           /\ \A p \in Proc \ {th} : pc'[p] = pc[p] /\ call'[p] = call[p]
           /\ \/ call'[th].ticket \in registry
              \/ call'[th].ticket \notin {call[q].new : q \in Thread}
    <3> USE DEF TypeInv, ControlInv
    <3>1. CASE GrantLookup(th)
          BY <3>1 DEF GrantLookup
    <3>2. CASE ValidateLookup(th)
          BY <3>2 DEF ValidateLookup
    <3>3. CASE DelegateLookup(th)
          BY <3>3 DEF DelegateLookup
    <3>4. CASE DestroyLookup(th)
          BY <3>4 DEF DestroyLookup
    <3> QED BY <1>2, <3>1, <3>2, <3>3, <3>4
  <2>3. /\ \A q \in Thread : pc'[q] = "add" => pc[q] = "add" /\ call'[q] = call[q]
        /\ \A q \in Thread : pc[q] \in Finishing => pc'[q] \in Finishing /\ call'[q] = call[q]
        /\ \A p \in Proc : pc'[p] \in Holders =>
                \/ pc[p] \in Holders /\ call'[p].ticket = call[p].ticket
                \/ call'[p].ticket \in registry \cup doomed
                \/ call'[p].ticket \notin {call[q].new : q \in Thread}
        BY <2>2 DEF TypeInv, ControlInv
  <2> HIDE DEF Holders
  <2>4. FreshInv'
        BY <2>1, <2>3, FreshKept
  <2>5. UsedUpInv'
        BY <2>1, <2>3, UsedUpKept
  <2> QED BY <2>4, <2>5
<1> QED BY <1>1, <1>2 DEF Call

LEMMA LifeExpire ==
    ASSUME TypeInv, SafetyInv, LifeInv, NEW p \in Proc, Expire(p) \/ LogOutOfServices(p)
    PROVE  LifeInv'
<1> USE DEF LifeInv, Finishing, Goto, cleaner, history
<1>1. UNCHANGED <<registry, unseen, doomed, ticket, call>>
      BY DEF Expire, LogOutOfServices
<1>2. \/ pc[p] = "expire" /\ pc' = [pc EXCEPT ![p] = "logOut"]
      \/ pc[p] = "logOut" /\ pc' = [pc EXCEPT ![p] = "delete"]
      BY DEF Expire, LogOutOfServices
<1>3. /\ \A q \in Thread : pc'[q] = "add" => pc[q] = "add"
      /\ \A q \in Thread : pc[q] \in Finishing => pc'[q] \in Finishing
      /\ \A q \in Proc : pc'[q] \in Holders => pc[q] \in Holders
      BY <1>2 DEF TypeInv, ControlInv, Proc, Holders, HoldsTgt
<1>4. FreshInv'
      BY <1>1, <1>3, FreshKept
<1>5. UsedUpInv'
      BY <1>1, <1>3, UsedUpKept
<1> QED BY <1>4, <1>5

LEMMA LifeProceed ==
    ASSUME TypeInv, SafetyInv, LifeInv, NEW th \in Thread, Proceed(th)
    PROVE  LifeInv'
<1> th \in Proc /\ Thread \subseteq Proc
    BY DEF Proc
<1> USE DEF LifeInv, Finishing
<1>1. CASE GrantCheck(th) \/ GrantAuthorize(th) \/ ValidateCheck(th)
           \/ DelegateCheck(th) \/ DestroyDelete(th)
  <2>1. UNCHANGED <<ticket, unseen, doomed>> /\ registry' \subseteq registry
        BY <1>1 DEF GrantCheck, GrantAuthorize, ValidateCheck, DelegateCheck,
                    DestroyDelete, heap, cleaner
  <2>2. /\ pc[th] \in Holders \ Finishing
        /\ \/ Return(th)
           \/ \E label \in Holders : Goto(th, label)
        BY <1>1 DEF GrantCheck, GrantAuthorize, ValidateCheck, DelegateCheck,
                    DestroyDelete, Holders, HoldsTgt, HoldsSt
  <2>3. /\ \A q \in Thread : pc'[q] = "add" => pc[q] = "add" /\ call'[q] = call[q]
        /\ \A q \in Thread : pc[q] \in Finishing => pc'[q] \in Finishing /\ call'[q] = call[q]
        /\ \A p \in Proc : pc'[p] \in Holders =>
                pc[p] \in Holders /\ call'[p].ticket = call[p].ticket
        BY <2>2 DEF TypeInv, ControlInv, Return, Goto, Enter, Holders, HoldsTgt, HoldsSt
  <2> QED BY <2>1, <2>3, FreshKept, UsedUpKept
<1>2. CASE GrantServiceTicket(th)
  <2> DEFINE t == call[th].ticket
  <2>1. /\ t \in TGT /\ t \in issued /\ pc[th] = "grant"
        /\ UNCHANGED <<registry, unseen, doomed>>
        BY <1>2 DEF GrantServiceTicket, TypeInv, ControlInv, MayHold, SafetyInv,
                    IssuedInv, HoldsTgt, cleaner
  <2>2. PICK s \in ST \ issued :
          /\ ticket' = [ticket EXCEPT ![s] = NewTicket(t, {t} \cup ticket[t].chain),
                                      ![t] = UpdateState(t)]
          /\ Enter(th, "add", [call[th] EXCEPT !.new = s])
        BY <1>2 DEF GrantServiceTicket
  <2> HIDE DEF t
  <2>3. /\ s # t /\ s \in Ticket
        /\ \A x \in Ticket \ {s, t} : ticket'[x] = ticket[x]
        /\ ticket'[s].uses = 0
        BY <2>1, <2>2, IdsAssumption DEF TypeInv, DataInv, Ticket, NewTicket
  <2>4. /\ call'[th].new = s /\ pc'[th] = "add"
        /\ \A p \in Proc \ {th} : pc'[p] = pc[p] /\ call'[p] = call[p]
        BY <2>2 DEF Enter, TypeInv, ControlInv, Calls
  <2>5. Unpublished(s)'
    <3>1. s \notin registry' \cup unseen' \cup doomed'
          BY <2>1, <2>2 DEF SafetyInv, IssuedInv
    <3>2. \A p \in Proc : pc'[p] \in Holders => call'[p].ticket # s
          BY <2>2, <2>4 DEF SafetyInv, IssuedInv, Holders, HoldsTgt, HoldsSt
    <3> QED BY <2>3, <3>1, <3>2 DEF Unpublished
  <2>6. ASSUME NEW q \in Thread, pc'[q] = "add", q # th
        PROVE  Unpublished(call[q].new)' /\ call'[q].new # s
    <3> DEFINE x == call[q].new
    <3>1. pc[q] = "add" /\ call'[q] = call[q] /\ Unpublished(x) /\ x \in issued
          BY <2>4, <2>6 DEF FreshInv, SafetyInv, IssuedInv
    <3>2. x # s /\ x # t /\ x \in Ticket
      <4>1. t # x
            BY <2>1, <3>1 DEF Unpublished, Holders, HoldsTgt, t
      <4>2. x \in Ticket /\ x # s
            BY <2>2, <3>1 DEF TypeInv, DataInv
      <4> QED BY <4>1, <4>2
    <3>3. \A p \in Proc : pc'[p] \in Holders => call'[p].ticket # x
          BY <2>4, <3>1 DEF Unpublished, Holders, HoldsTgt, HoldsSt
    <3> QED BY <2>1, <2>3, <3>1, <3>2, <3>3 DEF Unpublished
  <2>7. FreshInv'
        BY <2>4, <2>5, <2>6 DEF FreshInv
  <2>8. UsedUpInv'
    <3>1. \A x \in ST \cap registry : ticket'[x] = ticket[x]
          BY <2>1, <2>2, <2>3, IdsAssumption DEF Ticket, SafetyInv, IssuedInv
    <3> QED BY <2>1, <2>4, <3>1 DEF UsedUpInv
  <2> QED BY <2>7, <2>8
<1>3. CASE GrantTicketGrantingTicket(th)
  <2> DEFINE s == call[th].ticket
  <2>1. /\ s \in ST /\ pc[th] = "delegate"
        /\ UNCHANGED <<registry, unseen, doomed>>
        BY <1>3 DEF GrantTicketGrantingTicket, TypeInv, ControlInv, MayHold, HoldsSt,
                    cleaner
  <2>2. CASE Return(th) /\ UNCHANGED heap
    <3>1. /\ \A q \in Thread : pc'[q] = "add" => pc[q] = "add" /\ call'[q] = call[q]
          /\ \A q \in Thread : pc[q] \in Finishing => pc'[q] \in Finishing /\ call'[q] = call[q]
          /\ \A p \in Proc : pc'[p] \in Holders =>
                  pc[p] \in Holders /\ call'[p].ticket = call[p].ticket
          BY <2>1, <2>2 DEF TypeInv, ControlInv, Return, Enter, Holders, HoldsTgt, HoldsSt
    <3>2. UNCHANGED ticket
          BY <2>2 DEF heap
    <3> QED BY <2>1, <3>1, <3>2, FreshKept, UsedUpKept
  <2>3. CASE ~(Return(th) /\ UNCHANGED heap)
    <3>1. PICK t \in TGT \ issued :
            /\ ticket' = [ticket EXCEPT ![t] = NewTicket(ticket[s].granting,
                                                         ticket[s].chain)]
            /\ Enter(th, "add", [call[th] EXCEPT !.new = t])
          BY <1>3, <2>3 DEF GrantTicketGrantingTicket
    <3> HIDE DEF s
    <3>2. /\ t \in Ticket
          /\ \A x \in Ticket \ {t} : ticket'[x] = ticket[x]
          /\ ticket'[t].uses = 0
          BY <3>1 DEF TypeInv, DataInv, Ticket, NewTicket
    <3>3. /\ call'[th].new = t /\ pc'[th] = "add"
          /\ \A p \in Proc \ {th} : pc'[p] = pc[p] /\ call'[p] = call[p]
          BY <3>1 DEF Enter, TypeInv, ControlInv, Calls
    <3>4. Unpublished(t)'
      <4>1. t \notin registry' \cup unseen' \cup doomed'
            BY <2>1, <3>1 DEF SafetyInv, IssuedInv
      <4>2. \A p \in Proc : pc'[p] \in Holders => call'[p].ticket # t
            BY <3>1, <3>3 DEF SafetyInv, IssuedInv, Holders, HoldsTgt, HoldsSt
      <4> QED BY <3>2, <4>1, <4>2 DEF Unpublished
    <3>5. ASSUME NEW q \in Thread, pc'[q] = "add", q # th
          PROVE  Unpublished(call[q].new)' /\ call'[q].new # t
      <4> DEFINE x == call[q].new
      <4>1. pc[q] = "add" /\ call'[q] = call[q] /\ Unpublished(x) /\ x \in issued
            BY <3>3, <3>5 DEF FreshInv, SafetyInv, IssuedInv
      <4>2. x # t /\ x \in Ticket
            BY <3>1, <4>1 DEF TypeInv, DataInv
      <4>3. \A p \in Proc : pc'[p] \in Holders => call'[p].ticket # x
            BY <3>3, <4>1 DEF Unpublished, Holders, HoldsTgt, HoldsSt
      <4> QED BY <2>1, <3>2, <4>1, <4>2, <4>3 DEF Unpublished
    <3>6. FreshInv'
          BY <3>3, <3>4, <3>5 DEF FreshInv
    <3>7. UsedUpInv'
      <4>1. \A x \in ST : ticket'[x] = ticket[x]
            BY <3>1, <3>2, IdsAssumption DEF Ticket
      <4> QED BY <2>1, <3>3, <4>1 DEF UsedUpInv
    <3> QED BY <3>6, <3>7
  <2> QED BY <2>2, <2>3
<1>4. CASE AddTicket(th)
  <2>1. /\ pc[th] = "add" /\ registry' = registry \cup {call[th].new}
        /\ unseen' \subseteq unseen \cup {call[th].new}
        /\ UNCHANGED <<ticket, doomed>>
        /\ pc'[th] = "idle"
        /\ \A p \in Proc \ {th} : pc'[p] = pc[p] /\ call'[p] = call[p]
        BY <1>4 DEF AddTicket, Store, Return, Enter, TypeInv, ControlInv, heap
  <2>2. FreshInv'
        BY <2>1 DEF FreshInv, Unpublished, Holders, HoldsTgt, HoldsSt
  <2>3. ticket[call[th].new].uses = 0
        BY <2>1 DEF FreshInv, Unpublished
  <2>4. UsedUpInv'
        BY <2>1, <2>3, PolicyAssumption DEF UsedUpInv
  <2> QED BY <2>2, <2>4
<1>5. CASE ValidateUse(th)
  <2> DEFINE s == call[th].ticket
  <2>1. /\ s \in ST /\ pc[th] = "use"
        /\ UNCHANGED <<registry, unseen, doomed, call>>
        /\ ticket' = [ticket EXCEPT ![s] = UpdateState(s)]
        /\ pc'[th] = "finally"
        /\ \A p \in Proc \ {th} : pc'[p] = pc[p]
        BY <1>5 DEF ValidateUse, Goto, TypeInv, ControlInv, MayHold, HoldsSt, cleaner
  <2>2. \A x \in Ticket \ {s} : ticket'[x] = ticket[x]
        BY <2>1 DEF TypeInv, DataInv
  <2>3. FreshInv'
        BY <2>1, <2>2, FreshKept DEF Holders, HoldsTgt, HoldsSt
  <2>4. UsedUpInv'
        BY <2>1, <2>2 DEF UsedUpInv, Ticket
  <2> QED BY <2>3, <2>4
<1>6. CASE ValidateFinally(th) \/ ValidateDelete(th)
  <2> DEFINE s == call[th].ticket
  <2>1. /\ s \in ST /\ pc[th] \in Finishing
        /\ UNCHANGED <<ticket, unseen, doomed>>
        /\ registry' \subseteq registry
        /\ \A p \in Proc \ {th} : pc'[p] = pc[p] /\ call'[p] = call[p]
        BY <1>6 DEF ValidateFinally, ValidateDelete, Goto, Return, Enter, TypeInv,
                    ControlInv, MayHold, HoldsSt, heap, cleaner
  <2>2. \/ /\ pc'[th] = "idle"
           /\ s \in registry' => ~(ticket[s].uses >= StNumberOfUses)
        \/ pc'[th] = "deleteSt" /\ UNCHANGED <<call, registry>>
    <3>1. CASE ValidateFinally(th)
      <4>1. CASE IsExpired(s)
            BY <3>1, <4>1 DEF ValidateFinally, Goto, TypeInv, ControlInv
      <4>2. CASE ~IsExpired(s)
        <5>1. ~(ticket[s].uses >= StNumberOfUses)
              BY <2>1, <4>2 DEF IsExpired, PolicyExpired, MultiTimeUseOrTimeout
        <5>2. pc'[th] = "idle"
              BY <3>1, <4>2 DEF ValidateFinally, Return, Enter, TypeInv, ControlInv
        <5> QED BY <5>1, <5>2
      <4> QED BY <4>1, <4>2
    <3>2. CASE ValidateDelete(th)
          BY <3>2 DEF ValidateDelete, Return, Enter, TypeInv, ControlInv
    <3> QED BY <1>6, <3>1, <3>2
  <2>3. FreshInv'
        BY <2>1, <2>2, FreshKept DEF Holders, HoldsTgt, HoldsSt
  <2>4. UsedUpInv'
        BY <2>1, <2>2 DEF UsedUpInv
  <2> QED BY <2>3, <2>4
<1>7. CASE Expire(th) \/ LogOutOfServices(th)
      BY <1>7, LifeExpire
<1> QED BY <1>1, <1>2, <1>3, <1>4, <1>5, <1>6, <1>7 DEF Proceed

LEMMA LifeClean == ASSUME TypeInv, SafetyInv, LifeInv, Clean PROVE LifeInv'
<1> Cleaner \in Proc /\ Cleaner \notin Thread /\ Thread \subseteq Proc
    BY IdsAssumption DEF Proc
<1> USE DEF LifeInv
<1>1. CASE CleanStart \/ CleanScan \/ CleanScanned \/ CleanNext \/ CleanDelete
  <2>1. /\ UNCHANGED ticket /\ registry' \subseteq registry
        /\ unseen' \subseteq unseen \cup registry
        /\ doomed' \subseteq doomed \cup unseen
        BY <1>1 DEF CleanStart, CleanScan, CleanScanned, CleanNext, CleanDelete, heap,
                    cleaner
  <2>2. \A q \in Thread : pc'[q] = pc[q] /\ call'[q] = call[q]
    <3> USE DEF TypeInv, ControlInv, Goto, Return, Enter
    <3>1. CASE CleanNext
          BY <3>1 DEF CleanNext
    <3>2. CASE CleanScan
          BY <3>2 DEF CleanScan
    <3>3. CASE CleanStart \/ CleanScanned \/ CleanDelete
          BY <3>3 DEF CleanStart, CleanScanned, CleanDelete
    <3> QED BY <1>1, <3>1, <3>2, <3>3
  <2>3. pc'[Cleaner] \in Holders => \/ pc[Cleaner] \in Holders /\ call' = call
                                    \/ call'[Cleaner].ticket \in doomed
    <3> USE DEF Holders, HoldsTgt, HoldsSt, TypeInv, ControlInv, Goto, Return, Enter
    <3>1. CASE CleanScan
          BY <3>1 DEF CleanScan
    <3>2. CASE CleanNext
          BY <3>2 DEF CleanNext, Holding, Request
    <3>3. CASE CleanStart \/ CleanScanned \/ CleanDelete
          BY <3>3 DEF CleanStart, CleanScanned, CleanDelete
    <3> QED BY <1>1, <3>1, <3>2, <3>3
  <2>4. \A p \in Proc : pc'[p] \in Holders =>
                \/ pc[p] \in Holders /\ call'[p].ticket = call[p].ticket
                \/ call'[p].ticket \in registry \cup doomed
        BY <2>2, <2>3 DEF Proc
  <2> QED BY <2>1, <2>2, <2>4, FreshKept, UsedUpKept
<1>2. CASE Expire(Cleaner) \/ LogOutOfServices(Cleaner)
      BY <1>2, LifeExpire
<1> QED BY <1>1, <1>2 DEF Clean

LEMMA LifeStep == TypeInv /\ SafetyInv /\ LifeInv /\ [Next]_vars => LifeInv'
<1> SUFFICES ASSUME TypeInv, SafetyInv, LifeInv, [Next]_vars PROVE LifeInv'
    OBVIOUS
<1>1. CASE Tick \/ UNCHANGED vars
  <2>1. UNCHANGED <<registry, unseen, doomed, ticket, pc, call>>
        BY <1>1 DEF Tick, vars, heap, cleaner
  <2> QED BY <2>1 DEF LifeInv, FreshInv, UsedUpInv, Unpublished
<1> QED BY <1>1, LifeCall, LifeProceed, LifeClean DEF Next

LEMMA LifeInvariant == Spec => [](TypeInv /\ SafetyInv /\ LifeInv)
<1> QED BY TypeInit, TypeStep, SafetyInit, SafetyStep, LifeInit, LifeStep, PTL DEF Spec

\* A used up ticket is gone from the registry when the request that used it up
\* returns, whoever else validates it, and however a grant is delayed on its way
\* to the registry.
THEOREM UsedUpTicketsAreGone == Spec => []UsedUpTicketsLeave
<1>1. LifeInv => UsedUpTicketsLeave
      BY DEF LifeInv, UsedUpInv, UsedUpTicketsLeave
<1> QED BY <1>1, LifeInvariant, PTL
=============================================================================
